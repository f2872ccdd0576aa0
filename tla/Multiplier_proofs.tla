-------------------------- MODULE Multiplier_proofs --------------------------
(***************************************************************************)
(* Proofs about Multiplier, for words of any width.  The invariant is      *)
(* PartialProduct with what it needs: that the switches still hold the     *)
(* multiplicand, and that the weights of the used and the unused bits      *)
(* multiply to that of a word.                                             *)
(***************************************************************************)
EXTENDS Multiplier, TLAPS

Operands == still /\ curr_state \in Running => SW = multiplicand

Weights == \A k \in 0 .. W - 1 :
               curr_state \in {2 * k + 2, 2 * k + 3} =>
                   Pow2[k] * Pow2[W - k] = T

IInv == TypeOK /\ Operands /\ Weights /\ PartialProduct /\ ProductIsRight

-----------------------------------------------------------------------------
(* Arithmetic.                                                             *)

\* Half a word and its double.
LEMMA Halves == /\ T \in Nat /\ Half \in Nat \ {0}
                /\ T = 2 * Half
<1>1. W \in 1 .. W /\ W - 1 \in 0 .. W /\ W \in 0 .. W
  BY WidthAssumption
<1>2. Pow2[W] = 2 * Pow2[W - 1] /\ Pow2[W] \in Nat \ {0}
      /\ Pow2[W - 1] \in Nat \ {0}
  BY <1>1, WidthAssumption
<1>3. QED BY <1>2 DEF T, Half

\* The powers of two around bit k.
LEMMA Powers ==
    ASSUME NEW k \in 0 .. W - 1
    PROVE  /\ Pow2[k] \in Nat \ {0} /\ Pow2[W - k] \in Nat \ {0}
           /\ Pow2[W - k] = 2 * Pow2[W - (k + 1)]
           /\ Pow2[k + 1] = 2 * Pow2[k]
           /\ Pow2[W - (k + 1)] \in Nat \ {0}
<1>1. /\ W - k \in 1 .. W /\ (W - k) - 1 = W - (k + 1)
      /\ k + 1 \in 1 .. W /\ (k + 1) - 1 = k
      /\ W - (k + 1) \in 0 .. W
  BY WidthAssumption
<1>2. Pow2[W - k] = 2 * Pow2[W - (k + 1)]
  BY <1>1, WidthAssumption
<1>3. Pow2[k + 1] = 2 * Pow2[k]
  BY <1>1, WidthAssumption
<1>4. QED BY <1>1, <1>2, <1>3, WidthAssumption

\* A word is the sum of its signed value and the weight of its sign.
LEMMA SignedBounds ==
    ASSUME NEW v \in Words
    PROVE  /\ v \in Nat /\ v < T
           /\ Msb(v) \in {0, 1} /\ Signed(v) \in Int
           /\ Signed(v) = v - Msb(v) * T
           /\ -Half <= Signed(v) /\ Signed(v) < Half
<1>1. v \in Nat /\ v < T
  BY Halves DEF Words
<1>2. CASE v < Half
  <2>1. Msb(v) = 0
    BY <1>2 DEF Msb
  <2>2. Signed(v) = v
    BY <2>1, <1>1, Halves DEF Signed
  <2>3. QED BY <1>1, <1>2, <2>1, <2>2, Halves
<1>3. CASE ~(v < Half)
  <2>1. Msb(v) = 1
    BY <1>3 DEF Msb
  <2>2. Signed(v) = v - T
    BY <2>1, <1>1, Halves DEF Signed
  <2>3. QED BY <1>1, <1>3, <2>1, <2>2, Halves
<1>4. QED BY <1>2, <1>3

\* The nine-bit adder: the sum of two signed words and a carry-in is SA with
\* the sign SX.
LEMMA NineBits ==
    ASSUME NEW a \in Words, NEW d \in Words, NEW c \in {0, 1},
           NEW s, s = a + d + c,
           NEW co, co = IF s < T THEN 0 ELSE 1,
           NEW sx, sx = (Msb(a) + Msb(d) + co) % 2
    PROVE  /\ s - co * T \in Words
           /\ sx \in {0, 1}
           /\ (s - co * T) - sx * T = Signed(a) + Signed(d) + c
<1>1. /\ a \in Nat /\ a < T /\ Msb(a) \in {0, 1} /\ Signed(a) = a - Msb(a) * T
      /\ d \in Nat /\ d < T /\ Msb(d) \in {0, 1} /\ Signed(d) = d - Msb(d) * T
      /\ -Half <= Signed(a) /\ Signed(a) < Half
      /\ -Half <= Signed(d) /\ Signed(d) < Half
  BY SignedBounds
<1>2. CASE Msb(a) = 0 /\ Msb(d) = 0
  <2>1. Signed(a) = a /\ Signed(d) = d
    BY <1>1, <1>2, Halves
  <2>2. co = 0
    <3>1. a < Half /\ d < Half
      BY <1>1, <2>1
    <3>2. s < T
      BY <1>1, <3>1, Halves
    <3>3. QED BY <3>2
  <2>3. sx = 0
    BY <1>2, <2>2
  <2>4. QED BY <1>1, <2>1, <2>2, <2>3, Halves DEF Words
<1>3. CASE Msb(a) + Msb(d) = 1
  <2>1. Signed(a) + Signed(d) = a + d - T
    <3>1. CASE Msb(a) = 0
      BY <1>1, <1>3, <3>1, Halves
    <3>2. CASE Msb(a) = 1
      BY <1>1, <1>3, <3>2, Halves
    <3>3. QED BY <1>1, <3>1, <3>2
  <2>2. CASE s < T
    <3>1. co = 0
      BY <2>2
    <3>2. sx = 1
      BY <3>1, <1>1, <1>3
    <3>3. QED BY <3>1, <3>2, <2>1, <2>2, <1>1, Halves DEF Words
  <2>3. CASE ~(s < T)
    <3>1. co = 1
      BY <2>3
    <3>2. sx = 0
      BY <3>1, <1>1, <1>3
    <3>3. QED BY <3>1, <3>2, <2>1, <2>3, <1>1, Halves DEF Words
  <2>4. QED BY <2>2, <2>3
<1>4. CASE Msb(a) = 1 /\ Msb(d) = 1
  <2>1. Signed(a) = a - T /\ Signed(d) = d - T
    BY <1>1, <1>4, Halves
  <2>2. co = 1
    BY <1>1, <2>1, Halves
  <2>3. sx = 1
    BY <1>4, <2>2
  <2>4. QED BY <1>1, <2>1, <2>2, <2>3, Halves DEF Words
<1>5. QED BY <1>1, <1>2, <1>3, <1>4

\* Adding bit times the multiplicand m to the upper word, with the weights p
\* of the bit and q of the unused bits; sign is -1 for the last bit.
LEMMA AddBit ==
    ASSUME NEW sa \in Int, NEW t \in Int, NEW b \in Int, NEW r \in Int,
           NEW m \in Int, NEW n \in Int, NEW p \in Int, NEW q \in Int,
           NEW bit \in {0, 1}, NEW sign \in {1, -1},
           p * q = t,
           sa * t + b - r = m * q * (n - p * r)
    PROVE  (sa + sign * bit * m) * t + b - r
               = m * q * (n - p * r + sign * p * bit)
<1>1. m * t = m * q * p
  OBVIOUS
<1>2. CASE bit = 0
  BY <1>2
<1>3. CASE bit = 1 /\ sign = 1
  <2>1. (sa + m) * t = sa * t + m * t
    OBVIOUS
  <2>2. m * q * (n - p * r + p) = m * q * (n - p * r) + m * q * p
    OBVIOUS
  <2>3. QED BY <1>1, <1>3, <2>1, <2>2
<1>4. CASE bit = 1 /\ sign = -1
  <2>1. (sa - m) * t = sa * t - m * t
    OBVIOUS
  <2>2. m * q * (n - p * r - p) = m * q * (n - p * r) - m * q * p
    OBVIOUS
  <2>3. QED BY <1>1, <1>4, <2>1, <2>2
<1>5. QED BY <1>2, <1>3, <1>4

\* Shifting {X,A,B} halves it, and so does taking the lowest unused bit away;
\* q is twice the weight h of the unused bits that are left.
LEMMA ShiftBits ==
    ASSUME NEW v \in Int, NEW vh \in Int, NEW r \in Int, NEW rh \in Int,
           NEW m \in Int, NEW u \in Int, NEW h \in Int,
           NEW bit \in {0, 1},
           v = 2 * vh + bit, r = 2 * rh + bit,
           v - r = m * (2 * h) * u
    PROVE  vh - rh = m * h * u
<1>1. m * (2 * h) * u = 2 * (m * h * u)
  OBVIOUS
<1>2. DEFINE z == m * h * u
<1>3. z \in Int
  OBVIOUS
<1>4. 2 * (vh - rh) = 2 * z
  BY <1>1
<1>5. HIDE DEF z
<1>6. vh - rh = z
  BY <1>3, <1>4
<1>7. QED BY <1>6 DEF z

\* B and the unused bits agree in the lowest bit.
LEMMA SameBit ==
    ASSUME NEW b \in Int, NEW r \in Int, NEW s \in Int, NEW t \in Int,
           NEW m \in Int, NEW u \in Int, NEW h \in Int,
           t % 2 = 0,
           s * t + b - r = m * (2 * h) * u
    PROVE  b % 2 = r % 2
<1>1. PICK t2 \in Int : t = 2 * t2
  OBVIOUS
<1>2. DEFINE z == m * h * u - s * t2
<1>3. z \in Int
  OBVIOUS
<1>4. m * (2 * h) * u = 2 * (m * h * u) /\ s * t = 2 * (s * t2)
  BY <1>1
<1>5. b - r = 2 * z
  BY <1>4
<1>6. HIDE DEF z
<1>7. QED BY <1>3, <1>5

LEMMA Halving ==
    ASSUME NEW v \in Nat
    PROVE  v \div 2 \in Nat /\ v % 2 \in {0, 1} /\ v = 2 * (v \div 2) + (v % 2)
OBVIOUS

\* A register keeps its width when it is shifted, and the two registers are
\* shifted as one.
LEMMA ShiftWords ==
    ASSUME NEW x \in {0, 1}, NEW a \in Words, NEW b \in Words
    PROVE  LET a2 == ShiftRight(a, x)
               b2 == ShiftRight(b, a % 2)
           IN  /\ a2 \in Words /\ b2 \in Words
               /\ Signed(a2) = a \div 2 - x * Half
               /\ (a - x * T) * T + b = 2 * (Signed(a2) * T + b2) + (b % 2)
<1>1. /\ a \in Nat /\ a < T /\ b \in Nat /\ b < T /\ T = 2 * Half
      /\ Half \in Nat \ {0}
  BY SignedBounds, Halves
<1>2. /\ a \div 2 \in Nat /\ a = 2 * (a \div 2) + (a % 2) /\ a % 2 \in {0, 1}
      /\ b \div 2 \in Nat /\ b = 2 * (b \div 2) + (b % 2) /\ b % 2 \in {0, 1}
  BY <1>1, Halving
<1>3. a \div 2 < Half /\ b \div 2 < Half
  BY <1>1, <1>2
<1>4. DEFINE a2 == ShiftRight(a, x)
             b2 == ShiftRight(b, a % 2)
<1>5. a2 = x * Half + a \div 2 /\ b2 = (a % 2) * Half + b \div 2
  BY DEF ShiftRight
<1> HIDE DEF a2, b2
<1>6. a2 \in Words /\ b2 \in Words
  <2>1. a2 \in Words
    <3>1. CASE x = 0
      BY <1>1, <1>2, <1>3, <1>5, <3>1 DEF Words
    <3>2. CASE x = 1
      BY <1>1, <1>2, <1>3, <1>5, <3>2 DEF Words
    <3>3. QED BY <3>1, <3>2
  <2>2. b2 \in Words
    <3>1. CASE a % 2 = 0
      BY <1>1, <1>2, <1>3, <1>5, <3>1 DEF Words
    <3>2. CASE a % 2 = 1
      BY <1>1, <1>2, <1>3, <1>5, <3>2 DEF Words
    <3>3. QED BY <1>2, <3>1, <3>2
  <2>3. QED BY <2>1, <2>2
<1>7. Signed(a2) = a \div 2 - x * Half
  <2>1. CASE x = 0
    <3>1. a2 = a \div 2 /\ a2 < Half
      BY <1>1, <1>2, <1>3, <1>5, <2>1
    <3>2. Msb(a2) = 0
      BY <3>1 DEF Msb
    <3>3. QED BY <1>1, <1>2, <2>1, <3>1, <3>2 DEF Signed
  <2>2. CASE x = 1
    <3>1. a2 = Half + a \div 2 /\ ~(a2 < Half)
      BY <1>1, <1>2, <1>3, <1>5, <2>2
    <3>2. Msb(a2) = 1
      BY <3>1 DEF Msb
    <3>3. QED BY <1>1, <1>2, <2>2, <3>1, <3>2 DEF Signed
  <2>3. QED BY <2>1, <2>2
<1>8. (a - x * T) * T + b = 2 * (Signed(a2) * T + b2) + (b % 2)
  <2> DEFINE ah == a \div 2
             a0 == a % 2
             bh == b \div 2
             b0 == b % 2
  <2>1. /\ ah \in Int /\ a0 \in Int /\ bh \in Int /\ b0 \in Int
        /\ a = 2 * ah + a0 /\ b = 2 * bh + b0
    BY <1>2
  <2>2. Signed(a2) = ah - x * Half /\ b2 = a0 * Half + bh
    BY <1>5, <1>7
  <2> HIDE DEF ah, a0, bh, b0
  <2>3. Signed(a2) * T = ah * T - x * Half * T
    BY <1>1, <2>1, <2>2
  <2>4. (a - x * T) * T = 2 * (ah * T) + a0 * T - x * T * T
    BY <1>1, <2>1
  <2>5. x * T * T = 2 * (x * Half * T) /\ a0 * T = 2 * (a0 * Half)
    BY <1>1, <2>1
  <2>6. (a - x * T) * T + b = 2 * (Signed(a2) * T + b2) + b0
    <3>1. /\ ah * T \in Int /\ x * Half * T \in Int /\ x * T * T \in Int
          /\ a0 * T \in Int /\ a0 * Half \in Int
      BY <1>1, <2>1
    <3>2. QED BY <3>1, <2>1, <2>2, <2>3, <2>4, <2>5
  <2>7. QED BY <2>6 DEF b0
<1>9. QED BY <1>6, <1>7, <1>8 DEF a2, b2
-----------------------------------------------------------------------------
(* The adder in the circuit.                                               *)

\* The adder adds the multiplicand on the switches times the lowest bit of B,
\* or subtracts it.
LEMMA Adder ==
    ASSUME TypeOK
    PROVE  /\ M \in {0, 1}
           /\ SA \in Words /\ SX \in {0, 1}
           /\ SA - SX * T = Signed(A) + (IF SUBTRACT THEN -1 ELSE 1) * M * Signed(SW)
<1>1. A \in Words /\ B \in Words /\ SW \in Words
  BY DEF TypeOK
<1>2. M \in {0, 1}
  BY <1>1, SignedBounds DEF M
<1>3. /\ SW \in Nat /\ SW < T /\ Signed(SW) \in Int /\ T = 2 * Half
      /\ T \in Nat /\ Half \in Nat \ {0} /\ Signed(A) \in Int
  BY <1>1, SignedBounds, Halves
<1>4. /\ addend \in Words /\ cinreal \in {0, 1}
      /\ Signed(addend) + cinreal = (IF SUBTRACT THEN -1 ELSE 1) * M * Signed(SW)
  <2>1. CASE M = 0
    <3>1. addend = 0 /\ cinreal = 0
      BY <2>1 DEF addend, cinreal
    <3>2. Signed(0) = 0
      BY <1>3 DEF Signed, Msb
    <3>3. QED BY <1>3, <2>1, <3>1, <3>2 DEF Words
  <2>2. CASE M = 1 /\ ~SUBTRACT
    <3>1. addend = SW /\ cinreal = 0
      BY <2>2 DEF addend, cinreal
    <3>2. QED BY <1>1, <1>3, <2>2, <3>1
  <2>3. CASE M = 1 /\ SUBTRACT
    <3>1. addend = T - 1 - SW /\ cinreal = 1
      BY <2>3 DEF addend, cinreal
    <3>2. Signed(T - 1 - SW) = -1 - Signed(SW)
      <4>1. CASE SW < Half
        <5>1. ~(T - 1 - SW < Half)
          BY <1>3, <4>1
        <5>2. Msb(SW) = 0 /\ Msb(T - 1 - SW) = 1
          BY <4>1, <5>1 DEF Msb
        <5>3. QED BY <1>3, <5>2 DEF Signed
      <4>2. CASE ~(SW < Half)
        <5>1. T - 1 - SW < Half
          BY <1>3, <4>2
        <5>2. Msb(SW) = 1 /\ Msb(T - 1 - SW) = 0
          BY <4>2, <5>1 DEF Msb
        <5>3. QED BY <1>3, <5>2 DEF Signed
      <4>3. QED BY <4>1, <4>2
    <3>3. QED BY <1>3, <2>3, <3>1, <3>2 DEF Words
  <2>4. QED BY <1>2, <2>1, <2>2, <2>3
<1>5. /\ sum = A + addend + cinreal
      /\ carry = IF sum < T THEN 0 ELSE 1
      /\ SX = (Msb(A) + Msb(addend) + carry) % 2
      /\ SA = sum - carry * T
  BY DEF sum, carry, SX, SA
<1>6. /\ SA \in Words /\ SX \in {0, 1}
      /\ SA - SX * T = Signed(A) + Signed(addend) + cinreal
  <2> HIDE DEF SA, SX, sum, carry, addend, cinreal
  <2>1. QED BY <1>1, <1>4, <1>5, NineBits
<1>7. Signed(addend) \in Int
  BY <1>4, SignedBounds
<1>8. QED BY <1>2, <1>3, <1>4, <1>6, <1>7

\* What one clock does to the registers.
LEMMA ClockRegisters ==
    ASSUME TypeOK, Clock
    PROVE  /\ Clr_A_X => X' = 0 /\ A' = 0 /\ B' \in Words
           /\ curr_state = Clear => B' = B
           /\ ~Clr_A_X /\ Ld_A_X => X' = SX /\ A' = SA /\ B' = B
           /\ ~Clr_A_X /\ ~Ld_A_X /\ Shift_En =>
                 X' = 0 /\ A' = ShiftRight(A, X) /\ B' = ShiftRight(B, A % 2)
           /\ ~Clr_A_X /\ ~Ld_A_X /\ ~Shift_En => UNCHANGED <<X, A, B>>
<1>1. Registers
  BY DEF Clock
<1>2. SW \in Words /\ B \in Words
  BY DEF TypeOK
<1>3. /\ curr_state = Clear => Clr_A_X /\ ~Ld_B
      /\ ~(Ld_A_X /\ Shift_En)
  BY DEF Clr_A_X, Ld_B, Clear, Idle, Ld_A_X, Shift_En
<1>4. CASE Clr_A_X
  <2>1. X' = 0 /\ A' = 0 /\ B' = (IF Ld_B THEN SW ELSE B)
    BY <1>1, <1>4 DEF Registers
  <2>2. QED BY <1>2, <1>3, <1>4, <2>1
<1>5. CASE ~Clr_A_X /\ Ld_A_X
  BY <1>1, <1>3, <1>5 DEF Registers
<1>6. CASE ~Clr_A_X /\ ~Ld_A_X /\ Shift_En
  BY <1>1, <1>3, <1>6 DEF Registers
<1>7. CASE ~Clr_A_X /\ ~Ld_A_X /\ ~Shift_En
  BY <1>1, <1>3, <1>7 DEF Registers, registers
<1>8. QED BY <1>4, <1>5, <1>6, <1>7

-----------------------------------------------------------------------------
(* Types.                                                                  *)

LEMMA ClockTypes == ASSUME TypeOK, Clock PROVE TypeOK'
<1>1. /\ A \in Words /\ B \in Words /\ SW \in Words /\ X \in {0, 1}
      /\ multiplicand \in Words /\ multiplier \in Words /\ rest \in Words
      /\ curr_state \in Idle .. Wait
      /\ {RLC, Run, Reset, still, armed} \subseteq BOOLEAN
  BY DEF TypeOK
<1>2. X' \in {0, 1} /\ A' \in Words /\ B' \in Words
  <2>1. 0 \in Words
    BY Halves DEF Words
  <2>2. CASE Clr_A_X
    BY <2>1, <2>2, ClockRegisters
  <2>3. CASE ~Clr_A_X /\ Ld_A_X
    BY <1>1, <2>3, ClockRegisters, Adder
  <2>4. CASE ~Clr_A_X /\ ~Ld_A_X /\ Shift_En
    BY <1>1, <2>4, ClockRegisters, ShiftWords
  <2>5. CASE ~Clr_A_X /\ ~Ld_A_X /\ ~Shift_En
    BY <1>1, <2>5, ClockRegisters
  <2>6. QED BY <2>2, <2>3, <2>4, <2>5
<1>3. curr_state' \in Idle .. Wait
  <2>1. curr_state' = IF Reset THEN Idle ELSE next_state
    BY DEF Clock
  <2>2. QED BY <1>1, <2>1, WidthAssumption DEF next_state, Idle, Clear, Wait
<1>4. Remember /\ UNCHANGED <<RLC, Run, Reset, SW>>
  BY DEF Clock
<1>5. rest \div 2 \in Words
  BY <1>1, Halves DEF Words
<1>6. multiplicand' \in Words /\ multiplier' \in Words /\ rest' \in Words
  BY <1>1, <1>4, <1>5 DEF Remember
<1>7. still' \in BOOLEAN /\ armed' \in BOOLEAN
  BY <1>1, <1>4 DEF Remember
<1>8. {RLC, Run, Reset, still, armed}' \subseteq BOOLEAN
  BY <1>1, <1>4, <1>7
<1>9. {A, B, SW, multiplicand, multiplier, rest}' \subseteq Words
  BY <1>1, <1>2, <1>4, <1>6
<1>10. QED BY <1>2, <1>3, <1>8, <1>9 DEF TypeOK

LEMMA InputTypes == ASSUME TypeOK, Buttons \/ Switches PROVE TypeOK'
<1>1. /\ UNCHANGED <<curr_state, X, A, B>>
      /\ SW' \in Words
      /\ multiplicand' \in Words /\ multiplier' \in Words /\ rest' \in Words
      /\ still' \in BOOLEAN /\ armed' \in BOOLEAN
  <2>1. 0 \in Words
    BY Halves DEF Words
  <2>2. CASE Buttons
    BY <2>2 DEF Buttons, registers, history, TypeOK
  <2>3. CASE Switches
    BY <2>1, <2>3 DEF Switches, Forget, registers, TypeOK
  <2>4. QED BY <2>2, <2>3
<1>2. RLC' \in BOOLEAN /\ Run' \in BOOLEAN /\ Reset' \in BOOLEAN
  BY DEF TypeOK, Buttons, Switches
<1>3. {RLC, Run, Reset, still, armed}' \subseteq BOOLEAN
  BY <1>1, <1>2
<1>4. {A, B, SW, multiplicand, multiplier, rest}' \subseteq Words
  BY <1>1 DEF TypeOK
<1>5. QED BY <1>1, <1>3, <1>4 DEF TypeOK
-----------------------------------------------------------------------------
(* The product.                                                            *)

\* Control states and the bits they work on.
LEMMA States ==
    ASSUME NEW k \in 0 .. W - 1
    PROVE  /\ curr_state = 2 * k + 2 =>
                 /\ Ld_A_X /\ ~Shift_En /\ ~Clr_A_X
                 /\ SUBTRACT <=> k = W - 1
                 /\ next_state = 2 * k + 3
           /\ curr_state = 2 * k + 3 =>
                 /\ Shift_En /\ ~Ld_A_X /\ ~Clr_A_X
                 /\ next_state = 2 * (k + 1) + 2
<1>1. W \in Nat /\ W >= 2
  BY WidthAssumption
<1>2. ASSUME curr_state = 2 * k + 2
      PROVE  /\ Ld_A_X /\ ~Shift_En /\ ~Clr_A_X
             /\ SUBTRACT <=> k = W - 1
             /\ next_state = 2 * k + 3
  <2>1. curr_state \in Running /\ curr_state % 2 = 0
    BY <1>1, <1>2 DEF Running
  <2>2. curr_state # Idle /\ curr_state # Clear /\ curr_state # Wait
    BY <1>1, <1>2 DEF Idle, Clear, Wait
  <2>3. next_state = curr_state + 1
    BY <2>2 DEF next_state
  <2>4. SUBTRACT <=> k = W - 1
    BY <1>1, <1>2 DEF SUBTRACT
  <2>5. QED BY <1>2, <2>1, <2>2, <2>3, <2>4 DEF Ld_A_X, Shift_En, Clr_A_X
<1>3. ASSUME curr_state = 2 * k + 3
      PROVE  /\ Shift_En /\ ~Ld_A_X /\ ~Clr_A_X
             /\ next_state = 2 * (k + 1) + 2
  <2>1. curr_state \in Running /\ curr_state % 2 = 1
    BY <1>1, <1>3 DEF Running
  <2>2. curr_state # Idle /\ curr_state # Clear /\ curr_state # Wait
    BY <1>1, <1>3 DEF Idle, Clear, Wait
  <2>3. next_state = curr_state + 1
    BY <2>2 DEF next_state
  <2>4. QED BY <1>3, <2>1, <2>2, <2>3 DEF Ld_A_X, Shift_En, Clr_A_X
<1>4. QED BY <1>2, <1>3

\* The state of the circuit is one of these.
LEMMA StateCases ==
    ASSUME TypeOK
    PROVE  \/ curr_state \in {Idle, Clear, Wait}
           \/ \E k \in 0 .. W - 1 : curr_state = 2 * k + 2
           \/ \E k \in 0 .. W - 1 : curr_state = 2 * k + 3
<1>1. W \in Nat /\ W >= 2 /\ curr_state \in 0 .. 2 * W + 2
  BY WidthAssumption DEF TypeOK, Idle, Wait
<1>2. PICK h \in Int : curr_state = 2 * h \/ curr_state = 2 * h + 1
  <2>1. curr_state \in Nat
    BY <1>1
  <2>2. /\ curr_state \div 2 \in Int /\ curr_state % 2 \in {0, 1}
        /\ curr_state = 2 * (curr_state \div 2) + (curr_state % 2)
    BY <2>1, Halving
  <2>3. QED BY <2>2
<1>3. CASE curr_state = 2 * h
  <2>1. CASE curr_state \in {0, 2 * W + 2}
    BY <2>1 DEF Idle, Wait
  <2>2. CASE curr_state \notin {0, 2 * W + 2}
    <3>1. h - 1 \in 0 .. W - 1 /\ curr_state = 2 * (h - 1) + 2
      BY <1>1, <1>3, <2>2
    <3>2. QED BY <3>1
  <2>3. QED BY <2>1, <2>2
<1>4. CASE curr_state = 2 * h + 1
  <2>1. CASE curr_state = 1
    BY <2>1 DEF Clear
  <2>2. CASE curr_state # 1
    <3>1. h - 1 \in 0 .. W - 1 /\ curr_state = 2 * (h - 1) + 3
      BY <1>1, <1>4, <2>2
    <3>2. QED BY <3>1
  <2>3. QED BY <2>1, <2>2
<1>5. QED BY <1>2, <1>3, <1>4

Product_ == Operands /\ Weights /\ PartialProduct /\ ProductIsRight

\* Outside a multiplication the invariant says nothing.
LEMMA Resting == ASSUME curr_state' \in {Idle, Clear} PROVE Product_'
<1>1. W \in Nat /\ W >= 2 /\ curr_state' \in {0, 1}
  BY WidthAssumption DEF Idle, Clear
<1>2. curr_state' \notin Running /\ curr_state' # Wait
  BY <1>1 DEF Running, Wait
<1>3. \A k \in 0 .. W - 1 : curr_state' # 2 * k + 2 /\ curr_state' # 2 * k + 3
  BY <1>1
<1>4. Operands' /\ ProductIsRight'
  BY <1>2 DEF Operands, ProductIsRight, Running, Wait
<1>5. Weights'
  BY <1>3 DEF Weights
<1>6. PartialProduct'
  BY <1>3 DEF PartialProduct
<1>7. QED BY <1>4, <1>5, <1>6 DEF Product_

\* The history of a multiplication does not change in its course.
LEMMA HistoryKept ==
    ASSUME Clock, curr_state # Clear
    PROVE  /\ UNCHANGED <<multiplicand, multiplier, still>>
           /\ Shift_En => rest' = rest \div 2
           /\ ~Shift_En => rest' = rest
           /\ UNCHANGED SW
<1>1. Remember /\ UNCHANGED SW
  BY DEF Clock
<1>2. QED BY <1>1 DEF Remember

\* Clearing A and X starts a multiplication with no bit used.
LEMMA StartStep ==
    ASSUME TypeOK, Clock, curr_state = Clear, ~Reset
    PROVE  Product_'
<1>1. /\ A' = 0 /\ B' = B /\ B \in Words /\ SW \in Words /\ UNCHANGED SW
      /\ multiplicand' = SW /\ multiplier' = B /\ rest' = B
      /\ curr_state' = 2
  <2>1. Clr_A_X
    BY DEF Clr_A_X
  <2>2. A' = 0 /\ B' = B
    BY <2>1, ClockRegisters
  <2>3. next_state = 2
    BY WidthAssumption DEF next_state, Clear, Idle, Wait
  <2>4. QED BY <2>2, <2>3 DEF Clock, Remember, TypeOK
<1>2. W \in Nat /\ W >= 2 /\ 0 \in 0 .. W - 1
  BY WidthAssumption
<1>3. Operands' /\ ProductIsRight'
  BY <1>1, <1>2 DEF Operands, ProductIsRight, Wait
<1>4. ASSUME NEW k \in 0 .. W - 1, curr_state' \in {2 * k + 2, 2 * k + 3}
      PROVE  k = 0
  BY <1>1, <1>4
<1>5. Pow2[0] = 1 /\ Pow2[W - 0] = T /\ T \in Nat
  BY <1>2, WidthAssumption, Halves DEF T
<1>6. Weights'
  <2>1. SUFFICES ASSUME NEW k \in 0 .. W - 1,
                        curr_state' \in {2 * k + 2, 2 * k + 3}
                 PROVE  Pow2[k] * Pow2[W - k] = T
    BY DEF Weights, T
  <2>2. k = 0
    BY <1>4, <2>1
  <2>3. QED BY <1>5, <2>2
<1>7. PartialProduct'
  <2>1. B \in Nat /\ Signed(SW) \in Int /\ Signed(0) = 0
    BY <1>1, SignedBounds, Halves DEF Signed, Msb
  <2>2. /\ Pow2[0] * B <= B /\ B < Pow2[0] * B + Pow2[0]
        /\ Signed(0) * T + B - B = Signed(SW) * Pow2[W - 0] * (B - Pow2[0] * B)
    <3>1. Pow2[0] * B = B
      BY <1>5, <2>1
    <3>2. Signed(SW) * Pow2[W - 0] * (B - B) = 0 /\ 0 * T = 0
      BY <1>5, <2>1
    <3>3. QED BY <1>5, <2>1, <3>1, <3>2
  <2>3. curr_state' # 2 * 0 + 3
    BY <1>1
  <2>4. Product(B - Pow2[0] * B, 0)'
            = Signed(SW) * Pow2[W - 0] * (B - Pow2[0] * B)
    BY <1>1 DEF Product, Signed, Msb, T, Half
  <2>5. (Signed(A) * T + B - rest)' = Signed(0) * T + B - B
    BY <1>1 DEF Signed, Msb, T, Half
  <2>6. QED BY <1>1, <1>4, <2>2, <2>3, <2>4, <2>5 DEF PartialProduct
<1>8. QED BY <1>3, <1>6, <1>7 DEF Product_

\* The facts about bit k that an addition or a shift starts from.
LEMMA BitFacts ==
    ASSUME IInv, NEW k \in 0 .. W - 1, curr_state \in {2 * k + 2, 2 * k + 3}
    PROVE  /\ Pow2[k] * Pow2[W - k] = T
           /\ still => /\ SW = multiplicand
                       /\ Pow2[k] * rest <= multiplier
                       /\ multiplier < Pow2[k] * rest + Pow2[k]
<1>1. curr_state \in Running
  <2>1. W \in Nat /\ W >= 2 /\ k \in Int /\ 0 <= k /\ k <= W - 1
    BY WidthAssumption
  <2>2. CASE curr_state = 2 * k + 2
    BY <2>1, <2>2 DEF Running
  <2>3. CASE curr_state = 2 * k + 3
    BY <2>1, <2>3 DEF Running
  <2>4. QED BY <2>2, <2>3
<1>2. still => /\ Pow2[k] * rest <= multiplier
               /\ multiplier < Pow2[k] * rest + Pow2[k]
  BY DEF IInv, PartialProduct
<1>3. QED BY <1>1, <1>2 DEF IInv, Weights, Operands

LEMMA AddStep ==
    ASSUME IInv, Clock, ~Reset, NEW k \in 0 .. W - 1, curr_state = 2 * k + 2
    PROVE  Product_'
<1>1. W \in Nat /\ W >= 2
  BY WidthAssumption
<1>2. /\ curr_state' = 2 * k + 3
      /\ A' = SA /\ X' = SX /\ B' = B /\ rest' = rest
      /\ UNCHANGED <<SW, multiplicand, multiplier, still>>
      /\ SUBTRACT <=> k = W - 1
  <2>1. Ld_A_X /\ ~Shift_En /\ ~Clr_A_X /\ next_state = 2 * k + 3
        /\ (SUBTRACT <=> k = W - 1)
    BY States
  <2>2. A' = SA /\ X' = SX /\ B' = B
    BY <2>1, ClockRegisters DEF IInv
  <2>3. curr_state # Clear
    BY DEF Clear
  <2>4. curr_state' = next_state
    BY DEF Clock
  <2>5. QED BY <2>1, <2>2, <2>3, <2>4, HistoryKept
<1>3. \A j \in 0 .. W - 1 :
          /\ curr_state' # 2 * j + 2
          /\ curr_state' = 2 * j + 3 => j = k
  BY <1>2
<1>4. curr_state' # Wait
  BY <1>1, <1>2 DEF Wait
<1>5. Pow2[k] * Pow2[W - k] = T
  BY BitFacts
<1>6. Weights'
  <2>1. SUFFICES ASSUME NEW j \in 0 .. W - 1,
                        curr_state' \in {2 * j + 2, 2 * j + 3}
                 PROVE  Pow2[j] * Pow2[W - j] = T
    BY DEF Weights, T
  <2>2. j = k
    BY <1>3, <2>1
  <2>3. QED BY <1>5, <2>2
<1>7. Operands'
  <2>1. still => SW = multiplicand
    BY BitFacts
  <2>2. QED BY <1>2, <2>1 DEF Operands
<1>8. ProductIsRight'
  BY <1>4 DEF ProductIsRight, Wait
<1>9. ASSUME still
      PROVE  Total' - rest' =
                 Product(multiplier - Pow2[k] * rest +
                         (IF k < W - 1 THEN Pow2[k] ELSE -Pow2[k]) * (rest % 2), k)'
  <2> DEFINE bit == rest % 2
             p == Pow2[k]
             q == Pow2[W - k]
             h == Pow2[W - (k + 1)]
             m == Signed(multiplicand)
             sa == Signed(A)
             sign == IF SUBTRACT THEN -1 ELSE 1
  <2>1. /\ p \in Nat /\ q \in Nat /\ h \in Nat /\ q = 2 * h
        /\ m \in Int /\ sa \in Int /\ T \in Nat /\ T = 2 * Half /\ Half \in Nat
        /\ B \in Nat /\ rest \in Nat /\ multiplier \in Nat
        /\ bit \in {0, 1}
    BY Powers, SignedBounds, Halves, Halving DEF IInv, TypeOK
  <2>2. sa * T + B - rest = m * q * (multiplier - p * rest)
    BY <1>9 DEF IInv, PartialProduct, Product
  <2>3. B % 2 = bit
    <3>1. T % 2 = 0
      BY <2>1
    <3>2. sa * T + B - rest = m * (2 * h) * (multiplier - p * rest)
      BY <2>1, <2>2
    <3>3. multiplier - p * rest \in Int
      BY <2>1
    <3> HIDE DEF p, q, h, m, sa
    <3>4. QED BY <2>1, <3>1, <3>2, <3>3, SameBit
  <2>4. SA - SX * T = sa + sign * bit * m
    <3>1. SW = multiplicand
      BY <1>9, BitFacts
    <3>2. QED BY <2>3, <3>1, Adder DEF IInv, M
  <2>5. sign \in {1, -1} /\ p * q = T
    BY <1>5
  <2>6. (sa + sign * bit * m) * T + B - rest
            = m * q * (multiplier - p * rest + sign * p * bit)
    <3> HIDE DEF p, q, m, sa, sign, bit
    <3>1. /\ sa \in Int /\ T \in Int /\ B \in Int /\ rest \in Int /\ m \in Int
          /\ multiplier \in Int /\ p \in Int /\ q \in Int
          /\ bit \in {0, 1} /\ sign \in {1, -1} /\ p * q = T
      BY <2>1, <2>5
    <3>2. QED BY ONLY <2>2, <3>1, AddBit
  <2>7. (IF k < W - 1 THEN p ELSE -p) * bit = sign * p * bit
    <3>1. CASE k = W - 1
      BY <1>1, <1>2, <2>1, <3>1
    <3>2. CASE k # W - 1
      BY <1>1, <1>2, <2>1, <3>2
    <3>3. QED BY <3>1, <3>2
  <2>8. Total' = (SA - SX * T) * T + B
    BY <1>2 DEF Total, T
  <2>9. Product(multiplier - p * rest + (IF k < W - 1 THEN p ELSE -p) * bit, k)'
          = m * q * (multiplier - p * rest + (IF k < W - 1 THEN p ELSE -p) * bit)
    BY <1>2 DEF Product, Signed, Msb, T, Half
  <2>10. Total' - rest' = (sa + sign * bit * m) * T + B - rest
    <3> DEFINE z == (sa + sign * bit * m) * T
    <3> HIDE DEF p, q, m, sa, sign, bit
    <3>1. Total' = z + B
      BY <2>4, <2>8, Zenon
    <3>2. z \in Int
      BY <2>1, <2>5
    <3> HIDE DEF z
    <3>3. Total' - rest' = z + B - rest
      BY <1>2, <2>1, <3>1, <3>2
    <3>4. QED BY <3>3 DEF z
  <2>11. QED BY <2>6, <2>7, <2>9, <2>10
<1>10. PartialProduct'
  <2>1. SUFFICES ASSUME still', NEW j \in 0 .. W - 1
                 PROVE
          LET bit == rest' % 2
              unused == Pow2[j] * rest'
          IN  /\ curr_state' \in {2 * j + 2, 2 * j + 3} =>
                     unused <= multiplier' /\ multiplier' < unused + Pow2[j]
              /\ curr_state' = 2 * j + 2 =>
                     (Signed(A) * T + B - rest)' = Product(multiplier - Pow2[j] * rest, j)'
              /\ curr_state' = 2 * j + 3 =>
                     Total' - rest' =
                       Product(multiplier - Pow2[j] * rest +
                         (IF j < W - 1 THEN Pow2[j] ELSE -Pow2[j]) * (rest % 2), j)'
    BY DEF PartialProduct
  <2>2. still
    BY <1>2, <2>1
  <2>3. CASE j = k
    <3>1. Pow2[k] * rest <= multiplier /\ multiplier < Pow2[k] * rest + Pow2[k]
      BY <2>2, BitFacts
    <3>2. QED BY <1>2, <1>3, <1>9, <2>2, <2>3, <3>1
  <2>4. CASE j # k
    BY <1>3, <2>4
  <2>5. QED BY <2>3, <2>4
<1>11. QED BY <1>6, <1>7, <1>8, <1>10 DEF Product_

\* A shift ends the work on bit k.
LEMMA Shifted ==
    ASSUME IInv, Clock, ~Reset, NEW k \in 0 .. W - 1, curr_state = 2 * k + 3
    PROVE  /\ curr_state' = 2 * (k + 1) + 2
           /\ rest' = rest \div 2
           /\ UNCHANGED <<SW, multiplicand, multiplier, still>>
           /\ still =>
                 (Signed(A) * T + B)' - rest \div 2
                   = Signed(multiplicand) * Pow2[W - (k + 1)] *
                     (multiplier - Pow2[k] * rest +
                       (IF k < W - 1 THEN Pow2[k] ELSE -Pow2[k]) * (rest % 2))
<1>1. /\ Shift_En /\ ~Ld_A_X /\ ~Clr_A_X
      /\ next_state = 2 * (k + 1) + 2
  BY States
<1>2. A' = ShiftRight(A, X) /\ B' = ShiftRight(B, A % 2)
  BY <1>1, ClockRegisters DEF IInv
<1>3. /\ rest' = rest \div 2
      /\ UNCHANGED <<SW, multiplicand, multiplier, still>>
  <2>1. curr_state # Clear
    BY DEF Clear
  <2>2. QED BY <1>1, <2>1, HistoryKept
<1>4. curr_state' = 2 * (k + 1) + 2
  BY <1>1 DEF Clock
<1>5. ASSUME still
      PROVE  (Signed(A) * T + B)' - rest \div 2
                   = Signed(multiplicand) * Pow2[W - (k + 1)] *
                     (multiplier - Pow2[k] * rest +
                       (IF k < W - 1 THEN Pow2[k] ELSE -Pow2[k]) * (rest % 2))
  <2> DEFINE bit == rest % 2
             h == Pow2[W - (k + 1)]
             m == Signed(multiplicand)
             u == multiplier - Pow2[k] * rest +
                       (IF k < W - 1 THEN Pow2[k] ELSE -Pow2[k]) * bit
             s == A - X * T
             a2 == Signed(ShiftRight(A, X))
             b2 == ShiftRight(B, A % 2)
  <2>1. /\ h \in Nat /\ Pow2[W - k] = 2 * h /\ m \in Int
        /\ T \in Nat /\ T = 2 * Half /\ Half \in Nat
        /\ A \in Nat /\ B \in Nat /\ rest \in Nat /\ X \in {0, 1} /\ bit \in {0, 1}
        /\ multiplier \in Nat /\ Pow2[k] \in Nat
    BY Powers, SignedBounds, Halves, Halving DEF IInv, TypeOK
  <2>2. u \in Int /\ s \in Int
    BY <2>1
  <2>3. s * T + B - rest = m * (2 * h) * u
    BY <1>5, <2>1 DEF IInv, PartialProduct, Product, Total
  <2>4. /\ ShiftRight(A, X) \in Words /\ b2 \in Words
        /\ s * T + B = 2 * (a2 * T + b2) + (B % 2)
    BY ShiftWords DEF IInv, TypeOK
  <2>5. a2 \in Int /\ b2 \in Int
    BY <2>4, SignedBounds
  <2>6. rest = 2 * (rest \div 2) + bit /\ rest \div 2 \in Int
    BY <2>1, Halving
  <2> HIDE DEF bit, h, m, u, s, a2, b2
  <2>7. B % 2 = rest % 2
    <3> DEFINE y == m * h * u
               z == s * Half
    <3>1. m * (2 * h) * u = 2 * y /\ s * T = 2 * z
      BY <2>1, <2>2
    <3>2. y \in Int /\ z \in Int
      BY <2>1, <2>2
    <3> HIDE DEF y, z
    <3>3. 2 * z + B - rest = 2 * y
      BY <2>3, <3>1
    <3>4. QED BY <2>1, <3>2, <3>3
  <2>8. (a2 * T + b2) - rest \div 2 = m * h * u
    <3> DEFINE v == s * T + B
               vh == a2 * T + b2
               rh == rest \div 2
    <3>1. /\ v \in Int /\ vh \in Int /\ rest \in Int /\ rh \in Int /\ m \in Int
          /\ u \in Int /\ h \in Int /\ bit \in {0, 1}
      BY <2>1, <2>2, <2>5, <2>6
    <3>2. v = 2 * vh + bit
      BY <2>4, <2>7 DEF bit
    <3>3. rest = 2 * rh + bit
      BY <2>6
    <3>4. v - rest = m * (2 * h) * u
      <4> DEFINE sT == s * T
      <4>1. sT \in Int
        BY <2>1, <2>2
      <4>2. sT + B - rest = m * (2 * h) * u
        BY <2>3
      <4> HIDE DEF sT
      <4>3. (sT + B) - rest = m * (2 * h) * u
        BY <2>1, <4>1, <4>2
      <4>4. QED BY <4>3 DEF sT, v
    <3> HIDE DEF v, vh, rh
    <3>5. vh - rh = m * h * u
      BY ONLY <3>1, <3>2, <3>3, <3>4, ShiftBits
    <3>6. (a2 * T + b2) - rest \div 2 = m * h * u
      BY <3>5 DEF vh, rh
    <3>7. QED BY <3>6
  <2>9. (Signed(A) * T + B)' = a2 * T + b2
    BY <1>2 DEF a2, b2, Signed, Msb, T, Half
  <2>10. QED BY <2>8, <2>9 DEF h, m, u, bit
<1>6. QED BY <1>3, <1>4, <1>5

LEMMA ShiftStep ==
    ASSUME IInv, Clock, ~Reset, NEW k \in 0 .. W - 1, curr_state = 2 * k + 3,
           k < W - 1
    PROVE  Product_'
<1>1. W \in Nat /\ W >= 2 /\ k + 1 \in 0 .. W - 1
  BY WidthAssumption
<1>2. /\ curr_state' = 2 * (k + 1) + 2
      /\ rest' = rest \div 2
      /\ UNCHANGED <<SW, multiplicand, multiplier, still>>
  BY Shifted
<1>3. \A j \in 0 .. W - 1 :
          /\ curr_state' # 2 * j + 3
          /\ curr_state' = 2 * j + 2 => j = k + 1
  BY <1>2
<1>4. curr_state' # Wait
  BY <1>1, <1>2 DEF Wait
<1>5. /\ Pow2[k] * Pow2[W - k] = T
      /\ Pow2[k + 1] = 2 * Pow2[k] /\ Pow2[W - k] = 2 * Pow2[W - (k + 1)]
      /\ Pow2[k] \in Nat /\ Pow2[W - (k + 1)] \in Nat
  BY BitFacts, Powers
<1>6. Weights'
  <2>1. SUFFICES ASSUME NEW j \in 0 .. W - 1,
                        curr_state' \in {2 * j + 2, 2 * j + 3}
                 PROVE  Pow2[j] * Pow2[W - j] = T
    BY DEF Weights, T
  <2>2. j = k + 1
    BY <1>3, <2>1
  <2>3. Pow2[k + 1] * Pow2[W - (k + 1)] = T
    BY <1>5
  <2>4. QED BY <2>2, <2>3
<1>7. Operands'
  <2>1. still => SW = multiplicand
    BY BitFacts
  <2>2. QED BY <1>2, <2>1 DEF Operands
<1>8. ProductIsRight'
  BY <1>4 DEF ProductIsRight, Wait
<1>9. rest \in Nat /\ multiplier \in Nat /\ rest' \in Nat
      /\ rest % 2 \in {0, 1} /\ rest = 2 * rest' + (rest % 2)
  BY <1>2, SignedBounds, Halving DEF IInv, TypeOK
<1>10. multiplier - Pow2[k] * rest + Pow2[k] * (rest % 2)
          = multiplier - Pow2[k + 1] * rest'
  <2> DEFINE p == Pow2[k]
             bit == rest % 2
             rh == rest'
  <2>1. p \in Int /\ bit \in Int /\ rh \in Int /\ rest = 2 * rh + bit
        /\ multiplier \in Int
    <3>1. p \in Int
      BY <1>5
    <3>2. rh \in Int /\ multiplier \in Int
      BY <1>9
    <3>3. bit \in Int
      BY <1>9
    <3>4. rest = 2 * rh + bit
      BY <1>9
    <3>5. QED BY <3>1, <3>2, <3>3, <3>4
  <2> HIDE DEF p, bit, rh
  <2>2. p * rest = 2 * p * rh + p * bit
    BY <2>1
  <2>3. multiplier - p * rest + p * bit = multiplier - 2 * p * rh
    BY <2>1, <2>2
  <2>4. QED BY <1>5, <2>3 DEF p, bit, rh
<1>11. ASSUME still
       PROVE  (Signed(A) * T + B - rest)' =
                  Product(multiplier - Pow2[k + 1] * rest, k + 1)'
  <2>1. (Signed(A) * T + B)' - rest \div 2
            = Signed(multiplicand) * Pow2[W - (k + 1)] *
                 (multiplier - Pow2[k] * rest + Pow2[k] * (rest % 2))
    BY <1>11, Shifted
  <2>2. Product(multiplier - Pow2[k + 1] * rest, k + 1)'
            = Signed(multiplicand) * Pow2[W - (k + 1)] *
                 (multiplier - Pow2[k + 1] * rest')
    BY <1>2 DEF Product, Signed, Msb, T, Half
  <2>3. (Signed(A) * T + B - rest)' = (Signed(A) * T + B)' - rest'
    <3> DEFINE aT == Signed(A') * T
    <3>1. aT \in Int /\ B' \in Int /\ rest' \in Int
      <4>1. TypeOK'
        BY ClockTypes DEF IInv
      <4>2. A' \in Words /\ B' \in Words /\ rest' \in Words
        BY <4>1 DEF TypeOK, Words, T
      <4>3. QED BY <4>2, SignedBounds, Halves
    <3>2. /\ (Signed(A) * T + B - rest)' = aT + B' - rest'
          /\ (Signed(A) * T + B)' = aT + B'
      BY DEF Signed, Msb, T, Half
    <3> HIDE DEF aT
    <3>3. QED BY <3>1, <3>2
  <2>4. QED BY <1>2, <1>10, <2>1, <2>2, <2>3
<1>12. ASSUME still
       PROVE  /\ Pow2[k + 1] * rest' <= multiplier
              /\ multiplier < Pow2[k + 1] * rest' + Pow2[k + 1]
  <2> DEFINE p == Pow2[k]
             bit == rest % 2
             rh == rest'
  <2>1. p \in Nat /\ bit \in {0, 1} /\ rh \in Int /\ rest = 2 * rh + bit
        /\ multiplier \in Int
    <3>1. p \in Nat
      BY <1>5
    <3>2. rh \in Int /\ multiplier \in Int
      BY <1>9
    <3>3. bit \in {0, 1}
      BY <1>9
    <3>4. rest = 2 * rh + bit
      BY <1>9
    <3>5. QED BY <3>1, <3>2, <3>3, <3>4
  <2>2. p * rest <= multiplier /\ multiplier < p * rest + p
    BY <1>12, BitFacts
  <2> HIDE DEF p, bit, rh
  <2>3. p * rest = 2 * p * rh + p * bit
    BY <2>1
  <2>4. p * bit >= 0 /\ p * bit <= p
    <3>1. CASE bit = 0
      BY <2>1, <3>1
    <3>2. CASE bit = 1
      BY <2>1, <3>2
    <3>3. QED BY <2>1, <3>1, <3>2
  <2>5. 2 * p * rh <= multiplier /\ multiplier < 2 * p * rh + 2 * p
    BY <2>1, <2>2, <2>3, <2>4
  <2>6. QED BY <1>5, <2>5 DEF p, rh
<1>13. PartialProduct'
  <2>1. ASSUME still', NEW j \in 0 .. W - 1
        PROVE
          LET unused == Pow2[j] * rest'
          IN  /\ curr_state' \in {2 * j + 2, 2 * j + 3} =>
                     unused <= multiplier' /\ multiplier' < unused + Pow2[j]
              /\ curr_state' = 2 * j + 2 =>
                     (Signed(A) * T + B - rest)' = Product(multiplier - Pow2[j] * rest, j)'
              /\ curr_state' # 2 * j + 3
    <3>1. still
      BY <1>2, <2>1
    <3>2. CASE j = k + 1
      BY <1>2, <1>3, <1>11, <1>12, <3>1, <3>2
    <3>3. CASE j # k + 1
      BY <1>3, <3>3
    <3>4. QED BY <3>2, <3>3
  <2>2. QED BY <2>1 DEF PartialProduct
<1>14. QED BY <1>6, <1>7, <1>8, <1>13 DEF Product_

\* The last shift leaves the product: no bit is unused.
LEMMA LastStep ==
    ASSUME IInv, Clock, ~Reset, NEW k \in 0 .. W - 1, curr_state = 2 * k + 3,
           k = W - 1
    PROVE  Product_'
<1>1. W \in Nat /\ W >= 2
  BY WidthAssumption
<1>2. /\ curr_state' = Wait
      /\ UNCHANGED <<SW, multiplicand, multiplier, still>>
  <2>1. 2 * (k + 1) + 2 = Wait
    BY <1>1 DEF Wait
  <2>2. QED BY <2>1, Shifted
<1>3. curr_state' \notin Running
  BY <1>1, <1>2 DEF Running, Wait
<1>4. \A j \in 0 .. W - 1 : curr_state' # 2 * j + 2 /\ curr_state' # 2 * j + 3
  BY <1>1, <1>2 DEF Wait
<1>5. Operands'
  BY <1>3 DEF Operands, Running
<1>6. Weights'
  BY <1>4 DEF Weights
<1>7. PartialProduct'
  BY <1>4 DEF PartialProduct
<1>8. ASSUME still
      PROVE  (Signed(A) * T + B)' = Signed(multiplicand) * Signed(multiplier)
  <2>1. Pow2[k] = Half /\ Pow2[W - (k + 1)] = 1
    <3>1. W - (k + 1) = 0
      BY <1>1
    <3>2. QED BY <3>1, WidthAssumption DEF Half
  <2>2. /\ Half \in Nat \ {0} /\ T = 2 * Half
        /\ rest \in Nat /\ multiplier \in Words /\ multiplier \in Nat
        /\ multiplier < T
        /\ Signed(multiplicand) \in Int /\ Signed(multiplier) \in Int
    BY Halves, SignedBounds DEF IInv, TypeOK
  <2>3. Half * rest <= multiplier /\ multiplier < Half * rest + Half
    BY <1>8, <2>1, BitFacts
  <2>4. rest = Msb(multiplier)
    <3>1. CASE rest = 0
      <4>1. multiplier < Half
        BY <2>2, <2>3, <3>1
      <4>2. QED BY <3>1, <4>1 DEF Msb
    <3>2. CASE rest = 1
      <4>1. ~(multiplier < Half)
        BY <2>2, <2>3, <3>2
      <4>2. QED BY <3>2, <4>1 DEF Msb
    <3>3. CASE rest >= 2
      <4>1. PICK e \in Nat : rest = 2 + e
        <5>1. rest - 2 \in Nat /\ rest = 2 + (rest - 2)
          BY <2>2, <3>3
        <5>2. QED BY <5>1
      <4>2. Half * rest = 2 * Half + Half * e /\ Half * e >= 0
        BY <2>2, <4>1
      <4>3. FALSE
        BY <2>2, <2>3, <4>2
      <4>4. QED BY <4>3
    <3>4. QED BY <2>2, <3>1, <3>2, <3>3
  <2>5. rest \in {0, 1} /\ rest % 2 = rest /\ rest \div 2 = 0
    <3>1. rest \in {0, 1}
      BY <2>4, SignedBounds, <2>2
    <3>2. CASE rest = 0
      BY <3>2
    <3>3. CASE rest = 1
      BY <3>3
    <3>4. QED BY <3>1, <3>2, <3>3
  <2>6. multiplier - Half * rest + (-Half) * (rest % 2) = Signed(multiplier)
    <3>1. CASE rest = 0
      BY <2>2, <2>4, <2>5, <3>1 DEF Signed
    <3>2. CASE rest = 1
      BY <2>2, <2>4, <2>5, <3>2 DEF Signed
    <3>3. QED BY <2>5, <3>1, <3>2
  <2>7. (Signed(A) * T + B)' - 0
            = Signed(multiplicand) * 1 *
                 (multiplier - Half * rest + (-Half) * (rest % 2))
    <3>1. ~(k < W - 1)
      BY <1>1
    <3>2. (Signed(A) * T + B)' - rest \div 2
            = Signed(multiplicand) * Pow2[W - (k + 1)] *
                 (multiplier - Pow2[k] * rest + (-Pow2[k]) * (rest % 2))
      BY <1>8, <3>1, Shifted
    <3>3. QED BY <2>1, <2>5, <3>2
  <2>8. (Signed(A) * T + B)' \in Int
    <3>1. TypeOK'
      BY ClockTypes DEF IInv
    <3>2. A' \in Words /\ B' \in Words
      BY <3>1 DEF TypeOK, Words, T
    <3>3. Signed(A') * T + B' \in Int
      BY <3>2, SignedBounds, Halves
    <3>4. (Signed(A) * T + B)' = Signed(A') * T + B'
      BY DEF Signed, Msb, T, Half
    <3>5. QED BY <3>3, <3>4
  <2>9. (Signed(A) * T + B)' - 0 = Signed(multiplicand) * 1 * Signed(multiplier)
    BY <2>6, <2>7
  <2>10. QED BY <2>2, <2>8, <2>9
<1>9. ProductIsRight'
  <2>1. Signed(multiplicand)' = Signed(multiplicand)
        /\ Signed(multiplier)' = Signed(multiplier)
    BY <1>2 DEF Signed, Msb, T, Half
  <2>2. QED BY <1>2, <1>8, <2>1 DEF ProductIsRight
<1>10. QED BY <1>5, <1>6, <1>7, <1>9 DEF Product_

\* A step that changes neither the registers nor the state of the control, and
\* keeps the history or forgets it, keeps the invariant.
LEMMA Unmoved ==
    ASSUME IInv, UNCHANGED <<curr_state, X, A, B>>,
           \/ still' = FALSE
           \/ UNCHANGED <<multiplicand, multiplier, rest, still>> /\
              (SW' = SW \/ curr_state = Wait)
    PROVE  Product_'
<1>1. Weights'
  BY DEF IInv, Weights, T
<1>2. CASE still' = FALSE
  BY <1>1, <1>2 DEF Product_, Operands, PartialProduct, ProductIsRight
<1>3. CASE /\ UNCHANGED <<multiplicand, multiplier, rest, still>>
           /\ SW' = SW \/ curr_state = Wait
  <2>1. curr_state = Wait => curr_state \notin Running
    BY WidthAssumption DEF Wait, Running
  <2>2. Operands'
    BY <1>3, <2>1 DEF IInv, Operands, Running
  <2>3. PartialProduct'
    BY <1>3 DEF IInv, PartialProduct, Total, Product, Signed, Msb, T, Half
  <2>4. ProductIsRight'
    BY <1>3 DEF IInv, ProductIsRight, Signed, Msb, T, Half, Wait
  <2>5. QED BY <1>1, <2>2, <2>3, <2>4 DEF Product_
<1>4. QED BY <1>2, <1>3

LEMMA WaitStep ==
    ASSUME IInv, Clock, curr_state = Wait, ~Reset
    PROVE  Product_'
<1>1. curr_state # Clear /\ curr_state # Idle /\ curr_state \notin Running
  BY WidthAssumption DEF Wait, Clear, Idle, Running
<1>2. ~Clr_A_X /\ ~Ld_A_X /\ ~Shift_En
  BY <1>1 DEF Clr_A_X, Ld_A_X, Shift_En
<1>3. UNCHANGED <<X, A, B>>
  BY <1>2, ClockRegisters DEF IInv
<1>4. UNCHANGED <<SW, multiplicand, multiplier, rest, still>>
  BY <1>1, <1>2, HistoryKept
<1>5. curr_state' = next_state
  BY DEF Clock
<1>6. CASE Run
  <2>1. curr_state' = curr_state
    BY <1>1, <1>5, <1>6 DEF next_state
  <2>2. QED BY <1>3, <1>4, <2>1, Unmoved
<1>7. CASE ~Run
  <2>1. curr_state' = Idle
    BY <1>1, <1>5, <1>7 DEF next_state
  <2>2. QED BY <2>1, Resting
<1>8. QED BY <1>6, <1>7

LEMMA ClockStep == ASSUME IInv, Clock PROVE Product_'
<1>1. CASE Reset
  <2>1. curr_state' = Idle
    BY <1>1 DEF Clock
  <2>2. QED BY <2>1, Resting
<1>2. CASE ~Reset /\ curr_state = Idle
  <2>1. curr_state' \in {Idle, Clear}
    BY <1>2 DEF Clock, next_state
  <2>2. QED BY <2>1, Resting
<1>3. CASE ~Reset /\ curr_state = Clear
  BY <1>3, StartStep DEF IInv
<1>4. CASE ~Reset /\ curr_state = Wait
  BY <1>4, WaitStep
<1>5. ASSUME ~Reset, NEW k \in 0 .. W - 1, curr_state = 2 * k + 2
      PROVE  Product_'
  BY <1>5, AddStep
<1>6. ASSUME ~Reset, NEW k \in 0 .. W - 1, curr_state = 2 * k + 3
      PROVE  Product_'
  <2>1. k < W - 1 \/ k = W - 1
    BY WidthAssumption
  <2>2. QED BY <1>6, <2>1, ShiftStep, LastStep
<1>7. QED BY <1>1, <1>2, <1>3, <1>4, <1>5, <1>6, StateCases DEF IInv

LEMMA InputStep == ASSUME IInv, Buttons \/ Switches PROVE Product_'
<1>1. CASE Buttons
  BY <1>1, Unmoved DEF Buttons, registers, history
<1>2. CASE Switches
  <2>1. UNCHANGED <<curr_state, X, A, B>>
    BY <1>2 DEF Switches, registers
  <2>2. CASE curr_state = Wait
    BY <1>2, <2>1, <2>2, Unmoved DEF Switches
  <2>3. CASE curr_state # Wait
    <3>1. still' = FALSE
      BY <1>2, <2>3 DEF Switches, Forget
    <3>2. QED BY <2>1, <3>1, Unmoved
  <2>4. QED BY <2>2, <2>3
<1>3. QED BY <1>1, <1>2

LEMMA InitInv == Init => IInv
<1> SUFFICES ASSUME Init PROVE IInv
  OBVIOUS
<1>2. TypeOK
  <2>1. 0 \in Words /\ Idle \in Idle .. Wait
    BY Halves, WidthAssumption DEF Words, Idle, Wait
  <2>2. /\ curr_state = Idle /\ X = 0 /\ A = 0 /\ B = 0 /\ SW \in Words
        /\ multiplicand = 0 /\ multiplier = 0 /\ rest = 0
    BY DEF Init
  <2>3. /\ RLC \in BOOLEAN /\ Run \in BOOLEAN /\ Reset \in BOOLEAN
        /\ still \in BOOLEAN /\ armed \in BOOLEAN
    BY DEF Init
  <2>4. QED BY <2>1, <2>2, <2>3 DEF TypeOK
<1>3. curr_state = 0 /\ ~still
  <2>1. curr_state = 0
    BY DEF Init, Idle
  <2>2. ~still
    BY Zenon DEF Init
  <2>3. QED BY <2>1, <2>2
<1>4. \A k \in 0 .. W - 1 : curr_state # 2 * k + 2 /\ curr_state # 2 * k + 3
  BY <1>3
<1>5. QED
  BY <1>2, <1>3, <1>4
  DEF IInv, Operands, Weights, PartialProduct, ProductIsRight

LEMMA StepInv == IInv /\ [Next]_vars => IInv'
<1> SUFFICES ASSUME IInv, [Next]_vars PROVE IInv'
  OBVIOUS
<1>2. TypeOK
  BY DEF IInv
<1>3. CASE Clock
  <2>1. TypeOK' /\ Product_'
    BY <1>2, <1>3, ClockTypes, ClockStep
  <2>2. QED BY <2>1, Zenon DEF IInv, Product_
<1>4. CASE Buttons \/ Switches
  <2>1. TypeOK' /\ Product_'
    BY <1>2, <1>4, InputTypes, InputStep
  <2>2. QED BY <2>1, Zenon DEF IInv, Product_
<1>5. CASE UNCHANGED vars
  <2>1. UNCHANGED <<curr_state, X, A, B, RLC, Run, Reset, SW, multiplicand,
                    multiplier, rest, still, armed>>
    BY <1>5 DEF vars
  <2>2. TypeOK'
    BY <1>2, <2>1 DEF TypeOK, Words, T, Idle, Wait
  <2>3. Product_'
    BY <2>1, Unmoved
  <2>4. QED BY <2>2, <2>3, Zenon DEF IInv, Product_
<1>6. QED BY <1>3, <1>4, <1>5 DEF Next

\* The invariant of the multiplier.
THEOREM MultiplierInvariant == Spec => []IInv
BY InitInv, StepInv, PTL DEF Spec

\* The registers and the state of the control keep their types (Control.sv,
\* Register_unit.sv).
THEOREM MultiplierTypes == Spec => []TypeOK
<1>1. IInv => TypeOK
  BY DEF IInv
<1>2. QED BY <1>1, MultiplierInvariant, PTL

\* For words of any width the registers hold the signed product of the switches
\* and of B, at the end of every multiplication whose switches did not move.
THEOREM MultiplierProduct == Spec => []ProductIsRight
<1>1. IInv => ProductIsRight
  BY DEF IInv
<1>2. QED BY <1>1, MultiplierInvariant, PTL

\* At every add and every shift the registers hold the product of the bits used
\* so far, above the bits of the multiplier not used yet.
THEOREM MultiplierPartial == Spec => []PartialProduct
<1>1. IInv => PartialProduct
  BY DEF IInv
<1>2. QED BY <1>1, MultiplierInvariant, PTL

-----------------------------------------------------------------------------
(* One multiplication for a press of Run.                                  *)

Rearmed == curr_state \in {Idle, Clear} => armed

LEMMA ClockRearms == ASSUME TypeOK, Rearmed, Clock PROVE Rearmed'
<1>1. Remember /\ curr_state' = IF Reset THEN Idle ELSE next_state
  BY DEF Clock
<1>2. Wait # Idle /\ Wait # Clear /\ Idle # Clear
  BY WidthAssumption DEF Wait, Idle, Clear
<1>3. CASE curr_state = Clear
  <2>1. armed' = Reset
    BY <1>1, <1>3 DEF Remember
  <2>2. ~Reset => curr_state' = 2
    BY <1>1, <1>2, <1>3 DEF next_state, Clear
  <2>3. QED BY <2>1, <2>2 DEF Rearmed, Idle, Clear
<1>4. CASE curr_state # Clear
  <2>1. armed' = (armed \/ Reset \/ ~Run)
    BY <1>1, <1>4 DEF Remember
  <2>2. CASE curr_state = Idle
    BY <2>1, <2>2 DEF Rearmed
  <2>3. CASE curr_state = Wait
    <3>1. CASE Reset \/ ~Run
      BY <2>1, <3>1 DEF Rearmed
    <3>2. CASE ~Reset /\ Run
      <4>1. curr_state' = Wait
        BY <1>1, <1>2, <2>3, <3>2 DEF next_state
      <4>2. QED BY <1>2, <4>1 DEF Rearmed, Idle, Clear
    <3>3. QED BY <3>1, <3>2
  <2>4. CASE curr_state \notin {Idle, Clear, Wait}
    <3>1. ~Reset => curr_state' = curr_state + 1
      BY <1>1, <2>4 DEF next_state
    <3>2. curr_state \in Nat /\ curr_state # 0
      BY <2>4, WidthAssumption DEF TypeOK, Idle, Wait
    <3>3. CASE Reset
      BY <2>1, <3>3 DEF Rearmed
    <3>4. CASE ~Reset
      <4>1. curr_state' \notin {0, 1}
        BY <3>1, <3>2, <3>4
      <4>2. QED BY <4>1 DEF Rearmed, Idle, Clear
    <3>5. QED BY <3>3, <3>4
  <2>5. QED BY <1>4, <2>2, <2>3, <2>4
<1>5. QED BY <1>3, <1>4

\* However long Run is held, a multiplication starts only if Run was let go, or
\* the circuit reset, after the last one started (the state S of Control.sv).
THEOREM MultiplierOnePerPress == Spec => OnePerPress
<1>1. Init => Rearmed
  BY DEF Init, Rearmed
<1>2. TypeOK /\ Rearmed /\ [Next]_vars => Rearmed'
  <2> SUFFICES ASSUME TypeOK, Rearmed, [Next]_vars PROVE Rearmed'
    OBVIOUS
  <2>2. CASE Clock
    BY <2>2, ClockRearms
  <2>3. CASE Buttons \/ Switches \/ UNCHANGED vars
    <3>1. curr_state' = curr_state /\ armed' = armed
      BY <2>3 DEF Buttons, Switches, vars, history
    <3>2. QED BY <3>1 DEF Rearmed, Idle, Clear
  <2>4. Clock \/ Buttons \/ Switches \/ UNCHANGED vars
    BY DEF Next
  <2>5. QED BY <2>2, <2>3, <2>4
<1>3. Rearmed => [curr_state = Clear /\ curr_state' = Clear + 1 => armed]_vars
  BY DEF Rearmed
<1>4. QED BY <1>1, <1>2, <1>3, MultiplierTypes, PTL DEF Spec, OnePerPress
=============================================================================
