----------------------- MODULE SerialProcessor_proofs -----------------------
(***************************************************************************)
(* Proofs about SerialProcessor, for registers of any width and any set of *)
(* switch settings: what the shifts have computed so far is right, and the *)
(* processor implements LogicUnit.                                         *)
(***************************************************************************)
EXTENDS SerialProcessor, TLAPS

IInv == TypeOK /\ PartialResult

\* A bit through function and route is a bit.
LEMMA RoutedBits ==
    ASSUME NEW s \in Switches, NEW a \in BOOLEAN, NEW b \in BOOLEAN
    PROVE  A_Out(s, a, b) \in BOOLEAN /\ B_Out(s, a, b) \in BOOLEAN
<1>1. s.F \in 0 .. 7 /\ s.R \in 0 .. 3
  BY ProcessorAssumption
<1>2. F_A_B(s.F, a, b) \in BOOLEAN
  <2>1. CASE s.F \in {0, 1, 2}
    BY <2>1 DEF F_A_B
  <2>2. CASE s.F \in {3, 7}
    BY <2>2 DEF F_A_B
  <2>3. CASE s.F = 4
    BY <2>3 DEF F_A_B
  <2>4. CASE s.F = 5
    BY <2>4 DEF F_A_B
  <2>5. CASE s.F = 6
    BY <2>5 DEF F_A_B
  <2>6. s.F \in {0, 1, 2} \/ s.F \in {3, 7} \/ s.F = 4 \/ s.F = 5 \/ s.F = 6
    BY <1>1
  <2>7. QED BY <2>1, <2>2, <2>3, <2>4, <2>5, <2>6
<1>3. QED
  BY <1>1, <1>2 DEF A_Out, B_Out

\* A shifted register is a register.
LEMMA ShiftedRegister ==
    ASSUME NEW r \in Registers, NEW in \in BOOLEAN
    PROVE  Shift(r, in) \in Registers
BY ProcessorAssumption DEF Shift, Registers, Bits

\* The registers start an operation with no bit handled.
LEMMA PartialAtRest ==
    ASSUME NEW i \in Bits, NEW k, k = 0
    PROVE  i <= W - k /\ i + k = i
BY ProcessorAssumption DEF Bits

LEMMA InitInv == Init => IInv
<1> SUFFICES ASSUME Init PROVE IInv
  OBVIOUS
<1> USE ProcessorAssumption
<1>1. TypeOK
  <2>1. Zeros \in Registers
    BY DEF Zeros, Registers
  <2>2. at \in Seq(Switches)
    BY DEF Init
  <2>3. curr_state \in Idle .. Finished
    BY DEF Init, Idle, Finished
  <2>4. QED BY <2>1, <2>2, <2>3 DEF Init, TypeOK
<1>2. PartialResult
  <2>1. Len(at) = 0
    BY DEF Init
  <2>2. A = a0 /\ B = b0 /\ curr_state = Idle
    BY DEF Init
  <2>3. QED BY <2>1, <2>2, PartialAtRest DEF PartialResult
<1>3. QED BY <1>1, <1>2 DEF IInv

\* Reset, and every clock that stays in the idle state or leaves it, starts
\* the history afresh.
LEMMA FreshInv ==
    ASSUME A' \in Registers, B' \in Registers, Execute' \in BOOLEAN,
           curr_state' \in {Idle, 1}, a0' = A', b0' = B', at' = <<>>
    PROVE  IInv'
<1> USE ProcessorAssumption
<1>1. Len(at') = 0
  OBVIOUS
<1>2. PartialResult'
  <2>1. curr_state' # Idle => Len(at') = curr_state' - 1
    BY <1>1 DEF Idle
  <2>2. QED BY <1>1, <2>1, PartialAtRest DEF PartialResult
<1>3. TypeOK'
  <2>1. at' \in Seq(Switches)
    OBVIOUS
  <2>2. curr_state' \in Idle .. Finished
    BY DEF Idle, Finished
  <2>3. QED BY <2>1, <2>2 DEF TypeOK
<1>4. QED BY <1>2, <1>3 DEF IInv

LEMMA ResetInv ==
    ASSUME IInv, Execute' \in BOOLEAN, Reset, Remember(at)
    PROVE  IInv'
<1>1. Zeros \in Registers
  BY DEF Zeros, Registers
<1>2. a0' = A' /\ b0' = B' /\ at' = <<>>
  BY DEF Reset, Remember
<1>3. QED BY <1>1, <1>2, FreshInv DEF Reset

LEMMA LoadInv ==
    ASSUME IInv, Execute' \in BOOLEAN,
           NEW LoadA \in BOOLEAN, NEW LoadB \in BOOLEAN, NEW D \in Registers,
           Load(LoadA, LoadB, D), Remember(at)
    PROVE  IInv'
<1> USE ProcessorAssumption
<1>1. A' \in Registers /\ B' \in Registers
  BY DEF IInv, TypeOK, Load
<1>2. CASE curr_state = Idle
  <2>1. curr_state' \in {Idle, 1}
    BY <1>2 DEF Load, next_state
  <2>2. a0' = A' /\ b0' = B' /\ at' = <<>>
    BY <1>2 DEF Remember
  <2>3. QED BY <1>1, <2>1, <2>2, FreshInv
<1>3. CASE curr_state # Idle
  <2>1. curr_state = Finished /\ curr_state' \in {Idle, Finished}
    BY <1>3 DEF Load, Shift_En, IInv, TypeOK, Idle, Finished, next_state
  <2>2. A' = A /\ B' = B
    BY <1>3 DEF Load
  <2>3. CASE curr_state' = Idle
    <3>1. a0' = A' /\ b0' = B' /\ at' = <<>>
      BY <2>3 DEF Remember
    <3>2. QED BY <1>1, <2>3, <3>1, FreshInv
  <2>4. CASE curr_state' # Idle
    <3>1. curr_state' = curr_state
      BY <2>1, <2>4
    <3>2. a0' = a0 /\ b0' = b0 /\ at' = at
      BY <1>3, <2>4, <2>1 DEF Remember, Shift_En, Finished
    <3>3. QED BY <2>2, <3>1, <3>2 DEF IInv, TypeOK, PartialResult
  <2>5. QED BY <2>3, <2>4
<1>4. QED BY <1>2, <1>3

LEMMA ComputeInv ==
    ASSUME IInv, Execute' \in BOOLEAN, NEW s \in Switches,
           Compute(s), Remember(Append(at, s))
    PROVE  /\ IInv'
           /\ curr_state' = curr_state + 1
           /\ a0' = a0 /\ b0' = b0 /\ at' = Append(at, s)
<1> USE ProcessorAssumption
<1> DEFINE k == Len(at)
<1>1. curr_state \in 1 .. W /\ curr_state' = curr_state + 1
  BY DEF Compute, Shift_En, next_state, Idle, Finished
<1>2. a0' = a0 /\ b0' = b0 /\ at' = Append(at, s)
  BY <1>1 DEF Remember, Idle
<1>3. at \in Seq(Switches) /\ k = curr_state - 1 /\ k \in 0 .. W - 1
  BY <1>1 DEF IInv, TypeOK, PartialResult, Idle
<1>4. /\ at' \in Seq(Switches)
      /\ Len(at') = k + 1
      /\ \A j \in 1 .. k : at'[j] = at[j]
      /\ at'[k + 1] = s
  BY <1>2, <1>3
<1>5. 1 \in Bits /\ A \in Registers /\ B \in Registers
  BY DEF Bits, IInv, TypeOK
<1>6. A[1] \in BOOLEAN /\ B[1] \in BOOLEAN
  BY <1>5 DEF Registers
<1>7. TypeOK'
  <2>1. A' \in Registers /\ B' \in Registers
    BY <1>5, <1>6, RoutedBits, ShiftedRegister DEF Compute
  <2>2. curr_state' \in Idle .. Finished
    BY <1>1 DEF Idle, Finished
  <2>3. QED BY <1>2, <1>4, <2>1, <2>2 DEF TypeOK, IInv
<1>8. ASSUME NEW i \in Bits
      PROVE  IF i <= W - (k + 1)
             THEN A'[i] = a0[i + (k + 1)] /\ B'[i] = b0[i + (k + 1)]
             ELSE LET j == i + (k + 1) - W
                  IN  /\ A'[i] = A_Out(at'[j], a0[j], b0[j])
                      /\ B'[i] = B_Out(at'[j], a0[j], b0[j])
  <2>1. i \in 1 .. W
    BY DEF Bits
  <2>2. CASE i = W
    <3>1. A'[i] = A_Out(s, A[1], B[1]) /\ B'[i] = B_Out(s, A[1], B[1])
      BY <2>2 DEF Compute, Shift
    <3>2. 1 <= W - k
      BY <1>3
    <3>3. A[1] = a0[1 + k] /\ B[1] = b0[1 + k]
      BY <1>5, <3>2 DEF IInv, PartialResult
    <3>4. ~(i <= W - (k + 1)) /\ i + (k + 1) - W = k + 1 /\ 1 + k = k + 1
      BY <2>2, <1>3
    <3>5. QED BY <3>1, <3>3, <3>4, <1>4
  <2>3. CASE i # W
    <3>1. A'[i] = A[i + 1] /\ B'[i] = B[i + 1] /\ i + 1 \in Bits
      BY <2>1, <2>3 DEF Compute, Shift, Bits
    <3>2. CASE i <= W - (k + 1)
      <4>1. i + 1 <= W - k /\ (i + 1) + k = i + (k + 1)
        BY <3>2, <2>1, <1>3
      <4>2. A[i + 1] = a0[(i + 1) + k] /\ B[i + 1] = b0[(i + 1) + k]
        BY <3>1, <4>1 DEF IInv, PartialResult
      <4>3. QED BY <3>1, <3>2, <4>1, <4>2
    <3>3. CASE ~(i <= W - (k + 1))
      <4> DEFINE j == (i + 1) + k - W
      <4>1. ~(i + 1 <= W - k) /\ j = i + (k + 1) - W /\ j \in 1 .. k
        BY <3>3, <2>1, <2>3, <1>3
      <4>2. /\ A[i + 1] = A_Out(at[j], a0[j], b0[j])
            /\ B[i + 1] = B_Out(at[j], a0[j], b0[j])
        BY <3>1, <4>1 DEF IInv, PartialResult
      <4>3. at'[j] = at[j]
        BY <4>1, <1>4
      <4>4. QED BY <3>1, <3>3, <4>1, <4>2, <4>3
    <3>4. QED BY <3>2, <3>3
  <2>4. QED BY <2>2, <2>3
<1>9. PartialResult'
  <2>1. curr_state' # Idle /\ Len(at') = curr_state' - 1
    BY <1>1, <1>3, <1>4 DEF Idle
  <2>2. QED BY <1>2, <1>4, <1>8, <2>1 DEF PartialResult
<1>10. QED BY <1>1, <1>2, <1>7, <1>9 DEF IInv

LEMMA NextInv == IInv /\ [Next]_vars => IInv'
<1> SUFFICES ASSUME IInv, [Next]_vars PROVE IInv'
  OBVIOUS
<1>1. CASE Next
  <2>1. Execute' \in BOOLEAN
    BY <1>1 DEF Next
  <2>2. CASE Reset /\ Remember(at)
    BY <2>1, <2>2, ResetInv
  <2>3. ASSUME NEW LoadA \in BOOLEAN, NEW LoadB \in BOOLEAN,
               NEW D \in Registers, Load(LoadA, LoadB, D), Remember(at)
        PROVE  IInv'
    BY <2>1, <2>3, LoadInv
  <2>4. ASSUME NEW s \in Switches, Compute(s), Remember(Append(at, s))
        PROVE  IInv'
    BY <2>1, <2>4, ComputeInv
  <2>5. QED BY <1>1, <2>2, <2>3, <2>4 DEF Next
<1>2. CASE UNCHANGED vars
  BY <1>2 DEF vars, IInv, TypeOK, PartialResult
<1>3. QED BY <1>1, <1>2

LEMMA ProcessorInvariant == Spec => []IInv
BY InitInv, NextInv, PTL DEF Spec

\* The variables have their types.
THEOREM ProcessorTypes == Spec => []TypeOK
<1>1. IInv => TypeOK
  BY DEF IInv
<1>2. QED BY ProcessorInvariant, <1>1, PTL

\* Whatever the width, every bit computed so far is the function and route of
\* the operands' bits under the switches of its clock (Control.sv 29-61,
\* Reg_4.sv 6-20).
THEOREM ProcessorPartialResult == Spec => []PartialResult
<1>1. IInv => PartialResult
  BY DEF IInv
<1>2. QED BY ProcessorInvariant, <1>1, PTL

-----------------------------------------------------------------------------
(* Refinement.                                                             *)

\* The registers shown to LogicUnit before, and outside, an operation.
LEMMA ShownBefore ==
    ASSUME Shift_En
    PROVE  /\ Shown(A, a0) = {i \in Bits : a0[i]}
           /\ Shown(B, b0) = {i \in Bits : b0[i]}
BY DEF Shown

LEMMA ShownOutside ==
    ASSUME ~Shift_En
    PROVE  /\ Shown(A, a0) = {i \in Bits : A[i]}
           /\ Shown(B, b0) = {i \in Bits : B[i]}
BY DEF Shown

\* One bit of a function on whole registers is the function of one bit.
LEMMA FunctionBit ==
    ASSUME NEW F \in 0 .. 7, NEW i \in Unit!Bits
    PROVE  i \in Unit!Function(F) <=>
               F_A_B(F, i \in Shown(A, a0), i \in Shown(B, b0))
<1> DEFINE a == Shown(A, a0)
           b == Shown(B, b0)
<1> HIDE DEF a, b
<1>1. CASE F = 0
  BY <1>1 DEF Unit!Function, F_A_B, a, b
<1>2. CASE F = 1
  BY <1>2 DEF Unit!Function, F_A_B, a, b
<1>3. CASE F = 2
  BY <1>3 DEF Unit!Function, F_A_B, a, b
<1>4. CASE F = 3
  BY <1>4 DEF Unit!Function, F_A_B
<1>5. CASE F = 4
  BY <1>5 DEF Unit!Function, F_A_B, a, b
<1>6. CASE F = 5
  BY <1>6 DEF Unit!Function, F_A_B, a, b
<1>7. CASE F = 6
  BY <1>7 DEF Unit!Function, F_A_B, a, b
<1>8. CASE F = 7
  BY <1>8 DEF Unit!Function, F_A_B
<1>9. QED
  BY <1>1, <1>2, <1>3, <1>4, <1>5, <1>6, <1>7, <1>8

\* And so is its route.
LEMMA ResultBit ==
    ASSUME NEW s \in Switches, NEW i \in Unit!Bits
    PROVE  /\ i \in Unit!ResultA(s) <=>
                  A_Out(s, i \in Shown(A, a0), i \in Shown(B, b0))
           /\ i \in Unit!ResultB(s) <=>
                  B_Out(s, i \in Shown(A, a0), i \in Shown(B, b0))
<1>1. s.F \in 0 .. 7 /\ s.R \in 0 .. 3
  BY ProcessorAssumption
<1>2. i \in Unit!Function(s.F) <=>
          F_A_B(s.F, i \in Shown(A, a0), i \in Shown(B, b0))
  BY <1>1, FunctionBit
<1>3. CASE s.R = 0
  BY <1>3 DEF Unit!ResultA, Unit!ResultB, A_Out, B_Out
<1>4. CASE s.R = 1
  BY <1>2, <1>4 DEF Unit!ResultA, Unit!ResultB, A_Out, B_Out
<1>5. CASE s.R = 2
  BY <1>2, <1>5 DEF Unit!ResultA, Unit!ResultB, A_Out, B_Out
<1>6. CASE s.R = 3
  BY <1>6 DEF Unit!ResultA, Unit!ResultB, A_Out, B_Out
<1>7. QED BY <1>1, <1>3, <1>4, <1>5, <1>6

LEMMA InitRefined == Init => Unit!Init
<1> SUFFICES ASSUME Init PROVE Unit!Init
  OBVIOUS
<1>1. ~Shift_En /\ Phase = "ready"
  BY ProcessorAssumption DEF Init, Shift_En, Idle, Phase
<1>2. Shown(A, a0) = {} /\ Shown(B, b0) = {}
  BY <1>1, ShownOutside DEF Init, Zeros
<1>3. QED BY <1>1, <1>2 DEF Init, Unit!Init

LEMMA ResetRefined ==
    ASSUME Reset, Remember(at) PROVE Unit!Clear
<1>0. at' = <<>>
  BY DEF Reset, Remember
<1>1. ~Shift_En' /\ Phase' = "ready"
  BY ProcessorAssumption DEF Reset, Shift_En, Idle, Phase
<1>2. Shown(A, a0)' = {} /\ Shown(B, b0)' = {}
  BY <1>1 DEF Reset, Zeros, Shown
<1>3. QED BY <1>0, <1>1, <1>2 DEF Unit!Clear

LEMMA LoadRefined ==
    ASSUME IInv, IInv',
           NEW LoadA \in BOOLEAN, NEW LoadB \in BOOLEAN, NEW D \in Registers,
           Load(LoadA, LoadB, D), Remember(at)
    PROVE  \/ Unit!Load
           \/ Unit!Release
           \/ UNCHANGED <<Shown(A, a0), Shown(B, b0), at, Phase>>
<1> USE ProcessorAssumption
<1>1. ~Shift_En
  BY DEF Load
<1>2. CASE curr_state = Idle
  <2>1. curr_state' = IF Execute THEN 1 ELSE Idle
    BY <1>2 DEF Load, next_state, Idle, Finished
  <2>2. Phase = "ready" /\ Phase' = IF Execute THEN "working" ELSE "ready"
    BY <1>2, <2>1 DEF Phase, Idle, Finished
  <2>3. /\ Shown(A, a0)' = {i \in Bits : A'[i]}
        /\ Shown(B, b0)' = {i \in Bits : B'[i]}
    <3>1. CASE curr_state' = Idle
      <4>1. ~Shift_En'
        BY <3>1 DEF Shift_En, Idle
      <4>2. QED BY <4>1 DEF Shown
    <3>2. CASE curr_state' = 1
      <4>1. Len(at') = 0
        BY <3>2 DEF IInv, PartialResult, Idle
      <4>2. \A i \in Bits : A'[i] = a0'[i] /\ B'[i] = b0'[i]
        BY <4>1, PartialAtRest DEF IInv, PartialResult
      <4>3. QED BY <4>2 DEF Shown
    <3>3. QED BY <2>1, <3>1, <3>2
  <2>4. /\ Shown(A, a0) = {i \in Bits : A[i]}
        /\ Shown(B, b0) = {i \in Bits : B[i]}
    BY <1>1, ShownOutside
  <2> DEFINE d == {i \in Bits : D[i]}
  <2>5. /\ Shown(A, a0)' \in {Shown(A, a0), d}
        /\ Shown(B, b0)' \in {Shown(B, b0), d}
    BY <2>3, <2>4 DEF Load
  <2>6. d \in SUBSET Unit!Bits
    BY DEF Bits, Unit!Bits
  <2>7. Len(at) = 0 /\ at' = <<>>
    BY <1>2 DEF IInv, PartialResult, Remember
  <2>8. Unit!Load
    BY <2>2, <2>5, <2>6, <2>7 DEF Unit!Load
  <2>9. QED BY <2>8
<1>3. CASE curr_state # Idle
  <2>1. curr_state = Finished
    BY <1>1, <1>3 DEF Shift_En, IInv, TypeOK, Idle, Finished
  <2>2. curr_state' \in {Idle, Finished} /\ ~Shift_En'
    BY <2>1, <1>3 DEF Load, next_state, Shift_En, Idle, Finished
  <2>3. A' = A /\ B' = B
    BY <1>3 DEF Load
  <2>4. Shown(A, a0)' = Shown(A, a0) /\ Shown(B, b0)' = Shown(B, b0)
    BY <1>1, <2>2, <2>3 DEF Shown
  <2>5. CASE curr_state' = Finished
    <3>1. at' = at
      BY <1>1, <1>3, <2>5 DEF Remember, Idle, Finished
    <3>2. Phase' = Phase
      BY <2>1, <2>5 DEF Phase
    <3>3. QED BY <2>4, <3>1, <3>2
  <2>6. CASE curr_state' = Idle
    <3>1. ~Execute /\ Phase = "done" /\ Phase' = "ready"
      BY <2>1, <2>6, <1>3 DEF Load, next_state, Phase, Idle, Finished
    <3>2. at' = <<>>
      BY <2>6 DEF Remember
    <3>3. QED BY <2>4, <3>1, <3>2 DEF Unit!Release
  <2>7. QED BY <2>2, <2>5, <2>6
<1>4. QED BY <1>2, <1>3

LEMMA ComputeRefined ==
    ASSUME IInv, IInv', NEW s \in Switches, Compute(s),
           curr_state' = curr_state + 1, a0' = a0, b0' = b0,
           at' = Append(at, s)
    PROVE  Unit!Read \/ Unit!Operate
<1> USE ProcessorAssumption
<1>1. Shift_En /\ curr_state \in 1 .. W /\ Phase = "working"
  BY DEF Compute, Shift_En, Idle, Finished, Phase
<1>0. Len(at) = curr_state - 1
  BY <1>1 DEF IInv, PartialResult, Idle
<1>2. CASE curr_state # W
  <2>1. Shift_En' /\ Phase' = "working"
    BY <1>1, <1>2 DEF Shift_En, Idle, Finished, Phase
  <2>2. Shown(A, a0)' = Shown(A, a0) /\ Shown(B, b0)' = Shown(B, b0)
    BY <1>1, <2>1 DEF Shown
  <2>3. Len(at) + 1 < W
    BY <1>0, <1>1, <1>2
  <2>4. Unit!Read
    BY <1>1, <2>1, <2>2, <2>3 DEF Unit!Read
  <2>5. QED BY <2>4
<1>3. CASE curr_state = W
  <2>1. curr_state' = Finished /\ ~Shift_En'
    BY <1>1, <1>3 DEF Shift_En, Finished
  <2>2. /\ at' \in Seq(Switches) /\ Len(at') = W
        /\ a0 \in Registers /\ b0 \in Registers
    BY <2>1 DEF IInv, TypeOK, PartialResult, Idle, Finished
  <2>3. ASSUME NEW i \in Bits
        PROVE  /\ at'[i] \in Switches
               /\ A'[i] = A_Out(at'[i], a0[i], b0[i])
               /\ B'[i] = B_Out(at'[i], a0[i], b0[i])
    <3>1. i \in 1 .. W /\ ~(i <= W - Len(at')) /\ i + Len(at') - W = i
      BY <2>2 DEF Bits
    <3>2. QED BY <2>2, <3>1 DEF IInv, PartialResult
  <2>4. ASSUME NEW i \in Bits
        PROVE  /\ A'[i] <=> i \in Unit!ResultA(at'[i])
               /\ B'[i] <=> i \in Unit!ResultB(at'[i])
    <3>1. i \in Unit!Bits
      BY DEF Bits, Unit!Bits
    <3>2. /\ (i \in Shown(A, a0)) = a0[i]
          /\ (i \in Shown(B, b0)) = b0[i]
      <4>1. a0[i] \in BOOLEAN /\ b0[i] \in BOOLEAN
        BY <2>2 DEF Registers
      <4>2. /\ i \in Shown(A, a0) <=> a0[i]
            /\ i \in Shown(B, b0) <=> b0[i]
        BY <1>1, ShownBefore
      <4>3. QED BY <4>1, <4>2
    <3>3. /\ i \in Unit!ResultA(at'[i]) <=> A_Out(at'[i], a0[i], b0[i])
          /\ i \in Unit!ResultB(at'[i]) <=> B_Out(at'[i], a0[i], b0[i])
      BY <2>3, <3>1, <3>2, ResultBit
    <3>4. QED BY <2>3, <3>3
  <2>5. /\ Shown(A, a0)' = {i \in Bits : A'[i]}
        /\ Shown(B, b0)' = {i \in Bits : B'[i]}
    BY <2>1 DEF Shown
  <2>6. /\ Shown(A, a0)' = {i \in Unit!Bits : i \in Unit!ResultA(at'[i])}
        /\ Shown(B, b0)' = {i \in Unit!Bits : i \in Unit!ResultB(at'[i])}
    BY <2>4, <2>5 DEF Bits, Unit!Bits
  <2>7. Len(at) + 1 = W
    BY <1>0, <1>3
  <2>8. Phase' = "done"
    BY <2>1 DEF Phase, Idle, Finished
  <2>9. Unit!Operate
    BY <1>1, <2>6, <2>7, <2>8 DEF Unit!Operate
  <2>10. QED BY <2>9
<1>4. QED BY <1>2, <1>3

LEMMA StepRefined == IInv /\ IInv' /\ [Next]_vars => [Unit!Next]_(Unit!vars)
<1> SUFFICES ASSUME IInv, IInv', [Next]_vars
             PROVE  [Unit!Next]_(Unit!vars)
  OBVIOUS
<1>1. CASE Next
  <2>1. Execute' \in BOOLEAN
    BY <1>1 DEF Next
  <2>2. CASE Reset /\ Remember(at)
    BY <2>1, <2>2, ResetRefined DEF Unit!Next
  <2>3. ASSUME NEW LoadA \in BOOLEAN, NEW LoadB \in BOOLEAN,
               NEW D \in Registers, Load(LoadA, LoadB, D), Remember(at)
        PROVE  [Unit!Next]_(Unit!vars)
    BY <2>1, <2>3, LoadRefined DEF Unit!Next
  <2>4. ASSUME NEW s \in Switches, Compute(s), Remember(Append(at, s))
        PROVE  [Unit!Next]_(Unit!vars)
    BY <2>1, <2>4, ComputeInv, ComputeRefined DEF Unit!Next
  <2>5. QED BY <1>1, <2>2, <2>3, <2>4 DEF Next
<1>2. CASE UNCHANGED vars
  BY <1>2 DEF vars, Unit!vars, Shown, Shift_En, Phase
<1>3. QED BY <1>1, <1>2

\* Whatever the width and the switches, the serial processor implements
\* LogicUnit: one operation per press of Execute, and none without one, on whole
\* registers.
THEOREM ProcessorImplementsUnit == Spec => UnitSpec
BY ProcessorInvariant, InitRefined, StepRefined, PTL
   DEF Spec, UnitSpec, Unit!Spec
=============================================================================
