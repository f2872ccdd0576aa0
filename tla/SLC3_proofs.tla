---------------------------- MODULE SLC3_proofs ----------------------------
(***************************************************************************)
(* Proofs about SLC3, for memories of any size and any program: types, the *)
(* instruction in IR, and that the processor implements SLC3Isa.           *)
(***************************************************************************)
EXTENDS SLC3, TLAPS

-----------------------------------------------------------------------------
(* Words.  Only this section looks at how many there are.                  *)

LEMMA Intervals ==
    \A n \in Int : \A w : w \in 0 .. n - 1 <=> w \in Int /\ 0 <= w /\ w < n
BY SMT

LEMMA WordSizeIs == WordSize = 65536
BY SMT DEF WordSize

LEMMA WordIs ==
    \A w : w \in Word <=> w \in Int /\ 0 <= w /\ w < WordSize
<1>1. WordSize \in Int
  BY WordSizeIs, SMT
<1>2. QED BY <1>1, Intervals, Zenon DEF Word

\* The operations stay in the words; addresses wrap.
LEMMA PlusWord ==
    ASSUME NEW a \in Word, NEW b \in Word PROVE Plus(a, b) \in Word
<1>1. a \in Int /\ b \in Int
  BY WordIs
<1>2. Plus(a, b) \in Int /\ 0 <= Plus(a, b) /\ Plus(a, b) < WordSize
  BY <1>1, WordSizeIs, SMT DEF Plus
<1>3. QED BY <1>2, WordIs

\* One back and one ahead cancel, through the wrap.
LEMMA Back ==
    ASSUME NEW w \in Word
    PROVE  /\ Before(Plus(w, 1)) = w
           /\ Plus(Before(w), 1) = w
           /\ Plus(w, 0) = w
<1>1. w \in Int /\ 0 <= w /\ w < WordSize
  BY WordIs
<1>2. QED BY <1>1, WordSizeIs, SMT DEF Plus, Before

LEMMA NotWord ==
    ASSUME NEW w \in Word PROVE Not(w) \in Word
<1>1. w \in Int /\ 0 <= w /\ w < WordSize
  BY WordIs
<1>2. Not(w) \in Int /\ 0 <= Not(w) /\ Not(w) < WordSize
  BY <1>1, WordSizeIs, SMT DEF Not
<1>3. QED BY <1>2, WordIs

\* Sign extension of a field.
LEMMA SextWord ==
    ASSUME NEW w \in Word, NEW k \in Nat, 0 < k, 2 * k <= WordSize
    PROVE  Sext(w, k) \in Word
<1>1. w \in Int /\ 0 <= w /\ w < WordSize
  BY WordIs
<1>2. w % (2 * k) \in Int /\ 0 <= w % (2 * k) /\ w % (2 * k) < 2 * k
  BY <1>1, SMT
<1>3. Sext(w, k) \in Int /\ 0 <= Sext(w, k) /\ Sext(w, k) < WordSize
  BY <1>1, <1>2, WordSizeIs, SMT DEF Sext
<1>4. QED BY <1>3, WordIs

LEMMA Offsets ==
    ASSUME NEW w \in Word
    PROVE  /\ Imm5(w) \in Word /\ Off6(w) \in Word
           /\ Off9(w) \in Word /\ Off11(w) \in Word
<1>1. /\ 2 * 16 <= WordSize /\ 2 * 32 <= WordSize
      /\ 2 * 256 <= WordSize /\ 2 * 1024 <= WordSize
  BY WordSizeIs, SMT
<1>2. 16 \in Nat /\ 32 \in Nat /\ 256 \in Nat /\ 1024 \in Nat
  BY SMT
<1>3. 0 < 16 /\ 0 < 32 /\ 0 < 256 /\ 0 < 1024
  BY SMT
<1>4. QED BY <1>1, <1>2, <1>3, SextWord, SMT DEF Imm5, Off6, Off9, Off11

\* Fields select registers.
LEMMA Fields ==
    ASSUME NEW w \in Word
    PROVE  /\ DR(w) \in 0 .. 7 /\ SR1(w) \in 0 .. 7
           /\ SR2(w) \in 0 .. 7 /\ Link(w) \in 0 .. 7
<1>1. w \in Int
  BY WordIs
<1>2. DR(w) \in 0 .. 7
  BY <1>1, SMT DEF DR
<1>3. SR1(w) \in 0 .. 7
  BY <1>1, SMT DEF SR1
<1>4. SR2(w) \in 0 .. 7
  BY <1>1, SMT DEF SR2
<1>5. QED BY <1>2, <1>3, <1>4 DEF Link

LEMMA BitRange ==
    ASSUME NEW w \in Int, NEW k \in Int, k > 0
    PROVE  Bit(w, k) \in {0, 1}
<1>1. w \div k \in Int OBVIOUS
<1>2. QED BY <1>1, SMT DEF Bit

\* The sum over the bits that both bytes have.
LEMMA AndByteRange ==
    ASSUME NEW a \in Int, NEW b \in Int
    PROVE  AndByte(a, b) \in Int /\ 0 <= AndByte(a, b) /\ AndByte(a, b) <= 255
<1> DEFINE both(weight) == weight * Bit(a, weight) * Bit(b, weight)
<1>1. ASSUME NEW k \in Int, k > 0
      PROVE  both(k) \in Int /\ 0 <= both(k) /\ both(k) <= k
  <2>1. Bit(a, k) \in {0, 1} /\ Bit(b, k) \in {0, 1}
    BY <1>1, BitRange
  <2> QED BY <1>1, <2>1
<1> HIDE DEF both
<1>2. AndByte(a, b) = both(1) + both(2) + both(4) + both(8)
                      + both(16) + both(32) + both(64) + both(128)
  BY Zenon DEF AndByte, both
<1>3. /\ both(1) \in Int /\ 0 <= both(1) /\ both(1) <= 1
      /\ both(2) \in Int /\ 0 <= both(2) /\ both(2) <= 2
      /\ both(4) \in Int /\ 0 <= both(4) /\ both(4) <= 4
      /\ both(8) \in Int /\ 0 <= both(8) /\ both(8) <= 8
      /\ both(16) \in Int /\ 0 <= both(16) /\ both(16) <= 16
      /\ both(32) \in Int /\ 0 <= both(32) /\ both(32) <= 32
      /\ both(64) \in Int /\ 0 <= both(64) /\ both(64) <= 64
      /\ both(128) \in Int /\ 0 <= both(128) /\ both(128) <= 128
  BY <1>1, SMT
<1> QED BY <1>2, <1>3, SMT

LEMMA AndWord ==
    ASSUME NEW a \in Word, NEW b \in Word PROVE And(a, b) \in Word
<1>1. a \in Int /\ b \in Int
  BY WordIs
<1>2. /\ a \div 256 \in Int /\ b \div 256 \in Int
      /\ a % 256 \in Int /\ b % 256 \in Int
  BY <1>1, SMT
<1>3. /\ AndByte(a \div 256, b \div 256) \in Int
      /\ 0 <= AndByte(a \div 256, b \div 256)
      /\ AndByte(a \div 256, b \div 256) <= 255
  BY <1>2, AndByteRange
<1>4. /\ AndByte(a % 256, b % 256) \in Int
      /\ 0 <= AndByte(a % 256, b % 256)
      /\ AndByte(a % 256, b % 256) <= 255
  BY <1>2, AndByteRange
<1>5. And(a, b) \in Int /\ 0 <= And(a, b) /\ And(a, b) < WordSize
  BY <1>3, <1>4, WordSizeIs, SMT DEF And
<1>6. QED BY <1>5, WordIs

\* What And computes: the bits that both words have, first of a byte.
Weights == {1, 2, 4, 8, 16, 32, 64, 128}

LEMMA AndByteBits ==
    ASSUME NEW a \in Int, NEW b \in Int, NEW k \in Weights
    PROVE  Bit(AndByte(a, b), k) = Bit(a, k) * Bit(b, k)
<1> DEFINE c(weight) == Bit(a, weight) * Bit(b, weight)
           s == AndByte(a, b)
<1>1. ASSUME NEW w \in Int, w > 0
      PROVE  c(w) \in {0, 1} /\ w * Bit(a, w) * Bit(b, w) = w * c(w)
  <2>1. Bit(a, w) \in {0, 1} /\ Bit(b, w) \in {0, 1}
    BY <1>1, BitRange
  <2>2. QED BY <1>1, <2>1
<1> HIDE DEF c
<1>2. s = c(1) + 2 * c(2) + 4 * c(4) + 8 * c(8)
          + 16 * c(16) + 32 * c(32) + 64 * c(64) + 128 * c(128)
  BY <1>1, SMT DEF AndByte
<1>3. /\ c(1) \in {0, 1} /\ c(2) \in {0, 1} /\ c(4) \in {0, 1}
      /\ c(8) \in {0, 1} /\ c(16) \in {0, 1} /\ c(32) \in {0, 1}
      /\ c(64) \in {0, 1} /\ c(128) \in {0, 1}
  BY <1>1, SMT
<1> HIDE DEF s
<1>4. (s \div 1) % 2 = c(1)
  <2>1. s \div 1 = s
    BY <1>2, <1>3, SMT
  <2>2. QED BY <1>2, <1>3, <2>1, SMT
<1>5. (s \div 2) % 2 = c(2)
  <2>1. s \div 2 = c(2) + 2 * c(4) + 4 * c(8) + 8 * c(16) + 16 * c(32)
                   + 32 * c(64) + 64 * c(128)
    BY <1>2, <1>3, SMT
  <2>2. QED BY <1>3, <2>1, SMT
<1>6. (s \div 4) % 2 = c(4)
  <2>1. s \div 4 = c(4) + 2 * c(8) + 4 * c(16) + 8 * c(32) + 16 * c(64)
                   + 32 * c(128)
    BY <1>2, <1>3, SMT
  <2>2. QED BY <1>3, <2>1, SMT
<1>7. (s \div 8) % 2 = c(8)
  <2>1. s \div 8 = c(8) + 2 * c(16) + 4 * c(32) + 8 * c(64) + 16 * c(128)
    BY <1>2, <1>3, SMT
  <2>2. QED BY <1>3, <2>1, SMT
<1>8. (s \div 16) % 2 = c(16)
  <2>1. s \div 16 = c(16) + 2 * c(32) + 4 * c(64) + 8 * c(128)
    BY <1>2, <1>3, SMT
  <2>2. QED BY <1>3, <2>1, SMT
<1>9. (s \div 32) % 2 = c(32)
  <2>1. s \div 32 = c(32) + 2 * c(64) + 4 * c(128)
    BY <1>2, <1>3, SMT
  <2>2. QED BY <1>3, <2>1, SMT
<1>10. (s \div 64) % 2 = c(64)
  <2>1. s \div 64 = c(64) + 2 * c(128)
    BY <1>2, <1>3, SMT
  <2>2. QED BY <1>3, <2>1, SMT
<1>11. (s \div 128) % 2 = c(128)
  <2>1. s \div 128 = c(128)
    BY <1>2, <1>3, SMT
  <2>2. QED BY <1>3, <2>1, SMT
<1>12. QED BY <1>4, <1>5, <1>6, <1>7, <1>8, <1>9, <1>10, <1>11, SMT
           DEF Bit, Weights, c, s

\* The bits of a word are those of its bytes.
LEMMA BitsOfBytes ==
    ASSUME NEW h \in Int, NEW l \in Int, 0 <= l, l < 256, NEW k \in Weights
    PROVE  /\ Bit(256 * h + l, k) = Bit(l, k)
           /\ Bit(256 * h + l, 256 * k) = Bit(h, k)
<1>1. CASE k = 1
  <2>1. /\ (256 * h + l) \div 1 = 256 * h + (l \div 1)
        /\ (256 * h + l) \div 256 = h \div 1
    BY SMT
  <2>2. QED BY <1>1, <2>1, SMT DEF Bit
<1>2. CASE k = 2
  <2>1. /\ (256 * h + l) \div 2 = 128 * h + (l \div 2)
        /\ (256 * h + l) \div 512 = h \div 2
    BY SMT
  <2>2. QED BY <1>2, <2>1, SMT DEF Bit
<1>3. CASE k = 4
  <2>1. /\ (256 * h + l) \div 4 = 64 * h + (l \div 4)
        /\ (256 * h + l) \div 1024 = h \div 4
    BY SMT
  <2>2. QED BY <1>3, <2>1, SMT DEF Bit
<1>4. CASE k = 8
  <2>1. /\ (256 * h + l) \div 8 = 32 * h + (l \div 8)
        /\ (256 * h + l) \div 2048 = h \div 8
    BY SMT
  <2>2. QED BY <1>4, <2>1, SMT DEF Bit
<1>5. CASE k = 16
  <2>1. /\ (256 * h + l) \div 16 = 16 * h + (l \div 16)
        /\ (256 * h + l) \div 4096 = h \div 16
    BY SMT
  <2>2. QED BY <1>5, <2>1, SMT DEF Bit
<1>6. CASE k = 32
  <2>1. /\ (256 * h + l) \div 32 = 8 * h + (l \div 32)
        /\ (256 * h + l) \div 8192 = h \div 32
    BY SMT
  <2>2. QED BY <1>6, <2>1, SMT DEF Bit
<1>7. CASE k = 64
  <2>1. /\ (256 * h + l) \div 64 = 4 * h + (l \div 64)
        /\ (256 * h + l) \div 16384 = h \div 64
    BY SMT
  <2>2. QED BY <1>7, <2>1, SMT DEF Bit
<1>8. CASE k = 128
  <2>1. /\ (256 * h + l) \div 128 = 2 * h + (l \div 128)
        /\ (256 * h + l) \div 32768 = h \div 128
    BY SMT
  <2>2. QED BY <1>8, <2>1, SMT DEF Bit
<1>9. QED BY <1>1, <1>2, <1>3, <1>4, <1>5, <1>6, <1>7, <1>8 DEF Weights

LEMMA WordBits ==
    ASSUME NEW w \in Int, NEW k \in Weights
    PROVE  /\ Bit(w % 256, k) = Bit(w, k)
           /\ Bit(w \div 256, k) = Bit(w, 256 * k)
<1> DEFINE h == w \div 256
           l == w % 256
<1>1. h \in Int /\ l \in Int /\ 0 <= l /\ l < 256 /\ w = 256 * h + l
  BY SMT
<1> HIDE DEF h, l
<1>2. /\ Bit(256 * h + l, k) = Bit(l, k)
      /\ Bit(256 * h + l, 256 * k) = Bit(h, k)
  BY <1>1, BitsOfBytes
<1>3. Bit(w, k) = Bit(l, k) /\ Bit(w, 256 * k) = Bit(h, k)
  BY <1>1, <1>2, Zenon
<1>4. QED BY <1>3, Zenon DEF h, l

LEMMA AndBits ==
    ASSUME NEW a \in Int, NEW b \in Int, NEW k \in Weights
    PROVE  /\ Bit(And(a, b), k) = Bit(a, k) * Bit(b, k)
           /\ Bit(And(a, b), 256 * k) = Bit(a, 256 * k) * Bit(b, 256 * k)
<1> DEFINE H == AndByte(a \div 256, b \div 256)
           L == AndByte(a % 256, b % 256)
<1>1. /\ a \div 256 \in Int /\ b \div 256 \in Int
      /\ a % 256 \in Int /\ b % 256 \in Int
  BY SMT
<1>2. H \in Int /\ L \in Int /\ 0 <= L /\ L < 256
  <2>1. H \in Int /\ L \in Int /\ 0 <= L /\ L <= 255
    BY <1>1, AndByteRange
  <2> HIDE DEF H, L
  <2>2. QED BY <2>1, SMT
<1>3. Bit(L, k) = Bit(a % 256, k) * Bit(b % 256, k)
  BY <1>1, AndByteBits
<1>4. Bit(H, k) = Bit(a \div 256, k) * Bit(b \div 256, k)
  BY <1>1, AndByteBits
<1>5. And(a, b) = 256 * H + L
  BY DEF And
<1> HIDE DEF H, L
<1>6. /\ Bit(256 * H + L, k) = Bit(L, k)
      /\ Bit(256 * H + L, 256 * k) = Bit(H, k)
  BY <1>2, BitsOfBytes
<1>7. Bit(And(a, b), k) = Bit(L, k) /\ Bit(And(a, b), 256 * k) = Bit(H, k)
  BY <1>5, <1>6
<1>8. Bit(a % 256, k) = Bit(a, k) /\ Bit(b % 256, k) = Bit(b, k)
  BY WordBits
<1>9. /\ Bit(a \div 256, k) = Bit(a, 256 * k)
      /\ Bit(b \div 256, k) = Bit(b, 256 * k)
  BY WordBits
<1>10. QED BY <1>3, <1>4, <1>7, <1>8, <1>9

\* SLC3 and SLC3Isa share the definition of And: the result has the bits that
\* are set in both words, as that of ALU.sv 9 has.
THEOREM AndIsBitwise ==
    ASSUME NEW a \in Word, NEW b \in Word,
           NEW k \in Weights \cup {256 * w : w \in Weights}
    PROVE  /\ And(a, b) \in Word
           /\ Bit(And(a, b), k) = 1 <=> Bit(a, k) = 1 /\ Bit(b, k) = 1
<1>1. a \in Int /\ b \in Int
  BY WordIs
<1>2. PICK w \in Weights : k = w \/ k = 256 * w
  OBVIOUS
<1>3. Bit(And(a, b), k) = Bit(a, k) * Bit(b, k)
  BY <1>1, <1>2, AndBits
<1>4. Bit(a, k) \in {0, 1} /\ Bit(b, k) \in {0, 1}
  <2>1. k \in Int /\ k > 0
    BY <1>2 DEF Weights
  <2>2. QED BY <1>1, <2>1, BitRange
<1>5. QED BY <1>3, <1>4, AndWord

-----------------------------------------------------------------------------
(* The inductive invariant.                                                *)

\* The words before address have been loaded.
Loading == loader = "mem_write" =>
               /\ address <= Last
               /\ \A a \in 0 .. address - 1 : ram[a] = Image[a]

\* A program that has been started is lost or has been loaded.
Started == State # "Halted" /\ ~early => loader # "mem_write"

\* Nothing has happened since the reset.
Waiting == State = "Halted" /\ ~early =>
               PC = 0 /\ R = Zeros /\ NZP = "none" /\ hex_data = 0

\* Word w has been read from address a.
ReadFrom(w, a) == IF a = InOut THEN w \in Inputs ELSE w = ram[a % Size]

\* The fetch: the address, and what the memory has answered so far.
Fetching ==
    /\ State \in {"S_33_1", "S_33_2", "S_33_3", "S_35"} => MAR = Before(PC)
    /\ State \in {"S_33_2", "S_25_2"} => latch = ram[MAR % Size]
    /\ State \in {"S_33_3", "S_25_3"} => q = ram[MAR % Size]
    /\ State = "S_35" => ReadFrom(MDR, MAR)
    /\ State \in Pending \ {"S_33_1", "S_33_2", "S_33_3", "S_35"} =>
           ReadFrom(IR, Before(PC))

Base == Plus(R[SR1(IR)], Off6(IR))

\* The states of an instruction are those of its opcode, and its address and
\* its data are in their registers.
Executing ==
    /\ State = "S_01" => Opcode(IR) = op_ADD
    /\ State = "S_05" => Opcode(IR) = op_AND
    /\ State = "S_09" => Opcode(IR) = op_NOT
    /\ State \in {"S_06", "S_25_1", "S_25_2", "S_25_3"} => Opcode(IR) = op_LDR
    /\ State \in {"S_07", "S_23", "S_16_1"} => Opcode(IR) = op_STR
    /\ State = "S_04" => Opcode(IR) = op_JSR
    /\ State = "S_12" => Opcode(IR) = op_JMP
    /\ State = "S_00" => Opcode(IR) = op_BR /\ BEN = (NZP \in Nzp(IR))
    /\ State \in {"S_25_1", "S_25_2", "S_25_3", "S_23", "S_16_1"} => MAR = Base
    /\ State = "S_16_1" => MDR = R[DR(IR)]
    /\ State \in {"S_16_2", "S_16_3"} =>
           /\ ram[MAR % Size] = MDR
           /\ MAR = InOut => hex_data = MDR

Typed == TypeOK /\ SW \in Inputs

IInv == /\ Typed /\ Loading /\ Started /\ Waiting
        /\ ~early => Fetching /\ Executing

-----------------------------------------------------------------------------
(* What a clock does in each state.                                        *)

\* States in which no register of the data path loads.
LEMMA Wait ==
    ASSUME Clock, ~Reset, State \in {"Halted", "PauseIR2", "S_00"}
    PROVE  UNCHANGED <<PC, IR, MAR, MDR, R, NZP, BEN>>
<1>1. Control[State] = {}
  BY DEF Control
<1>2. QED BY <1>1 DEF Clock, Datapath, Loads, High

LEMMA WaitPause ==
    ASSUME Clock, ~Reset, State = "PauseIR1"
    PROVE  UNCHANGED <<PC, IR, MAR, MDR, R, NZP, BEN>>
<1>1. Control[State] = {"LD_LED"}
  BY DEF Control
<1>2. QED BY <1>1 DEF Clock, Datapath, Loads, High

LEMMA WaitRead ==
    ASSUME Clock, ~Reset, State \in {"S_33_1", "S_33_2", "S_25_1", "S_25_2"}
    PROVE  UNCHANGED <<PC, IR, MAR, MDR, R, NZP, BEN>>
<1>1. Control[State] = {"Mem_OE"}
  BY DEF Control
<1>2. QED BY <1>1 DEF Clock, Datapath, Loads, High

LEMMA WaitWrite ==
    ASSUME Clock, ~Reset, State \in {"S_16_1", "S_16_2", "S_16_3"}
    PROVE  UNCHANGED <<PC, IR, MAR, MDR, R, NZP, BEN>>
<1>1. Control[State] = {"Mem_WE"}
  BY DEF Control
<1>2. QED BY <1>1 DEF Clock, Datapath, Loads, High

\* The fetch and the decode.
LEMMA AddressFetch ==
    ASSUME Clock, ~Reset, State = "S_18"
    PROVE  /\ MAR' = PC
           /\ PC' = Plus(PC, 1)
           /\ UNCHANGED <<IR, MDR, R, NZP, BEN>>
<1>1. Control[State] = {"GatePC", "LD_MAR", "LD_PC"}
  BY DEF Control
<1>2. QED BY <1>1 DEF Clock, Datapath, Loads, High, Bus

LEMMA LoadMdr ==
    ASSUME Clock, ~Reset, State \in {"S_33_3", "S_25_3"}
    PROVE  /\ MDR' = IF MAR = InOut THEN SW ELSE q
           /\ UNCHANGED <<PC, IR, MAR, R, NZP, BEN>>
<1>1. Control[State] = {"Mem_OE", "LD_MDR"}
  BY DEF Control
<1>2. QED BY <1>1 DEF Clock, Datapath, Loads, High, Data_to_CPU

LEMMA LoadIr ==
    ASSUME Clock, ~Reset, State = "S_35"
    PROVE  /\ IR' = MDR
           /\ UNCHANGED <<PC, MAR, MDR, R, NZP, BEN>>
<1>1. Control[State] = {"GateMDR", "LD_IR"}
  BY DEF Control
<1>2. QED BY <1>1 DEF Clock, Datapath, Loads, High, Bus

LEMMA LoadBen ==
    ASSUME Clock, ~Reset, State = "S_32"
    PROVE  /\ BEN' = (NZP \in Nzp(IR))
           /\ UNCHANGED <<PC, IR, MAR, MDR, R, NZP>>
<1>1. Control[State] = {"LD_BEN"}
  BY DEF Control
<1>2. QED BY <1>1 DEF Clock, Datapath, Loads, High

\* The operations.
LEMMA AddStep ==
    ASSUME Clock, ~Reset, State = "S_01"
    PROVE  /\ R' = [R EXCEPT ![DR(IR)] = Plus(R[SR1(IR)], Operand(IR, R))]
           /\ NZP' = Cond(Plus(R[SR1(IR)], Operand(IR, R)))
           /\ UNCHANGED <<PC, IR, MAR, MDR, BEN>>
<1>1. Control[State] = {"GateALU", "SR1MUX", "LD_REG", "LD_CC"}
  BY DEF Control
<1>2. QED BY <1>1 DEF Clock, Datapath, Loads, High, Bus, ALU, SR1_Out,
                        Destination

LEMMA AndStep ==
    ASSUME Clock, ~Reset, State = "S_05"
    PROVE  /\ R' = [R EXCEPT ![DR(IR)] = And(R[SR1(IR)], Operand(IR, R))]
           /\ NZP' = Cond(And(R[SR1(IR)], Operand(IR, R)))
           /\ UNCHANGED <<PC, IR, MAR, MDR, BEN>>
<1>1. Control[State] = {"GateALU", "SR1MUX", "LD_REG", "LD_CC", "ALUK_and"}
  BY DEF Control
<1>2. QED BY <1>1 DEF Clock, Datapath, Loads, High, Bus, ALU, SR1_Out,
                        Destination

LEMMA NotStep ==
    ASSUME Clock, ~Reset, State = "S_09"
    PROVE  /\ R' = [R EXCEPT ![DR(IR)] = Not(R[SR1(IR)])]
           /\ NZP' = Cond(Not(R[SR1(IR)]))
           /\ UNCHANGED <<PC, IR, MAR, MDR, BEN>>
<1>1. Control[State] = {"GateALU", "SR1MUX", "LD_REG", "LD_CC", "ALUK_not"}
  BY DEF Control
<1>2. QED BY <1>1 DEF Clock, Datapath, Loads, High, Bus, ALU, SR1_Out,
                        Destination

\* Loads and stores.
LEMMA AddressData ==
    ASSUME Clock, ~Reset, State \in {"S_06", "S_07"}
    PROVE  /\ MAR' = Base
           /\ UNCHANGED <<PC, IR, MDR, R, NZP, BEN>>
<1>1. Control[State] = {"GateMARMUX", "SR1MUX", "ADDR1MUX", "ADDR2MUX_6",
                        "LD_MAR"}
  BY DEF Control
<1>2. QED BY <1>1 DEF Clock, Datapath, Loads, High, Bus, Adder, SR1_Out,
                        Base

LEMMA LoadStep ==
    ASSUME Clock, ~Reset, State = "S_27"
    PROVE  /\ R' = [R EXCEPT ![DR(IR)] = MDR]
           /\ NZP' = Cond(MDR)
           /\ UNCHANGED <<PC, IR, MAR, MDR, BEN>>
<1>1. Control[State] = {"GateMDR", "LD_REG", "LD_CC"}
  BY DEF Control
<1>2. QED BY <1>1 DEF Clock, Datapath, Loads, High, Bus, Destination

LEMMA DataStep ==
    ASSUME Clock, ~Reset, State = "S_23"
    PROVE  /\ MDR' = R[DR(IR)]
           /\ UNCHANGED <<PC, IR, MAR, R, NZP, BEN>>
<1>1. Control[State] = {"GateALU", "ALUK_pass", "LD_MDR"}
  BY DEF Control
<1>2. QED BY <1>1 DEF Clock, Datapath, Loads, High, Bus, ALU, SR1_Out

\* The transfers of control.
LEMMA LinkStep ==
    ASSUME Clock, ~Reset, State = "S_04"
    PROVE  /\ R' = [R EXCEPT ![Link(IR)] = PC]
           /\ UNCHANGED <<PC, IR, MAR, MDR, NZP, BEN>>
<1>1. Control[State] = {"GatePC", "LD_REG", "DRMUX"}
  BY DEF Control
<1>2. QED BY <1>1 DEF Clock, Datapath, Loads, High, Bus, Destination

LEMMA CallStep ==
    ASSUME Clock, ~Reset, State = "S_21"
    PROVE  /\ PC' = Plus(PC, Off11(IR))
           /\ UNCHANGED <<IR, MAR, MDR, R, NZP, BEN>>
<1>1. Control[State] = {"PCMUX_adder", "ADDR2MUX_11", "LD_PC"}
  BY DEF Control
<1>2. QED BY <1>1 DEF Clock, Datapath, Loads, High, Adder

LEMMA JumpStep ==
    ASSUME Clock, ~Reset, State = "S_12"
    PROVE  /\ PC' = Plus(R[SR1(IR)], 0)
           /\ UNCHANGED <<IR, MAR, MDR, R, NZP, BEN>>
<1>1. Control[State] = {"PCMUX_adder", "SR1MUX", "ADDR1MUX", "LD_PC"}
  BY DEF Control
<1>2. QED BY <1>1 DEF Clock, Datapath, Loads, High, Adder, SR1_Out

LEMMA BranchStep ==
    ASSUME Clock, ~Reset, State = "S_22"
    PROVE  /\ PC' = Plus(PC, Off9(IR))
           /\ UNCHANGED <<IR, MAR, MDR, R, NZP, BEN>>
<1>1. Control[State] = {"PCMUX_adder", "ADDR2MUX_9", "LD_PC"}
  BY DEF Control
<1>2. QED BY <1>1 DEF Clock, Datapath, Loads, High, Adder

\* The state that follows each.
LEMMA NextStates ==
    ASSUME Clock, ~Reset
    PROVE  /\ State = "Halted" => State' = IF Run THEN "S_18" ELSE "Halted"
           /\ State = "PauseIR1" =>
                  State' = IF Continue THEN "PauseIR2" ELSE "PauseIR1"
           /\ State = "PauseIR2" =>
                  State' = IF Continue THEN "PauseIR2" ELSE "S_18"
           /\ State = "S_32" => State' = Decoded
           /\ State = "S_00" => State' = IF BEN THEN "S_22" ELSE "S_18"
           /\ State \in DOMAIN Successor => State' = Successor[State]
           /\ State \in {"S_01", "S_05", "S_09", "S_27", "S_16_3", "S_21",
                         "S_12", "S_22"} => State' = "S_18"
BY DEF Clock, Next_state, Successor

LEMMA Successors ==
    ASSUME Clock, ~Reset
    PROVE  /\ State = "S_18" => State' = "S_33_1"
           /\ State = "S_33_1" => State' = "S_33_2"
           /\ State = "S_33_2" => State' = "S_33_3"
           /\ State = "S_33_3" => State' = "S_35"
           /\ State = "S_35" => State' = "S_32"
           /\ State = "S_06" => State' = "S_25_1"
           /\ State = "S_25_1" => State' = "S_25_2"
           /\ State = "S_25_2" => State' = "S_25_3"
           /\ State = "S_25_3" => State' = "S_27"
           /\ State = "S_07" => State' = "S_23"
           /\ State = "S_23" => State' = "S_16_1"
           /\ State = "S_16_1" => State' = "S_16_2"
           /\ State = "S_16_2" => State' = "S_16_3"
           /\ State = "S_04" => State' = "S_21"
BY NextStates DEF Successor

States == {"Halted", "PauseIR1", "PauseIR2", "S_18", "S_33_1", "S_33_2",
           "S_33_3", "S_35", "S_32", "S_01", "S_05", "S_09", "S_06", "S_25_1",
           "S_25_2", "S_25_3", "S_27", "S_07", "S_23", "S_16_1", "S_16_2",
           "S_16_3", "S_04", "S_21", "S_12", "S_00", "S_22"}

LEMMA StatesAre == DOMAIN Control = States
BY DEF Control, States

\* The states in which the memory is read and written.
LEMMA ReadStates ==
    ASSUME State \in States
    PROVE  High("Mem_OE") <=> State \in {"S_33_1", "S_33_2", "S_33_3",
                                        "S_25_1", "S_25_2", "S_25_3"}
BY DEF Control, High, States

LEMMA WriteStates ==
    ASSUME State \in States
    PROVE  High("Mem_WE") <=> State \in {"S_16_1", "S_16_2", "S_16_3"}
BY DEF Control, High, States

\* Between loading and the next reset only a store writes to memory.
LEMMA MemoryStep ==
    ASSUME Clock, ~Reset, loader # "mem_write", State \in States
    PROVE  /\ q' = latch
           /\ State \in {"S_33_1", "S_33_2", "S_33_3", "S_25_1", "S_25_2",
                        "S_25_3"} => latch' = ram[MAR % Size]
           /\ State \notin {"S_16_1", "S_16_2", "S_16_3"} =>
                  ram' = ram /\ hex_data' = hex_data
           /\ State \in {"S_16_1", "S_16_2", "S_16_3"} =>
                  /\ ram' = [ram EXCEPT ![MAR % Size] = MDR]
                  /\ hex_data' = IF MAR = InOut THEN MDR ELSE hex_data
<1>1. ~we_select
  BY DEF we_select
<1>2. q' = latch
  BY DEF Clock, Access
<1>3. ASSUME State \in {"S_33_1", "S_33_2", "S_33_3", "S_25_1", "S_25_2",
                       "S_25_3"}
      PROVE  latch' = ram[MAR % Size]
  <2>1. High("Mem_OE") /\ ~High("Mem_WE")
    BY <1>3, ReadStates, WriteStates
  <2>2. QED BY <1>1, <2>1 DEF Clock, Access
<1>4. ASSUME State \notin {"S_16_1", "S_16_2", "S_16_3"}
      PROVE  ram' = ram /\ hex_data' = hex_data
  <2>1. ~High("Mem_WE")
    BY <1>4, WriteStates
  <2>2. QED BY <1>1, <2>1 DEF Clock, Access, Display
<1>5. ASSUME State \in {"S_16_1", "S_16_2", "S_16_3"}
      PROVE  /\ ram' = [ram EXCEPT ![MAR % Size] = MDR]
             /\ hex_data' = IF MAR = InOut THEN MDR ELSE hex_data
  <2>1. High("Mem_WE")
    BY <1>5, WriteStates
  <2>2. QED BY <1>1, <2>1 DEF Clock, Access, Display
<1>6. QED BY <1>2, <1>3, <1>4, <1>5

-----------------------------------------------------------------------------
(* Types.                                                                  *)

LEMMA WordTypes ==
    ASSUME TypeOK
    PROVE  /\ PC \in Word /\ IR \in Word /\ MAR \in Word /\ MDR \in Word
           /\ hex_data \in Word /\ latch \in Word /\ q \in Word /\ SW \in Word
           /\ R \in [0 .. 7 -> Word] /\ ram \in [0 .. Size - 1 -> Word]
           /\ State \in States
BY StatesAre DEF TypeOK

LEMMA CellIsCell ==
    ASSUME NEW a \in Word PROVE a % Size \in 0 .. Size - 1
<1>1. a \in Int
  BY WordIs
<1>2. QED BY <1>1, SizeAssumption

\* What the data path computes are words.
LEMMA BusWord ==
    ASSUME TypeOK PROVE Bus \in Word /\ Adder \in Word /\ Data_to_CPU \in Word
<1>1. SR1_Out \in Word /\ Operand(IR, R) \in Word
  BY WordTypes, Fields, Offsets DEF SR1_Out, Operand
<1>2. 0 \in Word
  BY WordIs, WordSizeIs
<1>3. ALU \in Word
  BY <1>1, PlusWord, AndWord, NotWord DEF ALU
<1>4. Adder \in Word
  BY <1>1, <1>2, WordTypes, Offsets, PlusWord DEF Adder
<1>5. Bus \in Word
  BY <1>2, <1>3, <1>4, WordTypes DEF Bus
<1>6. Data_to_CPU \in Word
  BY <1>2, WordTypes DEF Data_to_CPU
<1>7. QED BY <1>4, <1>5, <1>6

LEMMA StateType ==
    ASSUME TypeOK, Clock PROVE State' \in DOMAIN Control
<1>1. State \in States
  BY WordTypes
<1>2. CASE Reset
  BY <1>2, StatesAre DEF Clock, States
<1>3. CASE ~Reset
  <2>1. Decoded \in States
    BY DEF Decoded, States
  <2>2. QED BY <1>1, <1>3, <2>1, NextStates, Successors, StatesAre DEF States
<1>4. QED BY <1>2, <1>3

LEMMA DatapathTypes ==
    ASSUME TypeOK, Clock
    PROVE  /\ PC' \in Word /\ IR' \in Word /\ MAR' \in Word /\ MDR' \in Word
           /\ R' \in [0 .. 7 -> Word] /\ NZP' \in {"none", "n", "z", "p"}
           /\ BEN' \in BOOLEAN /\ hex_data' \in Word /\ LED' \in 0 .. 1023
<1>1. 0 \in Word /\ 1 \in Word
  BY WordIs, WordSizeIs
<1>2. Bus \in Word /\ Adder \in Word /\ Data_to_CPU \in Word
  BY BusWord
<1>3. Destination \in 0 .. 7
  BY WordTypes, Fields DEF Destination
<1>4. PC' \in Word
  BY <1>1, <1>2, WordTypes, PlusWord DEF Clock, Datapath, Loads
<1>5. IR' \in Word /\ MAR' \in Word /\ MDR' \in Word
  BY <1>1, <1>2, WordTypes DEF Clock, Datapath, Loads
<1>6. R' \in [0 .. 7 -> Word]
  BY <1>1, <1>2, <1>3, WordTypes DEF Clock, Datapath, Loads, Zeros
<1>7. NZP' \in {"none", "n", "z", "p"}
  BY DEF TypeOK, Clock, Datapath, Loads, Cond
<1>8. BEN' \in BOOLEAN
  <2>1. BEN \in BOOLEAN /\ (NZP \in Nzp(IR)) \in BOOLEAN
    BY DEF TypeOK
  <2>2. \/ BEN' = FALSE
        \/ BEN' = BEN
        \/ BEN' = (NZP \in Nzp(IR))
    BY Zenon DEF Clock, Datapath, Loads
  <2>3. QED BY <2>1, <2>2, Zenon
<1>9. hex_data' \in Word
  BY <1>1, WordTypes DEF Clock, Display
<1>10. LED' \in 0 .. 1023
  <2> DEFINE Leds == 0 .. 1023
  <2>1. IR \in Int
    BY WordTypes, WordIs
  <2>2. IR % 1024 \in Leds /\ 0 \in Leds
    BY <2>1, SMT
  <2>3. LED' \in {IR % 1024, 0}
    BY DEF Clock, Display
  <2> HIDE DEF Leds
  <2>4. LED' \in Leds
    BY <2>2, <2>3
  <2>5. QED BY <2>4 DEF Leds
<1>11. QED BY <1>4, <1>5, <1>6, <1>7, <1>8, <1>9, <1>10

LEMMA MemoryTypes ==
    ASSUME TypeOK, Loading, Clock
    PROVE  /\ ram' \in [0 .. Size - 1 -> Word]
           /\ latch' \in Word /\ q' \in Word
           /\ loader' \in {"mem_write", "done", "idle"}
           /\ address' \in 0 .. Last + 1
<1>1. we_select => init_ADDR \in 0 .. Last
  BY SizeAssumption DEF we_select, init_ADDR, TypeOK, Loading
<1>2. DEFINE a == IF we_select THEN init_ADDR ELSE MAR % Size
             data == IF we_select THEN Image[init_ADDR] ELSE MDR
<1>3. a \in 0 .. Size - 1
  <2>1. CASE we_select
    BY <1>1, <2>1, SizeAssumption
  <2>2. CASE ~we_select
    BY <2>2, WordTypes, CellIsCell
  <2>3. QED BY <2>1, <2>2
<1>4. data \in Word
  BY <1>1, WordTypes, SizeAssumption
<1>5. /\ ram' \in {ram, [ram EXCEPT ![a] = data]}
      /\ latch' \in {latch, ram[a], data}
  BY DEF Clock, Access
<1> HIDE DEF a, data
<1>6. ram' \in [0 .. Size - 1 -> Word] /\ latch' \in Word
  BY <1>3, <1>4, <1>5, WordTypes
<1>7. q' \in Word
  BY WordTypes DEF Clock, Access
<1>8. loader' \in {"mem_write", "done", "idle"}
  BY DEF Clock, Loader
<1>9. address' \in 0 .. Last + 1
  BY SizeAssumption DEF Clock, Loader, TypeOK, Loading
<1>10. QED BY <1>6, <1>7, <1>8, <1>9

LEMMA ClockTypes ==
    ASSUME Typed, Loading, Clock PROVE Typed'
<1>1. TypeOK
  BY DEF Typed
<1>2. /\ Run' \in BOOLEAN /\ Continue' \in BOOLEAN /\ SW' = SW
      /\ early' \in BOOLEAN
  BY <1>1 DEF TypeOK, Clock
<1>3. QED BY <1>1, <1>2, StateType, DatapathTypes, MemoryTypes DEF Typed, TypeOK

-----------------------------------------------------------------------------
(* Invariance.                                                             *)

LEMMA InitInv == Init => IInv
<1> SUFFICES ASSUME Init PROVE IInv
  OBVIOUS
<1>1. 0 \in Word /\ 0 \in 0 .. 1023
  BY WordIs, WordSizeIs, SMT
<1>2. /\ {PC, IR, MAR, MDR, hex_data, latch, q, SW} \subseteq Word
      /\ R \in [0 .. 7 -> Word]
      /\ ram \in [0 .. Size - 1 -> Word]
  BY <1>1, SizeAssumption DEF Init, Zeros
<1>3. State \in DOMAIN Control
  BY StatesAre DEF Init, States
<1>4. address \in 0 .. Last + 1
  BY SizeAssumption DEF Init
<1>5. Typed
  <2>1. {BEN, Run, Continue, early} \subseteq BOOLEAN /\ SW \in Inputs
    BY DEF Init
  <2>2. /\ NZP \in {"none", "n", "z", "p"} /\ LED \in 0 .. 1023
        /\ loader \in {"mem_write", "done", "idle"}
    BY <1>1 DEF Init
  <2>3. QED BY <1>2, <1>3, <1>4, <2>1, <2>2 DEF Typed, TypeOK
<1>6. Loading /\ Started /\ Waiting
  BY SizeAssumption DEF Init, Loading, Started, Waiting
<1>7. Fetching /\ Executing
  BY DEF Init, Fetching, Executing, Pending
<1>8. QED BY <1>5, <1>6, <1>7 DEF IInv

\* The loader writes the words of the image in turn.
LEMMA LoaderStep ==
    ASSUME TypeOK, Loading, Clock
    PROVE  /\ Loading'
           /\ ~Reset /\ loader = "mem_write" =>
                  /\ ram' = [ram EXCEPT ![address] = Image[address]]
                  /\ loader' = IF address < Last THEN "mem_write" ELSE "done"
                  /\ address' = address + 1
           /\ ~Reset /\ loader # "mem_write" => loader' # "mem_write"
           /\ Reset =>
                  /\ ram' = [ram EXCEPT ![0] = Image[0]]
                  /\ loader' = "mem_write" /\ address' = 0
<1>1. ASSUME Reset
      PROVE  /\ ram' = [ram EXCEPT ![0] = Image[0]]
             /\ loader' = "mem_write" /\ address' = 0
  BY <1>1 DEF Clock, Access, we_select, init_ADDR, Loader
<1>2. ASSUME ~Reset, loader # "mem_write"
      PROVE  loader' # "mem_write"
  BY <1>2 DEF Clock, Loader
<1>3. ASSUME ~Reset, loader = "mem_write"
      PROVE  /\ ram' = [ram EXCEPT ![address] = Image[address]]
             /\ loader' = IF address < Last THEN "mem_write" ELSE "done"
             /\ address' = address + 1
  <2>1. address \in 0 .. Last
    BY <1>3, SizeAssumption DEF TypeOK, Loading
  <2>2. QED BY <1>3, <2>1, SizeAssumption
             DEF Clock, Access, we_select, init_ADDR, Loader
<1>4. Loading'
  <2>1. CASE Reset
    BY <1>1, <2>1, SizeAssumption DEF Loading
  <2>2. CASE ~Reset /\ loader # "mem_write"
    BY <1>2, <2>2 DEF Loading
  <2>3. CASE ~Reset /\ loader = "mem_write"
    <3> SUFFICES ASSUME loader' = "mem_write" PROVE Loading'
      BY DEF Loading
    <3>1. address < Last /\ address \in 0 .. Last
      BY <1>3, <2>3, SizeAssumption DEF TypeOK, Loading
    <3>2. ram \in [0 .. Size - 1 -> Word]
      BY WordTypes
    <3>3. ASSUME NEW a \in 0 .. address
          PROVE  ram'[a] = Image[a]
      <4>1. a \in 0 .. Size - 1
        BY <3>1, SizeAssumption
      <4>2. QED BY <1>3, <2>3, <3>1, <3>2, <4>1, SizeAssumption DEF Loading
    <3>4. QED BY <1>3, <2>3, <3>1, <3>3, SizeAssumption DEF Loading
  <2>4. QED BY <2>1, <2>2, <2>3
<1>5. QED BY <1>1, <1>2, <1>3, <1>4

LEMMA StartedInv ==
    ASSUME IInv, Clock PROVE Started'
<1>1. CASE Reset
  BY <1>1 DEF Started, Clock
<1>2. CASE ~Reset
  <2>1. loader' = "mem_write" => loader = "mem_write"
    BY <1>2 DEF Clock, Loader
  <2>2. early' = (early \/ (State = "Halted" /\ Run /\ loader = "mem_write"))
    BY <1>2 DEF Clock
  <2>3. State = "Halted" => State' = IF Run THEN "S_18" ELSE "Halted"
    BY <1>2, NextStates
  <2>4. QED BY <2>1, <2>2, <2>3 DEF IInv, Started
<1>3. QED BY <1>1, <1>2

\* Only a reset halts the processor.
LEMMA HaltedAgain ==
    ASSUME TypeOK, Clock, ~Reset, State' = "Halted"
    PROVE  State = "Halted" /\ ~Run
<1>1. State \in States
  BY WordTypes
<1>2. Decoded # "Halted"
  BY DEF Decoded
<1>3. QED BY <1>1, <1>2, NextStates, Successors DEF States

LEMMA WaitingInv ==
    ASSUME IInv, Clock PROVE Waiting'
<1>1. CASE Reset
  BY <1>1 DEF Waiting, Clock, Datapath, Display
<1>2. CASE ~Reset
  <2> SUFFICES ASSUME State' = "Halted", ~early' PROVE Waiting'
    BY DEF Waiting
  <2>1. State = "Halted" /\ ~Run /\ ~early
    BY <1>2, HaltedAgain DEF IInv, Typed, Clock
  <2>2. PC' = PC /\ R' = R /\ NZP' = NZP
    BY <1>2, <2>1, Wait
  <2>3. ~High("Mem_WE")
    BY <2>1, WriteStates DEF States
  <2>4. hex_data' = hex_data
    BY <1>2, <2>3 DEF Clock, Display
  <2>5. QED BY <2>1, <2>2, <2>4 DEF IInv, Waiting
<1>3. QED BY <1>1, <1>2

\* A loaded program is executing.
Active == IInv /\ Clock /\ ~Reset /\ ~early /\ State # "Halted"

LEMMA ActiveFacts ==
    ASSUME Active
    PROVE  /\ Fetching /\ Executing /\ Clock /\ ~Reset
           /\ loader # "mem_write" /\ State \in States
           /\ PC \in Word /\ IR \in Word /\ MAR \in Word /\ MDR \in Word
           /\ R \in [0 .. 7 -> Word] /\ ram \in [0 .. Size - 1 -> Word]
           /\ SW \in Inputs
BY WordTypes DEF Active, IInv, Typed, Started

LEMMA FetchInv ==
    ASSUME Active, State \in {"S_18", "S_33_1", "S_33_2", "S_33_3", "S_35"}
    PROVE  Fetching' /\ Executing'
<1> USE ActiveFacts DEF Pending, Executing
<1>1. CASE State = "S_18"
  <2>1. State' = "S_33_1" /\ MAR' = PC /\ PC' = Plus(PC, 1)
    BY <1>1, Successors, AddressFetch
  <2>2. MAR' = Before(PC')
    BY <2>1, Back
  <2>3. QED BY <2>1, <2>2 DEF Fetching
<1>2. CASE State \in {"S_33_1", "S_33_2"}
  <2>1. /\ UNCHANGED <<PC, MAR>> /\ ram' = ram
        /\ latch' = ram[MAR % Size] /\ q' = latch
    BY <1>2, WaitRead, MemoryStep
  <2>2. /\ State = "S_33_1" => State' = "S_33_2"
        /\ State = "S_33_2" => State' = "S_33_3"
    BY Successors
  <2>3. QED BY <1>2, <2>1, <2>2 DEF Fetching
<1>3. CASE State = "S_33_3"
  <2>1. /\ State' = "S_35" /\ UNCHANGED <<PC, MAR>> /\ ram' = ram
        /\ MDR' = IF MAR = InOut THEN SW ELSE q
    BY <1>3, Successors, LoadMdr, MemoryStep
  <2>2. ReadFrom(MDR', MAR)
    BY <1>3, <2>1 DEF Fetching, ReadFrom
  <2>3. QED BY <1>3, <2>1, <2>2 DEF Fetching, ReadFrom
<1>4. CASE State = "S_35"
  <2>1. State' = "S_32" /\ IR' = MDR /\ PC' = PC /\ ram' = ram
    BY <1>4, Successors, LoadIr, MemoryStep
  <2>2. ReadFrom(IR', Before(PC))
    BY <1>4, <2>1 DEF Fetching
  <2>3. QED BY <2>1, <2>2 DEF Fetching, ReadFrom
<1>5. QED BY <1>1, <1>2, <1>3, <1>4

\* While IR and the memory stay, IR holds the instruction.
LEMMA StillFetched ==
    ASSUME Active, State \in Pending \ {"S_33_1", "S_33_2", "S_33_3", "S_35"},
           UNCHANGED <<IR, PC, ram>>
    PROVE  ReadFrom(IR, Before(PC))'
BY ActiveFacts DEF Fetching, ReadFrom

LEMMA DecodeInv ==
    ASSUME Active, State = "S_32"
    PROVE  Fetching' /\ Executing'
<1>1. /\ State' = Decoded /\ BEN' = (NZP \in Nzp(IR))
      /\ UNCHANGED <<PC, IR, NZP, ram>>
  BY ActiveFacts, NextStates, LoadBen, MemoryStep
<1>2. Fetching'
  <2>1. ReadFrom(IR, Before(PC))'
    BY <1>1, StillFetched DEF Pending
  <2>2. State' \notin {"S_33_1", "S_33_2", "S_33_3", "S_35", "S_25_2", "S_25_3"}
    BY <1>1 DEF Decoded
  <2>3. QED BY <2>1, <2>2 DEF Fetching
<1>3. /\ State' = "S_01" => Opcode(IR) = op_ADD
      /\ State' = "S_05" => Opcode(IR) = op_AND
      /\ State' = "S_09" => Opcode(IR) = op_NOT
      /\ State' = "S_06" => Opcode(IR) = op_LDR
      /\ State' = "S_07" => Opcode(IR) = op_STR
      /\ State' = "S_04" => Opcode(IR) = op_JSR
      /\ State' = "S_12" => Opcode(IR) = op_JMP
      /\ State' = "S_00" => Opcode(IR) = op_BR
      /\ State' \in {"S_01", "S_05", "S_09", "S_06", "S_07", "S_04", "S_12",
                     "S_00", "PauseIR1", "S_18"}
  BY <1>1 DEF Decoded
<1>4. Executing'
  BY <1>1, <1>3 DEF Executing
<1>5. QED BY <1>2, <1>4

LEMMA LoadsInv ==
    ASSUME Active, State \in {"S_06", "S_25_1", "S_25_2"}
    PROVE  Fetching' /\ Executing'
<1>1. CASE State = "S_06"
  <2>1. State' = "S_25_1" /\ MAR' = Base /\ UNCHANGED <<PC, IR, R, ram>>
    BY <1>1, ActiveFacts, Successors, AddressData, MemoryStep
  <2>2. ReadFrom(IR, Before(PC))'
    BY <1>1, <2>1, StillFetched DEF Pending
  <2>3. Base' = Base /\ Opcode(IR) = op_LDR
    BY <1>1, <2>1, ActiveFacts DEF Base, Executing
  <2>4. QED BY <2>1, <2>2, <2>3 DEF Fetching, Executing
<1>2. CASE State \in {"S_25_1", "S_25_2"}
  <2>1. /\ UNCHANGED <<PC, IR, R, MAR, ram>>
        /\ latch' = ram[MAR % Size] /\ q' = latch
    BY <1>2, ActiveFacts, WaitRead, MemoryStep
  <2>2. /\ State = "S_25_1" => State' = "S_25_2"
        /\ State = "S_25_2" => State' = "S_25_3"
    BY ActiveFacts, Successors
  <2>3. ReadFrom(IR, Before(PC))'
    BY <1>2, <2>1, StillFetched DEF Pending
  <2>4. Base' = Base /\ MAR = Base /\ Opcode(IR) = op_LDR
    BY <1>2, <2>1, ActiveFacts DEF Base, Executing
  <2>5. Fetching'
    BY <1>2, <2>1, <2>2, <2>3, ActiveFacts DEF Fetching
  <2>6. QED BY <1>2, <2>1, <2>2, <2>4, <2>5 DEF Executing
<1>3. QED BY <1>1, <1>2

LEMMA StoresInv ==
    ASSUME Active, State \in {"S_07", "S_23", "S_16_1", "S_16_2"}
    PROVE  Fetching' /\ Executing'
<1>1. CASE State = "S_07"
  <2>1. State' = "S_23" /\ MAR' = Base /\ UNCHANGED <<PC, IR, R, ram>>
    BY <1>1, ActiveFacts, Successors, AddressData, MemoryStep
  <2>2. ReadFrom(IR, Before(PC))'
    BY <1>1, <2>1, StillFetched DEF Pending
  <2>3. Base' = Base /\ Opcode(IR) = op_STR
    BY <1>1, <2>1, ActiveFacts DEF Base, Executing
  <2>4. QED BY <2>1, <2>2, <2>3 DEF Fetching, Executing
<1>2. CASE State = "S_23"
  <2>1. /\ State' = "S_16_1" /\ MDR' = R[DR(IR)]
        /\ UNCHANGED <<PC, IR, R, MAR, ram>>
    BY <1>2, ActiveFacts, Successors, DataStep, MemoryStep
  <2>2. ReadFrom(IR, Before(PC))'
    BY <1>2, <2>1, StillFetched DEF Pending
  <2>3. Base' = Base /\ MAR = Base /\ Opcode(IR) = op_STR
    BY <1>2, <2>1, ActiveFacts DEF Base, Executing
  <2>4. QED BY <2>1, <2>2, <2>3 DEF Fetching, Executing
<1>3. CASE State \in {"S_16_1", "S_16_2"}
  <2>1. /\ State' \in {"S_16_2", "S_16_3"} /\ UNCHANGED <<MAR, MDR>>
        /\ ram' = [ram EXCEPT ![MAR % Size] = MDR]
        /\ hex_data' = IF MAR = InOut THEN MDR ELSE hex_data
    BY <1>3, ActiveFacts, Successors, WaitWrite, MemoryStep
  <2>2. ram'[MAR' % Size] = MDR'
    BY <2>1, ActiveFacts, CellIsCell
  <2>3. QED BY <2>1, <2>2 DEF Fetching, Executing, Pending
<1>4. QED BY <1>1, <1>2, <1>3

\* In the state after these nothing is under way.
LEMMA OthersInv ==
    ASSUME Active, State \notin {"S_18", "S_33_1", "S_33_2", "S_33_3", "S_35",
                                 "S_32", "S_06", "S_25_1", "S_25_2", "S_07",
                                 "S_23", "S_16_1", "S_16_2"}
    PROVE  Fetching' /\ Executing'
<1>1. State' \in {"S_18", "S_27", "S_21", "S_22", "PauseIR1", "PauseIR2"}
  BY ActiveFacts, NextStates, Successors DEF States, Active
<1>2. QED BY <1>1 DEF Fetching, Executing, Pending

LEMMA ClockInv ==
    ASSUME IInv, Clock PROVE IInv'
<1>1. Typed' /\ Loading' /\ Started' /\ Waiting'
  BY ClockTypes, LoaderStep, StartedInv, WaitingInv DEF IInv, Typed
<1>2. ASSUME ~early' PROVE Fetching' /\ Executing'
  <2>1. CASE Active
    BY <2>1, FetchInv, DecodeInv, LoadsInv, StoresInv, OthersInv
  <2>2. CASE ~Active
    <3>1. State' \in {"Halted", "S_18"}
      <4>1. CASE Reset
        BY <4>1 DEF Clock
      <4>2. CASE ~Reset
        <5>1. ~early
          BY <1>2, <4>2 DEF Clock
        <5>2. State = "Halted"
          BY <2>2, <4>2, <5>1 DEF Active
        <5>3. QED BY <4>2, <5>2, NextStates
      <4>3. QED BY <4>1, <4>2
    <3>2. QED BY <3>1 DEF Fetching, Executing, Pending
  <2>3. QED BY <2>1, <2>2
<1>3. QED BY <1>1, <1>2 DEF IInv

\* The buttons and switches keep their types.
LEMMA PushInputs ==
    ASSUME IInv, Push
    PROVE  Run' \in BOOLEAN /\ Continue' \in BOOLEAN /\ SW' \in Inputs
<1>1. Run \in BOOLEAN /\ Continue \in BOOLEAN /\ SW \in Inputs
  BY DEF IInv, Typed, TypeOK
<1>2. \/ Run' = ~Run /\ Continue' = Continue /\ SW' = SW
      \/ Continue' = ~Continue /\ Run' = Run /\ SW' = SW
      \/ SW' \in Inputs /\ Run' = Run /\ Continue' = Continue
  BY Zenon DEF Push
<1>3. QED BY <1>1, <1>2

LEMMA PushInv ==
    ASSUME IInv, Push PROVE IInv'
<1>1. UNCHANGED <<State, datapath, LED, hex_data, memory, early>>
  BY DEF Push
<1>2. Run' \in BOOLEAN /\ Continue' \in BOOLEAN /\ SW' \in Inputs
  BY PushInputs
<1>3. Typed'
  BY <1>1, <1>2, SizeAssumption DEF IInv, Typed, TypeOK, datapath, memory
<1>4. Loading' /\ Started' /\ Waiting'
  BY <1>1 DEF IInv, Loading, Started, Waiting, datapath, memory
<1>5. ~early => Fetching' /\ Executing'
  BY <1>1 DEF IInv, Fetching, Executing, Base, ReadFrom, datapath, memory
<1>6. QED BY <1>1, <1>3, <1>4, <1>5 DEF IInv

LEMMA NextInv == IInv /\ [Next]_vars => IInv'
<1> SUFFICES ASSUME IInv, [Next]_vars PROVE IInv'
  OBVIOUS
<1>1. CASE UNCHANGED vars
  BY <1>1 DEF vars, IInv, Typed, TypeOK, Loading, Started, Waiting, Fetching,
              Executing, Base, ReadFrom
<1>2. QED BY <1>1, ClockInv, PushInv DEF Next

LEMMA Invariance == Spec => []IInv
BY InitInv, NextInv, PTL DEF Spec

\* The variables have their types.
THEOREM ProcessorTypes == Spec => []TypeOK
<1>1. IInv => TypeOK
  BY DEF IInv, Typed
<1>2. QED BY Invariance, <1>1, PTL

\* Whatever the program, IR holds the word before the PC from the decode of an
\* instruction to its effect: MDR is not loaded before the memory has answered
\* (ISDU.sv 124-134).
THEOREM FetchedInTime == Spec => []InstructionFetched
<1>1. IInv => InstructionFetched
  <2> SUFFICES ASSUME IInv PROVE InstructionFetched
    OBVIOUS
  <2>1. ASSUME State \in Pending \ {"S_33_1", "S_33_2", "S_33_3", "S_35"}, ~early
        PROVE  ReadFrom(IR, Before(PC))
    BY <2>1 DEF IInv, Fetching
  <2>2. QED BY <2>1 DEF InstructionFetched, ReadFrom
<1>2. QED BY Invariance, <1>1, PTL

-----------------------------------------------------------------------------
(* Every instruction ends.                                                 *)

\* The clocks that an instruction takes from a state on, at most.
ClocksLeft ==
    [Halted |-> 0, PauseIR1 |-> 0, PauseIR2 |-> 0, S_18 |-> 0,
     S_33_1 |-> 10, S_33_2 |-> 9, S_33_3 |-> 8, S_35 |-> 7, S_32 |-> 6,
     S_01 |-> 1, S_05 |-> 1, S_09 |-> 1,
     S_06 |-> 5, S_25_1 |-> 4, S_25_2 |-> 3, S_25_3 |-> 2, S_27 |-> 1,
     S_07 |-> 5, S_23 |-> 4, S_16_1 |-> 3, S_16_2 |-> 2, S_16_3 |-> 1,
     S_04 |-> 2, S_21 |-> 1, S_12 |-> 1, S_00 |-> 2, S_22 |-> 1]

Progress == [][ClocksLeft[State] > 0 =>
                   /\ Clock => ClocksLeft[State'] < ClocksLeft[State]
                   /\ ~Clock => State' = State]_vars

LEMMA ClockShortens ==
    ASSUME TypeOK, Clock, ClocksLeft[State] > 0
    PROVE  ClocksLeft[State'] < ClocksLeft[State]
<1>1. CASE Reset
  BY <1>1 DEF Clock, ClocksLeft
<1>2. CASE ~Reset
  <2>1. State \in States \ {"Halted", "PauseIR1", "PauseIR2", "S_18"}
    BY WordTypes DEF ClocksLeft, States
  <2>2. CASE State = "S_32"
    <3>1. State' \in {"S_01", "S_05", "S_09", "S_06", "S_07", "S_04", "S_12",
                      "S_00", "PauseIR1", "S_18"}
      BY <1>2, <2>2, NextStates DEF Decoded
    <3>2. QED BY <2>2, <3>1 DEF ClocksLeft
  <2>3. CASE State \in {"S_01", "S_05", "S_09", "S_27", "S_16_3", "S_21",
                        "S_12", "S_22"}
    <3>1. State' = "S_18"
      BY <1>2, <2>3, NextStates
    <3>2. QED BY <2>3, <3>1 DEF ClocksLeft
  <2>4. CASE State = "S_00"
    <3>1. State' \in {"S_22", "S_18"}
      BY <1>2, <2>4, NextStates
    <3>2. QED BY <2>4, <3>1 DEF ClocksLeft
  <2>5. CASE State \in {"S_33_1", "S_33_2", "S_33_3", "S_35", "S_06", "S_25_1",
                        "S_25_2", "S_25_3", "S_07", "S_23", "S_16_1", "S_16_2",
                        "S_04"}
    BY <1>2, <2>5, Successors DEF ClocksLeft
  <2>6. QED BY <2>1, <2>2, <2>3, <2>4, <2>5 DEF States
<1>3. QED BY <1>1, <1>2

\* Every clock brings an instruction that has begun nearer to its end, ten
\* clocks ahead at the most, and nothing else moves it (ISDU.sv 145-217): the
\* control unit cannot stay in an instruction while its clock runs.
THEOREM InstructionProgress == Spec => Progress
<1>1. IInv /\ [Next]_vars =>
          [ClocksLeft[State] > 0 =>
               /\ Clock => ClocksLeft[State'] < ClocksLeft[State]
               /\ ~Clock => State' = State]_vars
  <2> SUFFICES ASSUME IInv, Next, ClocksLeft[State] > 0
               PROVE  /\ Clock => ClocksLeft[State'] < ClocksLeft[State]
                      /\ ~Clock => State' = State
    OBVIOUS
  <2>1. ASSUME Clock PROVE ClocksLeft[State'] < ClocksLeft[State]
    BY <2>1, ClockShortens DEF IInv, Typed
  <2>2. ASSUME ~Clock PROVE State' = State
    BY <2>2 DEF Next, Push
  <2>3. QED BY <2>1, <2>2
<1>2. QED BY Invariance, <1>1, PTL DEF Spec, Progress

-----------------------------------------------------------------------------
(* Refinement: what SLC3Isa sees of each state and of the one after it.    *)

\* States in which neither an effect nor a register is behind.
Plain == {"S_18", "S_16_2", "S_16_3"}

Views ==
    /\ State \in Pending =>
           /\ Mode = "running" /\ NextPC = Before(PC)
           /\ Registers = R /\ Conditions = NZP
    /\ State \in Plain =>
           /\ Mode = "running" /\ NextPC = PC
           /\ Registers = R /\ Conditions = NZP
    /\ State = "S_27" =>
           /\ Mode = "running" /\ NextPC = PC
           /\ Registers = [R EXCEPT ![DR(IR)] = MDR]
           /\ Conditions = Cond(MDR)
    /\ State = "S_21" =>
           /\ Mode = "running" /\ NextPC = Plus(PC, Off11(IR))
           /\ Registers = R /\ Conditions = NZP
    /\ State = "S_22" =>
           /\ Mode = "running" /\ NextPC = Plus(PC, Off9(IR))
           /\ Registers = R /\ Conditions = NZP
    /\ State = "Halted" =>
           /\ Mode = "halted" /\ NextPC = PC
           /\ Registers = R /\ Conditions = NZP
    /\ State = "PauseIR1" =>
           /\ Mode = "paused" /\ NextPC = PC
           /\ Registers = R /\ Conditions = NZP
    /\ State = "PauseIR2" =>
           /\ Mode = "pressed" /\ NextPC = PC
           /\ Registers = R /\ Conditions = NZP

LEMMA View == ASSUME ~early PROVE Views
BY DEF Views, Mode, NextPC, Registers, Conditions, Pending, Plain

LEMMA ViewNext == ASSUME ~early' PROVE Views'
BY DEF Views, Mode, NextPC, Registers, Conditions, Pending, Plain

LEMMA ActiveStep ==
    ASSUME Active
    PROVE  /\ ~early' /\ loader' # "mem_write"
           /\ UNCHANGED <<Run, Continue, SW>>
           /\ Views /\ Views'
<1>1. Clock /\ ~Reset /\ ~early /\ loader # "mem_write"
  BY ActiveFacts DEF Active
<1>2. ~early' /\ UNCHANGED <<Run, Continue, SW>>
  BY <1>1 DEF Clock
<1>3. loader' # "mem_write"
  BY <1>1 DEF Clock, Loader
<1>4. QED BY <1>1, <1>2, <1>3, View, ViewNext

LEMMA Silent ==
    ASSUME Active, Mode' = Mode, NextPC' = NextPC, Registers' = Registers,
           Conditions' = Conditions, ram' = ram, hex_data' = hex_data
    PROVE  UNCHANGED ISA!vars
BY ActiveFacts, ActiveStep DEF Active, ISA!vars

\* SLC3Isa and SLC3 compute on the same words.
LEMMA SameWords ==
    /\ ISA!InOut = InOut /\ ISA!Word = Word
    /\ \A v : ISA!Not(v) = Not(v) /\ ISA!Cond(v) = Cond(v)
    /\ \A a, b : ISA!Plus(a, b) = Plus(a, b) /\ ISA!And(a, b) = And(a, b)
<1>1. ISA!WordSize = WordSize
  BY DEF ISA!WordSize, WordSize
<1>2. ISA!InOut = InOut /\ ISA!Word = Word
  BY <1>1 DEF ISA!InOut, InOut, ISA!Word, Word
<1>3. \A v : ISA!Not(v) = Not(v) /\ ISA!Cond(v) = Cond(v)
  BY <1>1 DEF ISA!Not, Not, ISA!Cond, Cond
<1>4. \A a, b : ISA!Plus(a, b) = Plus(a, b)
  BY <1>1 DEF ISA!Plus, Plus
<1>5. \A a, b : ISA!AndByte(a, b) = AndByte(a, b)
  BY Zenon DEF ISA!AndByte, AndByte, ISA!Bit, Bit
<1>6. \A a, b : ISA!And(a, b) = And(a, b)
  BY <1>5, Zenon DEF ISA!And, And
<1>7. QED BY <1>2, <1>3, <1>4, <1>6

LEMMA SameFields ==
    ASSUME NEW w
    PROVE  /\ ISA!Opcode(w) = Opcode(w) /\ ISA!Nzp(w) = Nzp(w)
           /\ ISA!DR(w) = DR(w) /\ ISA!SR1(w) = SR1(w) /\ ISA!Link(w) = Link(w)
           /\ ISA!Off6(w) = Off6(w) /\ ISA!Off9(w) = Off9(w)
           /\ ISA!Off11(w) = Off11(w)
           /\ ISA!Operand(w, R) = Operand(w, R)
<1>1. ISA!Opcode(w) = Opcode(w) /\ ISA!DR(w) = DR(w) /\ ISA!SR1(w) = SR1(w)
  BY Zenon DEF ISA!Opcode, Opcode, ISA!DR, DR, ISA!SR1, SR1
<1>2. \A k : ISA!Bit(w, k) = Bit(w, k)
  BY Zenon DEF ISA!Bit, Bit
<1>3. ISA!Nzp(w) = Nzp(w)
  BY <1>2, SMT DEF ISA!Nzp, Nzp
<1>4. ISA!Link(w) = Link(w)
  BY <1>1, <1>2, SMT DEF ISA!Link, Link
<1>5. \A k : ISA!Sext(w, k) = Sext(w, k)
  BY Zenon DEF ISA!Sext, Sext, ISA!WordSize, WordSize
<1>6. /\ ISA!Off6(w) = Off6(w) /\ ISA!Off9(w) = Off9(w)
      /\ ISA!Off11(w) = Off11(w) /\ ISA!Imm5(w) = Imm5(w)
  BY <1>5, SMT DEF ISA!Off6, Off6, ISA!Off9, Off9, ISA!Off11, Off11,
                     ISA!Imm5, Imm5
<1>7. ISA!SR2(w) = SR2(w)
  BY Zenon DEF ISA!SR2, SR2
<1>8. ISA!Operand(w, R) = Operand(w, R)
  BY <1>2, <1>6, <1>7, SMT DEF ISA!Operand, Operand
<1>9. QED BY <1>1, <1>3, <1>4, <1>6, <1>8

\* An instruction whose word has been fetched.
LEMMA FetchedWord ==
    ASSUME Active, State \in Pending \ {"S_33_1", "S_33_2", "S_33_3", "S_35"}
    PROVE  IR \in ISA!Fetched
<1>1. ReadFrom(IR, Before(PC))
  BY ActiveFacts DEF Fetching
<1>2. ~early /\ NextPC = Before(PC)
  BY ActiveStep DEF Active, Views
<1>3. QED BY <1>1, <1>2, SameWords DEF ReadFrom, ISA!Fetched

\* The address after the instruction is that in PC.
LEMMA FetchedNext ==
    ASSUME Active, State \in Pending PROVE ISA!Next1 = PC
<1>1. ~early /\ NextPC = Before(PC)
  BY ActiveStep DEF Active, Views
<1>2. Plus(Before(PC), 1) = PC
  BY ActiveFacts, Back
<1>3. QED BY <1>1, <1>2, SameWords DEF ISA!Next1

LEMMA Done ==
    ASSUME Active, State \in Pending \ {"S_33_1", "S_33_2", "S_33_3", "S_35"},
           \/ ISA!Operate(IR) \/ ISA!Store(IR) \/ ISA!Transfer(IR)
           \/ ISA!Pause(IR) \/ ISA!Skip(IR)
    PROVE  ISA!Next
<1>1. IR \in ISA!Fetched /\ Mode = "running"
  BY FetchedWord, ActiveStep DEF Views
<1>2. (loader = "mem_write") = (loader = "mem_write")'
  BY ActiveFacts, ActiveStep
<1>3. ISA!Instruction
  BY <1>1, <1>2 DEF ISA!Instruction
<1>4. ~ISA!Reset /\ UNCHANGED ISA!inputs
  BY ActiveFacts, ActiveStep DEF ISA!Reset, Reset, ISA!inputs
<1>5. QED BY <1>3, <1>4 DEF ISA!Step, ISA!Next

\* The fetch shows nothing.
LEMMA FetchSilent ==
    ASSUME Active, State \in {"S_18", "S_33_1", "S_33_2", "S_33_3", "S_35"}
    PROVE  UNCHANGED ISA!vars
<1>1. ram' = ram /\ hex_data' = hex_data
  BY ActiveFacts, MemoryStep
<1>2. R' = R /\ NZP' = NZP
  BY ActiveFacts, AddressFetch, WaitRead, LoadMdr, LoadIr
<1>3. State' \in Pending
  BY ActiveFacts, Successors DEF Pending
<1>4. CASE State = "S_18"
  <2>1. PC' = Plus(PC, 1)
    BY <1>4, ActiveFacts, AddressFetch
  <2>2. Before(PC') = PC
    BY <2>1, ActiveFacts, Back
  <2>3. QED BY <1>1, <1>2, <1>3, <1>4, <2>2, ActiveStep, Silent
            DEF Views, Plain
<1>5. CASE State # "S_18"
  <2>1. PC' = PC /\ State \in Pending
    BY <1>5, ActiveFacts, WaitRead, LoadMdr, LoadIr DEF Pending
  <2>2. QED BY <1>1, <1>2, <1>3, <2>1, ActiveStep, Silent DEF Views
<1>6. QED BY <1>4, <1>5

\* So do the states on the way to an effect, and those after one.
LEMMA WaySilent ==
    ASSUME Active, State \in {"S_06", "S_25_1", "S_25_2", "S_07", "S_23"}
    PROVE  UNCHANGED ISA!vars
<1>1. ram' = ram /\ hex_data' = hex_data
  BY ActiveFacts, MemoryStep
<1>2. UNCHANGED <<PC, R, NZP>>
  BY ActiveFacts, AddressData, WaitRead, DataStep
<1>3. State \in Pending /\ State' \in Pending
  BY ActiveFacts, Successors DEF Pending
<1>4. QED BY <1>1, <1>2, <1>3, ActiveStep, Silent DEF Views

LEMMA AfterSilent ==
    ASSUME Active, State \in {"S_27", "S_16_2", "S_16_3", "S_21", "S_22"}
    PROVE  UNCHANGED ISA!vars
<1>1. CASE State = "S_27"
  <2>1. /\ State' = "S_18" /\ R' = [R EXCEPT ![DR(IR)] = MDR]
        /\ NZP' = Cond(MDR) /\ UNCHANGED <<PC, ram, hex_data>>
    BY <1>1, ActiveFacts, NextStates, LoadStep, MemoryStep
  <2>2. QED BY <1>1, <2>1, ActiveStep, Silent DEF Views, Plain
<1>2. CASE State \in {"S_16_2", "S_16_3"}
  <2>1. /\ State' \in Plain /\ UNCHANGED <<PC, R, NZP>>
        /\ ram' = [ram EXCEPT ![MAR % Size] = MDR]
        /\ hex_data' = IF MAR = InOut THEN MDR ELSE hex_data
    BY <1>2, ActiveFacts, NextStates, Successors, WaitWrite, MemoryStep DEF Plain
  <2>2. /\ ram[MAR % Size] = MDR
        /\ MAR = InOut => hex_data = MDR
    BY <1>2, ActiveFacts DEF Executing
  <2>3. ram' = ram /\ hex_data' = hex_data
    BY <2>1, <2>2, ActiveFacts, CellIsCell
  <2>4. QED BY <1>2, <2>1, <2>3, ActiveStep, Silent DEF Views, Plain
<1>3. CASE State = "S_21"
  <2>1. /\ State' = "S_18" /\ PC' = Plus(PC, Off11(IR))
        /\ UNCHANGED <<R, NZP, ram, hex_data>>
    BY <1>3, ActiveFacts, NextStates, CallStep, MemoryStep
  <2>2. QED BY <1>3, <2>1, ActiveStep, Silent DEF Views, Plain
<1>4. CASE State = "S_22"
  <2>1. /\ State' = "S_18" /\ PC' = Plus(PC, Off9(IR))
        /\ UNCHANGED <<R, NZP, ram, hex_data>>
    BY <1>4, ActiveFacts, NextStates, BranchStep, MemoryStep
  <2>2. QED BY <1>4, <2>1, ActiveStep, Silent DEF Views, Plain
<1>5. QED BY <1>1, <1>2, <1>3, <1>4

\* An instruction that goes on to the next one.
LEMMA Written ==
    ASSUME Active, State \in Pending, State' \in {"S_18", "S_27"}, PC' = PC
    PROVE  NextPC' = ISA!Next1 /\ Mode' = Mode /\ Registers = R /\ ~early'
<1>1. /\ Mode = "running" /\ Registers = R
      /\ Mode' = "running" /\ NextPC' = PC /\ ~early /\ ~early'
  BY ActiveStep DEF Views, Plain, Active
<1>2. ISA!Next1 = PC
  BY FetchedNext
<1>3. QED BY <1>1, <1>2

\* ADD, AND, NOT and LDR.
LEMMA OperateRefined ==
    ASSUME Active, State \in {"S_01", "S_05", "S_09", "S_25_3"}
    PROVE  ISA!Next
<1>1. ram' = ram /\ hex_data' = hex_data
  BY ActiveFacts, MemoryStep
<1>2. /\ State \in Pending /\ Registers = R /\ ~early
      /\ NextPC = Before(PC) /\ Mode = "running"
  BY ActiveStep DEF Views, Pending, Active
<1>3. ISA!Operate(IR)
  <2>1. CASE State = "S_01"
    <3> DEFINE v == Plus(R[SR1(IR)], Operand(IR, R))
    <3>1. /\ State' = "S_18" /\ PC' = PC
          /\ R' = [R EXCEPT ![DR(IR)] = v] /\ NZP' = Cond(v)
      BY <2>1, ActiveFacts, NextStates, AddStep
    <3>2. Registers' = R' /\ Conditions' = NZP'
      BY <3>1, ActiveStep DEF Views, Plain
    <3>3. /\ Registers' = [Registers EXCEPT ![ISA!DR(IR)] = v]
          /\ Conditions' = ISA!Cond(v)
          /\ NextPC' = ISA!Next1 /\ Mode' = Mode /\ ~early'
      BY <1>2, <3>1, <3>2, Written, SameWords, SameFields
    <3>4. Opcode(IR) = op_ADD
      BY <2>1, ActiveFacts DEF Executing
    <3>5. ISA!Opcode(IR) = ISA!op_ADD
      BY <3>4, SameFields DEF op_ADD, ISA!op_ADD
    <3>6. v = ISA!Plus(Registers[ISA!SR1(IR)], ISA!Operand(IR, Registers))
      BY <1>2, SameWords, SameFields
    <3> HIDE DEF v
    <3>7. QED BY <1>1, <1>2, <3>3, <3>5, <3>6 DEF ISA!Operate,
                                                  ISA!Set
  <2>2. CASE State = "S_05"
    <3> DEFINE v == And(R[SR1(IR)], Operand(IR, R))
    <3>1. /\ State' = "S_18" /\ PC' = PC
          /\ R' = [R EXCEPT ![DR(IR)] = v] /\ NZP' = Cond(v)
      BY <2>2, ActiveFacts, NextStates, AndStep
    <3>2. Registers' = R' /\ Conditions' = NZP'
      BY <3>1, ActiveStep DEF Views, Plain
    <3>3. /\ Registers' = [Registers EXCEPT ![ISA!DR(IR)] = v]
          /\ Conditions' = ISA!Cond(v)
          /\ NextPC' = ISA!Next1 /\ Mode' = Mode /\ ~early'
      BY <1>2, <3>1, <3>2, Written, SameWords, SameFields
    <3>4. Opcode(IR) = op_AND
      BY <2>2, ActiveFacts DEF Executing
    <3>5. ISA!Opcode(IR) = ISA!op_AND
      BY <3>4, SameFields DEF op_AND, ISA!op_AND
    <3>6. v = ISA!And(Registers[ISA!SR1(IR)], ISA!Operand(IR, Registers))
      BY <1>2, SameWords, SameFields
    <3> HIDE DEF v
    <3>7. QED BY <1>1, <1>2, <3>3, <3>5, <3>6 DEF ISA!Operate,
                                                  ISA!Set
  <2>3. CASE State = "S_09"
    <3> DEFINE v == Not(R[SR1(IR)])
    <3>1. /\ State' = "S_18" /\ PC' = PC
          /\ R' = [R EXCEPT ![DR(IR)] = v] /\ NZP' = Cond(v)
      BY <2>3, ActiveFacts, NextStates, NotStep
    <3>2. Registers' = R' /\ Conditions' = NZP'
      BY <3>1, ActiveStep DEF Views, Plain
    <3>3. /\ Registers' = [Registers EXCEPT ![ISA!DR(IR)] = v]
          /\ Conditions' = ISA!Cond(v)
          /\ NextPC' = ISA!Next1 /\ Mode' = Mode /\ ~early'
      BY <1>2, <3>1, <3>2, Written, SameWords, SameFields
    <3>4. Opcode(IR) = op_NOT
      BY <2>3, ActiveFacts DEF Executing
    <3>5. ISA!Opcode(IR) = ISA!op_NOT
      BY <3>4, SameFields DEF op_NOT, ISA!op_NOT
    <3>6. v = ISA!Not(Registers[ISA!SR1(IR)])
      BY <1>2, SameWords, SameFields
    <3> HIDE DEF v
    <3>7. QED BY <1>1, <1>2, <3>3, <3>5, <3>6 DEF ISA!Operate,
                                                  ISA!Set
  <2>4. CASE State = "S_25_3"
    <3> DEFINE v == IF MAR = InOut THEN SW ELSE q
    <3>1. State' = "S_27" /\ MDR' = v /\ UNCHANGED <<PC, IR, R>>
      BY <2>4, ActiveFacts, Successors, LoadMdr
    <3>2. Registers' = [R EXCEPT ![DR(IR)] = v] /\ Conditions' = Cond(v)
      BY <3>1, ActiveStep DEF Views
    <3>3. /\ Registers' = [Registers EXCEPT ![ISA!DR(IR)] = v]
          /\ Conditions' = ISA!Cond(v)
          /\ NextPC' = ISA!Next1 /\ Mode' = Mode /\ ~early'
      BY <1>2, <3>1, <3>2, Written, SameWords, SameFields
    <3>4. /\ Opcode(IR) = op_LDR /\ MAR = Plus(R[SR1(IR)], Off6(IR))
          /\ q = ram[MAR % Size]
      BY <2>4, ActiveFacts DEF Executing, Fetching, Base
    <3>5. ISA!Opcode(IR) = ISA!op_LDR
      BY <3>4, SameFields DEF op_LDR, ISA!op_LDR
    <3>6. MAR = ISA!Plus(Registers[ISA!SR1(IR)], ISA!Off6(IR))
      BY <1>2, <3>4, SameWords, SameFields
    <3>7. v = ISA!Read(MAR)
      BY <3>4, SameWords DEF ISA!Read
    <3> HIDE DEF v
    <3>8. QED BY <1>1, <1>2, <3>3, <3>5, <3>6, <3>7 DEF ISA!Operate,
                                                  ISA!Set
  <2>5. QED BY <2>1, <2>2, <2>3, <2>4
<1>4. State \in Pending \ {"S_33_1", "S_33_2", "S_33_3", "S_35"}
  BY DEF Pending
<1>5. QED BY <1>3, <1>4, Done

\* STR: the first of the three clocks that write.
LEMMA StoreRefined ==
    ASSUME Active, State = "S_16_1"
    PROVE  ISA!Next
<1>1. /\ State \in Pending /\ Registers = R /\ ~early /\ Conditions = NZP
      /\ NextPC = Before(PC) /\ Mode = "running"
  BY ActiveStep DEF Views, Pending, Active
<1>2. /\ State' = "S_16_2" /\ UNCHANGED <<PC, R, NZP>>
      /\ ram' = [ram EXCEPT ![MAR % Size] = MDR]
      /\ hex_data' = IF MAR = InOut THEN MDR ELSE hex_data
  BY ActiveFacts, Successors, WaitWrite, MemoryStep
<1>3. /\ ~early' /\ Mode' = "running" /\ NextPC' = PC
      /\ Registers' = R /\ Conditions' = NZP
  BY <1>2, ActiveStep DEF Views, Plain
<1>4. ISA!Next1 = PC
  BY <1>1, FetchedNext
<1>5. /\ Opcode(IR) = op_STR /\ MAR = Plus(R[SR1(IR)], Off6(IR))
      /\ MDR = R[DR(IR)]
  BY ActiveFacts DEF Executing, Base
<1>6. ISA!Opcode(IR) = ISA!op_STR
  BY <1>5, SameFields DEF op_STR, ISA!op_STR
<1>7. /\ MAR = ISA!Plus(Registers[ISA!SR1(IR)], ISA!Off6(IR))
      /\ MDR = Registers[ISA!DR(IR)] /\ ISA!InOut = InOut
  BY <1>1, <1>5, SameWords, SameFields
<1>8. ISA!Store(IR)
  BY <1>1, <1>2, <1>3, <1>4, <1>6, <1>7 DEF ISA!Store
<1>9. State \in Pending \ {"S_33_1", "S_33_2", "S_33_3", "S_35"}
  BY DEF Pending
<1>10. QED BY <1>8, <1>9, Done

\* JSR, JMP and BR.
LEMMA TransferRefined ==
    ASSUME Active, State \in {"S_04", "S_12", "S_00"}
    PROVE  ISA!Next
<1>1. ram' = ram /\ hex_data' = hex_data
  BY ActiveFacts, MemoryStep
<1>2. /\ State \in Pending /\ Registers = R /\ ~early /\ Conditions = NZP
      /\ NextPC = Before(PC) /\ Mode = "running"
  BY ActiveStep DEF Views, Pending, Active
<1>3. ISA!Next1 = PC /\ ~early'
  BY <1>2, FetchedNext, ActiveStep
<1>4. ISA!Transfer(IR)
  <2>1. CASE State = "S_04"
    <3>1. State' = "S_21" /\ R' = [R EXCEPT ![Link(IR)] = PC]
          /\ UNCHANGED <<PC, IR, NZP>>
      BY <2>1, ActiveFacts, Successors, LinkStep
    <3>2. /\ Mode' = "running" /\ NextPC' = Plus(PC, Off11(IR))
          /\ Registers' = R' /\ Conditions' = NZP
      BY <3>1, ActiveStep DEF Views
    <3>3. Opcode(IR) = op_JSR
      BY <2>1, ActiveFacts DEF Executing
    <3>4. ISA!Opcode(IR) = ISA!op_JSR
      BY <3>3, SameFields DEF op_JSR, ISA!op_JSR
    <3>5. /\ NextPC' = ISA!Plus(ISA!Next1, ISA!Off11(IR))
          /\ Registers' = [Registers EXCEPT ![ISA!Link(IR)] = ISA!Next1]
      BY <1>2, <1>3, <3>1, <3>2, SameWords, SameFields
    <3>6. QED BY <1>1, <1>2, <1>3, <3>2, <3>4, <3>5 DEF ISA!Transfer
  <2>2. CASE State = "S_12"
    <3>1. State' = "S_18" /\ PC' = Plus(R[SR1(IR)], 0)
          /\ UNCHANGED <<IR, R, NZP>>
      BY <2>2, ActiveFacts, NextStates, JumpStep
    <3>2. PC' = R[SR1(IR)]
      BY <3>1, ActiveFacts, Fields, Back
    <3>3. /\ Mode' = "running" /\ NextPC' = PC'
          /\ Registers' = R /\ Conditions' = NZP
      BY <3>1, ActiveStep DEF Views, Plain
    <3>4. Opcode(IR) = op_JMP
      BY <2>2, ActiveFacts DEF Executing
    <3>5. ISA!Opcode(IR) = ISA!op_JMP
      BY <3>4, SameFields DEF op_JMP, ISA!op_JMP
    <3>6. NextPC' = Registers[ISA!SR1(IR)]
      BY <1>2, <3>2, <3>3, SameFields
    <3>7. QED BY <1>1, <1>2, <1>3, <3>3, <3>5, <3>6 DEF ISA!Transfer
  <2>3. CASE State = "S_00"
    <3>1. /\ State' = IF BEN THEN "S_22" ELSE "S_18"
          /\ UNCHANGED <<PC, IR, R, NZP>>
      BY <2>3, ActiveFacts, NextStates, Wait
    <3>2. /\ Mode' = "running" /\ Registers' = R /\ Conditions' = NZP
          /\ NextPC' = IF BEN THEN Plus(PC, Off9(IR)) ELSE PC
      BY <3>1, ActiveStep DEF Views, Plain
    <3>3. Opcode(IR) = op_BR /\ BEN = (NZP \in Nzp(IR))
      BY <2>3, ActiveFacts DEF Executing
    <3>4. ISA!Opcode(IR) = ISA!op_BR
      BY <3>3, SameFields DEF op_BR, ISA!op_BR
    <3>5. NextPC' = IF Conditions \in ISA!Nzp(IR)
                    THEN ISA!Plus(ISA!Next1, ISA!Off9(IR)) ELSE ISA!Next1
      <4>1. /\ ISA!Plus(ISA!Next1, ISA!Off9(IR)) = Plus(PC, Off9(IR))
            /\ ISA!Nzp(IR) = Nzp(IR)
        BY <1>3, SameWords, SameFields
      <4>2. QED BY <1>2, <1>3, <3>2, <3>3, <4>1
    <3>6. QED BY <1>1, <1>2, <1>3, <3>2, <3>4, <3>5 DEF ISA!Transfer
  <2>4. QED BY <2>1, <2>2, <2>3
<1>5. State \in Pending \ {"S_33_1", "S_33_2", "S_33_3", "S_35"}
  BY DEF Pending
<1>6. QED BY <1>4, <1>5, Done

\* The decode is the effect of a pause and of an opcode without states.
LEMMA DecodeRefined ==
    ASSUME Active, State = "S_32"
    PROVE  ISA!Next \/ UNCHANGED ISA!vars
<1>1. /\ ram' = ram /\ hex_data' = hex_data /\ State' = Decoded
      /\ UNCHANGED <<PC, IR, R, NZP>>
  BY ActiveFacts, MemoryStep, NextStates, LoadBen
<1>2. /\ State \in Pending /\ Registers = R /\ ~early /\ Conditions = NZP
      /\ NextPC = Before(PC) /\ Mode = "running"
  BY ActiveStep DEF Views, Pending, Active
<1>3. ISA!Next1 = PC /\ ~early'
  BY <1>2, FetchedNext, ActiveStep
<1>4. State \in Pending \ {"S_33_1", "S_33_2", "S_33_3", "S_35"}
  BY DEF Pending
<1>5. CASE Opcode(IR) = op_PSE
  <2>1. State' = "PauseIR1"
    BY <1>1, <1>5 DEF Decoded, op_BR, op_ADD, op_JSR, op_AND, op_LDR, op_STR,
                      op_NOT, op_JMP, op_PSE
  <2>2. /\ Mode' = "paused" /\ NextPC' = PC
        /\ Registers' = R /\ Conditions' = NZP
    BY <1>1, <2>1, ActiveStep DEF Views
  <2>3. ISA!Opcode(IR) = ISA!op_PSE
    BY <1>5, SameFields DEF op_PSE, ISA!op_PSE
  <2>4. ISA!Pause(IR)
    BY <1>1, <1>2, <1>3, <2>2, <2>3 DEF ISA!Pause
  <2>5. QED BY <1>4, <2>4, Done
<1>6. CASE Opcode(IR) \in {op_BR, op_ADD, op_JSR, op_AND, op_LDR, op_STR,
                           op_NOT, op_JMP}
  <2>1. State' \in Pending
    BY <1>1, <1>6 DEF Decoded, Pending, op_BR, op_ADD, op_JSR, op_AND, op_LDR,
                      op_STR, op_NOT, op_JMP, op_PSE
  <2>2. /\ Mode' = Mode /\ NextPC' = NextPC
        /\ Registers' = Registers /\ Conditions' = Conditions
    BY <1>1, <1>2, <2>1, ActiveStep DEF Views
  <2>3. QED BY <1>1, <2>2, Silent
<1>7. CASE Opcode(IR) \notin {op_BR, op_ADD, op_JSR, op_AND, op_LDR, op_STR,
                              op_NOT, op_JMP, op_PSE}
  <2>1. State' = "S_18"
    BY <1>1, <1>7 DEF Decoded
  <2>2. /\ Mode' = "running" /\ NextPC' = PC
        /\ Registers' = R /\ Conditions' = NZP
    BY <1>1, <2>1, ActiveStep DEF Views, Plain
  <2>3. ISA!Opcode(IR) \notin {ISA!op_BR, ISA!op_ADD, ISA!op_JSR, ISA!op_AND,
                               ISA!op_LDR, ISA!op_STR, ISA!op_NOT, ISA!op_JMP,
                               ISA!op_PSE}
    BY <1>7, SameFields
       DEF op_BR, op_ADD, op_JSR, op_AND, op_LDR, op_STR, op_NOT, op_JMP,
           op_PSE, ISA!op_BR, ISA!op_ADD, ISA!op_JSR, ISA!op_AND, ISA!op_LDR,
           ISA!op_STR, ISA!op_NOT, ISA!op_JMP, ISA!op_PSE
  <2>4. ISA!Skip(IR)
    BY <1>1, <1>2, <1>3, <2>2, <2>3 DEF ISA!Skip
  <2>5. QED BY <1>4, <2>4, Done
<1>8. QED BY <1>5, <1>6, <1>7

\* A pause ends when Continue has been pressed and let go.
LEMMA PauseRefined ==
    ASSUME Active, State \in {"PauseIR1", "PauseIR2"}
    PROVE  ISA!Next \/ UNCHANGED ISA!vars
<1>1. /\ ram' = ram /\ hex_data' = hex_data
      /\ UNCHANGED <<PC, R, NZP>>
  BY ActiveFacts, MemoryStep, Wait, WaitPause
<1>2. /\ Registers = R /\ Conditions = NZP /\ NextPC = PC /\ ~early
  BY ActiveStep DEF Views, Active
<1>3. /\ State = "PauseIR1" =>
             Mode = "paused" /\ State' = IF Continue THEN "PauseIR2" ELSE "PauseIR1"
      /\ State = "PauseIR2" =>
             Mode = "pressed" /\ State' = IF Continue THEN "PauseIR2" ELSE "S_18"
  BY ActiveFacts, NextStates, ActiveStep DEF Views
<1>4. State' \in {"PauseIR1", "PauseIR2", "S_18"}
  BY <1>3
<1>5. /\ Registers' = Registers /\ Conditions' = Conditions /\ NextPC' = NextPC
      /\ Mode' = IF State' = "PauseIR1" THEN "paused"
                 ELSE IF State' = "PauseIR2" THEN "pressed" ELSE "running"
  BY <1>1, <1>2, <1>4, ActiveStep DEF Views, Plain
<1>6. CASE State' = State
  BY <1>1, <1>3, <1>5, <1>6, Silent
<1>7. CASE State' # State
  <2>1. /\ \/ Mode = "paused" /\ Continue /\ Mode' = "pressed"
           \/ Mode = "pressed" /\ ~Continue /\ Mode' = "running"
    BY <1>3, <1>5, <1>7
  <2>2. (loader = "mem_write") = (loader = "mem_write")'
    BY ActiveFacts, ActiveStep
  <2>3. ~early' /\ ~ISA!Reset /\ UNCHANGED ISA!inputs
    BY ActiveFacts, ActiveStep DEF ISA!Reset, Reset, ISA!inputs
  <2>4. ISA!Resume
    BY <1>1, <1>2, <1>5, <2>1, <2>2, <2>3 DEF ISA!Resume
  <2>5. QED BY <2>3, <2>4 DEF ISA!Step, ISA!Next
<1>8. QED BY <1>6, <1>7

LEMMA ActiveRefined ==
    ASSUME Active PROVE ISA!Next \/ UNCHANGED ISA!vars
<1>1. State \in States \ {"Halted"}
  BY ActiveFacts DEF Active
<1>2. QED BY <1>1, FetchSilent, WaySilent, AfterSilent, OperateRefined,
             StoreRefined, TransferRefined, DecodeRefined, PauseRefined
          DEF States

\* The loader writes the image word by word, the last one ends the loading.
LEMMA LoadRefined ==
    ASSUME IInv, Clock, ~Reset, loader = "mem_write" \/ ram' = ram
    PROVE  ISA!Load
<1>1. TypeOK /\ Loading
  BY DEF IInv, Typed
<1>2. CASE loader # "mem_write"
  <2>1. loader' # "mem_write"
    BY <1>1, <1>2, LoaderStep
  <2>2. QED BY <1>2, <2>1 DEF ISA!Load
<1>3. CASE loader = "mem_write"
  <2>1. /\ ram' = [ram EXCEPT ![address] = Image[address]]
        /\ loader' = IF address < Last THEN "mem_write" ELSE "done"
        /\ address \in 0 .. Last
        /\ \A a \in 0 .. address - 1 : ram[a] = Image[a]
    BY <1>1, <1>3, LoaderStep, SizeAssumption DEF TypeOK, Loading
  <2>2. CASE address < Last
    BY <1>3, <2>1, <2>2 DEF ISA!Load
  <2>3. CASE address = Last
    <3>1. ram \in [0 .. Size - 1 -> Word]
      BY <1>1, WordTypes
    <3>2. ram' = [a \in 0 .. Size - 1 |-> IF a <= Last THEN Image[a] ELSE ram[a]]
      <4> DEFINE loaded == [a \in 0 .. Size - 1 |->
                                IF a <= Last THEN Image[a] ELSE ram[a]]
      <4>1. ASSUME NEW a \in 0 .. Size - 1
            PROVE  ram'[a] = loaded[a]
        <5>1. CASE a = Last
          BY <2>1, <2>3, <3>1, <5>1
        <5>2. CASE a < Last
          <6>1. a \in 0 .. address - 1
            BY <2>3, <5>2, SizeAssumption
          <6>2. QED BY <2>1, <2>3, <3>1, <5>2, <6>1, SizeAssumption
        <5>3. CASE a > Last
          BY <2>1, <2>3, <3>1, <5>3, SizeAssumption
        <5>4. QED BY <5>1, <5>2, <5>3, SizeAssumption
      <4>2. DOMAIN ram' = 0 .. Size - 1 /\ DOMAIN loaded = 0 .. Size - 1
        BY <2>1, <3>1
      <4>3. /\ ram' = [a \in DOMAIN ram' |-> ram'[a]]
            /\ loaded = [a \in DOMAIN loaded |-> loaded[a]]
        BY <2>1, <3>1
      <4> HIDE DEF loaded
      <4>4. ram' = loaded
        BY <4>1, <4>2, <4>3
      <4>5. QED BY <4>4 DEF loaded
    <3>3. loader' # "mem_write"
      BY <2>1, <2>3, SizeAssumption
    <3>4. QED BY <1>3, <3>2, <3>3 DEF ISA!Load
  <2>4. QED BY <2>1, <2>2, <2>3, SizeAssumption
<1>4. QED BY <1>2, <1>3

\* Run starts the program; without it the processor waits.
LEMMA HaltedRefined ==
    ASSUME IInv, Clock, ~Reset, ~early, State = "Halted"
    PROVE  ISA!Next
<1>1. State \in States
  BY WordTypes DEF IInv, Typed
<1>2. ISA!Load
  <2>1. loader # "mem_write" => ram' = ram
    BY <1>1, MemoryStep
  <2>2. QED BY <2>1, LoadRefined
<1>3. hex_data' = hex_data
  <2>1. ~High("Mem_WE")
    BY <1>1, WriteStates
  <2>2. QED BY <2>1 DEF Clock, Display
<1>4. /\ UNCHANGED <<PC, R, NZP>> /\ State' = IF Run THEN "S_18" ELSE "Halted"
      /\ early' = (Run /\ loader = "mem_write")
      /\ UNCHANGED <<Run, Continue, SW>>
  BY Wait, NextStates DEF Clock
<1>5. PC = 0 /\ R = Zeros /\ NZP = "none" /\ hex_data = 0
  BY DEF IInv, Waiting
<1>6. Mode = "halted" /\ NextPC = PC /\ Registers = R /\ Conditions = NZP
  BY View DEF Views
<1>7. /\ ~early' => /\ Mode' = IF Run THEN "running" ELSE "halted"
                    /\ NextPC' = PC /\ Registers' = R /\ Conditions' = NZP
      /\ early' => Mode' = "lost"
  BY <1>4, ViewNext DEF Views, Plain, Mode
<1>8. ~ISA!Reset /\ UNCHANGED ISA!inputs
  BY <1>4 DEF ISA!Reset, Reset, ISA!inputs
<1>9. CASE Run
  <2>1. ISA!Start
    BY <1>2, <1>3, <1>4, <1>5, <1>6, <1>7, <1>9 DEF ISA!Start
  <2>2. QED BY <1>8, <2>1 DEF ISA!Step, ISA!Next
<1>10. CASE ~Run
  <2>1. ISA!Idle
    BY <1>2, <1>3, <1>4, <1>5, <1>6, <1>7, <1>10 DEF ISA!Idle
  <2>2. QED BY <1>8, <2>1 DEF ISA!Step, ISA!Next
<1>11. QED BY <1>9, <1>10

\* A program that was started too early may do anything to the memory once it
\* has been loaded.
LEMMA EarlyRefined ==
    ASSUME IInv, Clock, ~Reset, early
    PROVE  ISA!Next
<1>1. /\ early' /\ Mode = "lost" /\ Mode' = "lost"
      /\ UNCHANGED <<Run, Continue, SW>>
  BY DEF Clock, Mode
<1>2. IF loader = "mem_write" THEN ISA!Load
      ELSE ram' \in [0 .. Size - 1 -> ISA!Word] /\ loader' # "mem_write"
  <2>1. CASE loader = "mem_write"
    BY <2>1, LoadRefined
  <2>2. CASE loader # "mem_write"
    BY <2>2, MemoryTypes, LoaderStep, SameWords DEF IInv, Typed
  <2>3. QED BY <2>1, <2>2
<1>3. ISA!Stray
  BY <1>1, <1>2 DEF ISA!Stray
<1>4. ~ISA!Reset /\ UNCHANGED ISA!inputs
  BY <1>1 DEF ISA!Reset, Reset, ISA!inputs
<1>5. QED BY <1>3, <1>4 DEF ISA!Step, ISA!Next

LEMMA ResetRefined ==
    ASSUME IInv, Clock, Reset
    PROVE  ISA!Next
<1>1. /\ State' = "Halted" /\ ~early' /\ UNCHANGED <<Run, Continue, SW>>
      /\ PC' = 0 /\ R' = Zeros /\ NZP' = "none" /\ hex_data' = 0
  BY DEF Clock, Datapath, Display
<1>2. /\ Mode' = "halted" /\ NextPC' = 0
      /\ Registers' = Zeros /\ Conditions' = "none"
  BY <1>1, ViewNext DEF Views
<1>3. ram' = [ram EXCEPT ![0] = Image[0]] /\ loader' = "mem_write"
  BY LoaderStep DEF IInv, Typed
<1>4. ISA!Restart
  BY <1>1, <1>2, <1>3 DEF ISA!Restart, ISA!Cleared, Zeros
<1>5. ISA!Reset /\ UNCHANGED ISA!inputs
  BY <1>1 DEF ISA!Reset, Reset, ISA!inputs
<1>6. QED BY <1>4, <1>5 DEF ISA!Step, ISA!Next

LEMMA PushRefined ==
    ASSUME IInv, Push
    PROVE  ISA!Next
<1>1. UNCHANGED <<State, datapath, hex_data, memory, early>>
  BY DEF Push
<1>2. UNCHANGED <<NextPC, Registers, Conditions, Mode>>
  BY <1>1 DEF datapath, NextPC, Registers, Conditions, Mode
<1>3. UNCHANGED ISA!machine
  <2>1. early' = early /\ ram' = ram /\ loader' = loader /\ hex_data' = hex_data
    BY <1>1 DEF memory
  <2>2. /\ NextPC' = NextPC /\ Registers' = Registers
        /\ Conditions' = Conditions /\ Mode' = Mode
    BY <1>2
  <2>3. QED BY <2>1, <2>2, Zenon DEF ISA!machine
<1>4. Run' \in BOOLEAN /\ Continue' \in BOOLEAN /\ SW' \in Inputs
  BY PushInputs
<1>5. QED BY <1>3, <1>4 DEF ISA!Push, ISA!Next

LEMMA StepRefined == IInv /\ [Next]_vars => [ISA!Next]_ISA!vars
<1> SUFFICES ASSUME IInv, [Next]_vars PROVE [ISA!Next]_ISA!vars
  OBVIOUS
<1>1. CASE Clock
  <2>1. CASE Active
    BY <2>1, ActiveRefined
  <2>2. CASE ~Active
    BY <1>1, <2>2, ResetRefined, EarlyRefined, HaltedRefined DEF Active
  <2>3. QED BY <2>1, <2>2
<1>2. CASE Push
  BY <1>2, PushRefined
<1>3. CASE UNCHANGED vars
  <2>1. UNCHANGED <<NextPC, Registers, Conditions, Mode>>
    BY <1>3 DEF vars, NextPC, Registers, Conditions, Mode
  <2>2. QED BY <1>3, <2>1 DEF vars, ISA!vars
<1>4. QED BY <1>1, <1>2, <1>3 DEF Next

LEMMA InitRefined == Init => ISA!Init
<1> SUFFICES ASSUME Init PROVE ISA!Init
  OBVIOUS
<1>1. /\ Mode = "halted" /\ NextPC = PC
      /\ Registers = R /\ Conditions = NZP
  BY View DEF Init, Views
<1>2. QED BY <1>1 DEF Init, ISA!Init, Zeros

\* The processor implements its instruction set: from a program loaded before
\* Run each instruction appears as one step, with reads and writes of memory
\* that see the answer of their address (ISDU.sv, datapath.sv, Mem2IO.sv).
THEOREM ProcessorImplementsIsa == Spec => IsaSpec
BY Invariance, InitRefined, StepRefined, PTL DEF Spec, IsaSpec, ISA!Spec

=============================================================================
