----------------------------- MODULE SLC3Words ------------------------------
(***************************************************************************)
(* Words of the SLC-3, the fields of its instructions and its arithmetic   *)
(* (ISDU.sv, datapath.sv, ALU.sv, SLC3_2.sv).                              *)
(***************************************************************************)
EXTENDS Integers

WordSize == 256 * 256
Word == 0 .. WordSize - 1
InOut == WordSize - 1   \* the address of the switches and of the hex display

Bit(w, weight) == (w \div weight) % 2

\* The low bits of w below weight 2 * sign, as a signed number in a word.
Sext(w, sign) == LET v == w % (2 * sign)
                 IN  IF v < sign THEN v ELSE v + WordSize - 2 * sign

Plus(a, b) == (a + b) % WordSize
Not(a) == WordSize - 1 - a

\* The bits that a and b have in common, of the low eight.
AndByte(a, b) ==
    LET both(weight) == weight * Bit(a, weight) * Bit(b, weight)
    IN  both(1) + both(2) + both(4) + both(8)
        + both(16) + both(32) + both(64) + both(128)

And(a, b) == 256 * AndByte(a \div 256, b \div 256) + AndByte(a % 256, b % 256)

\* The condition that a value sets.
Cond(v) == IF v = 0 THEN "z" ELSE IF v < WordSize \div 2 THEN "p" ELSE "n"

-----------------------------------------------------------------------------
(* The fields of an instruction w.                                         *)

Opcode(w) == w \div 4096
DR(w) == (w \div 512) % 8       \* the source of a store, too
SR1(w) == (w \div 64) % 8       \* the base of an address, too
SR2(w) == w % 8
Imm5(w) == Sext(w, 16)
Off6(w) == Sext(w, 32)
Off9(w) == Sext(w, 256)
Off11(w) == Sext(w, 1024)

\* The conditions on which a branch is taken.
Nzp(w) == {c \in {"n", "z", "p"} :
              Bit(w, IF c = "n" THEN 2048 ELSE IF c = "z" THEN 1024 ELSE 512) = 1}

op_BR == 0
op_ADD == 1
op_JSR == 4
op_AND == 5
op_LDR == 6
op_STR == 7
op_NOT == 9
op_JMP == 12
op_PSE == 13

\* The second operand of ADD and AND with the registers R.
Operand(w, R) == IF Bit(w, 32) = 1 THEN Imm5(w) ELSE R[SR2(w)]

\* The register in which JSR saves the PC.
Link(w) == IF Bit(w, 2048) = 1 THEN 7 ELSE DR(w)
=============================================================================
