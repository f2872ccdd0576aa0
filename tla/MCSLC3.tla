------------------------------- MODULE MCSLC3 -------------------------------
(* SLC3 with a memory of 32 words and a program that uses every opcode.  It *)
(* starts where the switches say.                                           *)
EXTENDS SLC3, TLC

Rrr(op, d, s1, s2) == op * 4096 + d * 512 + s1 * 64 + s2
Rri(op, d, s1, i) == op * 4096 + d * 512 + s1 * 64 + 32 + (i % 32)
Mem(op, d, b, off) == op * 4096 + d * 512 + b * 64 + (off % 64)
Br(nzp, off) == nzp * 512 + (off % 512)
Jsr(off) == op_JSR * 4096 + 2048 + (off % 2048)
Pse(v) == op_PSE * 4096 + v

MCImage == (0 :> Rri(op_AND, 0, 0, 0) @@            \* R0 := 0
            1 :> Mem(op_LDR, 1, 0, -1) @@           \* R1 := switches
            2 :> Rrr(op_JMP, 0, 1, 0) @@            \* go there
            3 :> Pse(2049) @@                       \* pause
            4 :> Mem(op_LDR, 1, 0, -1) @@           \* R1 := switches
            5 :> Mem(op_STR, 1, 0, -1) @@           \* show R1
            6 :> Br(7, -4) @@                       \* repeat
            7 :> Jsr(0) @@                          \* R7 := 8
            8 :> Mem(op_LDR, 2, 7, -5) @@           \* R2 := the pause at 3
            9 :> Mem(op_STR, 2, 7, 2) @@            \* overwrite 10 with it
            10 :> 57344 @@                          \* no instruction; then a pause
            11 :> Rrr(op_NOT, 3, 1, 63) @@          \* R3 := ~R1
            12 :> Rrr(op_ADD, 3, 3, 1) @@           \* R3 := -1
            13 :> Br(3, 1) @@                       \* not taken
            14 :> Rri(op_ADD, 3, 3, 1) @@           \* R3 := 0
            15 :> Br(2, -9))                        \* taken
MCInputs == {3, 7}
=============================================================================
