------------------------------ MODULE SLC3Isa -------------------------------
(***************************************************************************)
(* What the SLC-3 promises to a program: instructions one after the other, *)
(* each in one step, from an image that has been loaded before Run.        *)
(***************************************************************************)
EXTENDS SLC3Words

CONSTANTS Size,      \* words of memory: 1024
          Last,      \* the address of the last word loaded: 255
          Image,     \* the words loaded
          Inputs     \* the values of the switches

VARIABLES mode, loading, PC, R, CC, M, hex,
          Run, Continue, SW

machine == <<mode, loading, PC, R, CC, M, hex>>
inputs == <<Run, Continue, SW>>
vars == <<mode, loading, PC, R, CC, M, hex, Run, Continue, SW>>

Reset == Run /\ Continue

Cleared == /\ mode' = "halted" /\ PC' = 0 /\ CC' = "none" /\ hex' = 0
           /\ R' = [r \in 0 .. 7 |-> 0]

Init == /\ mode = "halted" /\ PC = 0 /\ CC = "none" /\ hex = 0
        /\ R = [r \in 0 .. 7 |-> 0]
        /\ M = [a \in 0 .. Size - 1 |-> 0]
        /\ loading = TRUE
        /\ Run = FALSE /\ Continue = FALSE /\ SW \in Inputs

-----------------------------------------------------------------------------
(* One instruction.                                                        *)

\* A word read from address a.
Read(a) == IF a = InOut THEN SW ELSE M[a % Size]

\* The instruction at the PC; behind the switches it may have been read any
\* time ago.
Fetched == IF PC = InOut THEN Inputs ELSE {M[PC % Size]}

Next1 == Plus(PC, 1)

Set(r, v) == R' = [R EXCEPT ![r] = v] /\ CC' = Cond(v)

Operate(w) ==
    /\ \/ /\ Opcode(w) = op_ADD
          /\ Set(DR(w), Plus(R[SR1(w)], Operand(w, R)))
       \/ /\ Opcode(w) = op_AND
          /\ Set(DR(w), And(R[SR1(w)], Operand(w, R)))
       \/ /\ Opcode(w) = op_NOT
          /\ Set(DR(w), Not(R[SR1(w)]))
       \/ /\ Opcode(w) = op_LDR
          /\ Set(DR(w), Read(Plus(R[SR1(w)], Off6(w))))
    /\ PC' = Next1
    /\ UNCHANGED <<mode, M, hex>>

Store(w) ==
    LET a == Plus(R[SR1(w)], Off6(w))
        v == R[DR(w)]
    IN  /\ Opcode(w) = op_STR
        /\ M' = [M EXCEPT ![a % Size] = v]
        /\ hex' = IF a = InOut THEN v ELSE hex
        /\ PC' = Next1
        /\ UNCHANGED <<mode, R, CC>>

Transfer(w) ==
    /\ \/ /\ Opcode(w) = op_BR
          /\ PC' = IF CC \in Nzp(w) THEN Plus(Next1, Off9(w)) ELSE Next1
          /\ R' = R
       \/ /\ Opcode(w) = op_JMP
          /\ PC' = R[SR1(w)]
          /\ R' = R
       \/ /\ Opcode(w) = op_JSR
          /\ PC' = Plus(Next1, Off11(w))
          /\ R' = [R EXCEPT ![Link(w)] = Next1]
    /\ UNCHANGED <<mode, CC, M, hex>>

Pause(w) == /\ Opcode(w) = op_PSE
            /\ mode' = "paused" /\ PC' = Next1
            /\ UNCHANGED <<R, CC, M, hex>>

Skip(w) == /\ Opcode(w) \notin {op_BR, op_ADD, op_JSR, op_AND, op_LDR, op_STR,
                                op_NOT, op_JMP, op_PSE}
           /\ PC' = Next1
           /\ UNCHANGED <<mode, R, CC, M, hex>>

Instruction ==
    /\ mode = "running"
    /\ \E w \in Fetched :
          Operate(w) \/ Store(w) \/ Transfer(w) \/ Pause(w) \/ Skip(w)
    /\ UNCHANGED loading

-----------------------------------------------------------------------------
(* The rest of the machine.                                                *)

\* Words of the image are written; loading ends when all have been.
Load == \/ /\ loading /\ loading' = loading
           /\ \E a \in 0 .. Last : M' = [M EXCEPT ![a] = Image[a]]
        \/ /\ loading /\ loading' = FALSE
           /\ M' = [a \in 0 .. Size - 1 |-> IF a <= Last THEN Image[a] ELSE M[a]]
        \/ /\ ~loading /\ UNCHANGED <<loading, M>>

\* A program that is started before it is loaded is lost.
Start == /\ mode = "halted" /\ Run
         /\ mode' = IF loading THEN "lost" ELSE "running"
         /\ Load
         /\ UNCHANGED <<PC, R, CC, hex>>

Idle == /\ mode = "halted" /\ ~Run
        /\ Load
        /\ UNCHANGED <<mode, PC, R, CC, hex>>

Resume == /\ \/ mode = "paused" /\ Continue /\ mode' = "pressed"
             \/ mode = "pressed" /\ ~Continue /\ mode' = "running"
          /\ UNCHANGED <<loading, PC, R, CC, M, hex>>

Stray == /\ mode = "lost"
         /\ IF loading THEN Load
            ELSE /\ M' \in [0 .. Size - 1 -> Word]
                 /\ UNCHANGED loading
         /\ UNCHANGED <<mode, PC, R, CC, hex>>

Restart == /\ Cleared
           /\ loading' = TRUE
           /\ M' = [M EXCEPT ![0] = Image[0]]

Step == /\ IF Reset THEN Restart
           ELSE Start \/ Idle \/ Instruction \/ Resume \/ Stray
        /\ UNCHANGED inputs

Push == /\ Run' \in BOOLEAN /\ Continue' \in BOOLEAN /\ SW' \in Inputs
        /\ UNCHANGED machine

Next == Step \/ Push

Spec == Init /\ [][Next]_vars
=============================================================================
