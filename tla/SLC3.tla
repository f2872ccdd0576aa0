-------------------------------- MODULE SLC3 --------------------------------
(***************************************************************************)
(* The SLC-3 processor: the state machine of ISDU.sv, the data path, the   *)
(* memory-mapped input and output of Mem2IO.sv, the on-chip memory, and    *)
(* Instantiateram.sv, which writes the program into it after a reset.      *)
(* ISDU.sv is read with the misplaced lines 124-143 back behind line 151.  *)
(***************************************************************************)
EXTENDS SLC3Words

CONSTANTS Size,      \* words of memory: 1024
          Last,      \* the address of the last word loaded: 255
          Image,     \* the words loaded
          Inputs     \* the values of the switches

ASSUME SizeAssumption == /\ Size \in Nat \ {0}
                         /\ Last \in 0 .. Size - 1
                         /\ Image \in [0 .. Last -> Word]
                         /\ Inputs \subseteq Word

VARIABLES State, PC, IR, MAR, MDR, R, NZP, BEN, LED,
          hex_data,
          ram, latch, q,       \* the memory and its two registers on the way out
          loader, address,     \* Instantiateram
          Run, Continue, SW,   \* the synchronised inputs
          early     \* history: the program was started before it was loaded

datapath == <<PC, IR, MAR, MDR, R, NZP, BEN>>
memory == <<ram, latch, q, loader, address>>
vars == <<State, PC, IR, MAR, MDR, R, NZP, BEN, LED, hex_data, ram, latch, q,
          loader, address, Run, Continue, SW, early>>

Reset == Run /\ Continue
Zeros == [r \in 0 .. 7 |-> 0]

Init == /\ State = "Halted" /\ PC = 0 /\ IR = 0 /\ MAR = 0 /\ MDR = 0
        /\ R = Zeros /\ NZP = "none" /\ BEN = FALSE /\ LED = 0 /\ hex_data = 0
        /\ ram = [a \in 0 .. Size - 1 |-> 0] /\ latch = 0 /\ q = 0
        /\ loader = "mem_write" /\ address = 0
        /\ Run = FALSE /\ Continue = FALSE /\ SW \in Inputs
        /\ early = FALSE

-----------------------------------------------------------------------------
(* The state machine.  An operator marked "mutant" is a plausible bug in   *)
(* the definition that follows it, kept to show that a property can fail.  *)

\* The signals that are high in each state; of a multiplexer with more than
\* two inputs the name of the input is given.
Control ==
    [Halted   |-> {},
     PauseIR1 |-> {"LD_LED"},
     PauseIR2 |-> {},
     S_18     |-> {"GatePC", "LD_MAR", "LD_PC"},
     S_33_1   |-> {"Mem_OE"},
     S_33_2   |-> {"Mem_OE"},
     S_33_3   |-> {"Mem_OE", "LD_MDR"},
     S_35     |-> {"GateMDR", "LD_IR"},
     S_32     |-> {"LD_BEN"},
     S_01     |-> {"GateALU", "SR1MUX", "LD_REG", "LD_CC"},
     S_05     |-> {"GateALU", "SR1MUX", "LD_REG", "LD_CC", "ALUK_and"},
     S_09     |-> {"GateALU", "SR1MUX", "LD_REG", "LD_CC", "ALUK_not"},
     S_06     |-> {"GateMARMUX", "SR1MUX", "ADDR1MUX", "ADDR2MUX_6", "LD_MAR"},
     S_25_1   |-> {"Mem_OE"},
     S_25_2   |-> {"Mem_OE"},
     S_25_3   |-> {"Mem_OE", "LD_MDR"},
     S_27     |-> {"GateMDR", "LD_REG", "LD_CC"},
     S_07     |-> {"GateMARMUX", "SR1MUX", "ADDR1MUX", "ADDR2MUX_6", "LD_MAR"},
     S_23     |-> {"GateALU", "ALUK_pass", "LD_MDR"},
     S_16_1   |-> {"Mem_WE"},
     S_16_2   |-> {"Mem_WE"},
     S_16_3   |-> {"Mem_WE"},
     S_04     |-> {"GatePC", "LD_REG", "DRMUX"},
     S_21     |-> {"PCMUX_adder", "ADDR2MUX_11", "LD_PC"},
     S_12     |-> {"PCMUX_adder", "SR1MUX", "ADDR1MUX", "LD_PC"},
     S_00     |-> {},
     S_22     |-> {"PCMUX_adder", "ADDR2MUX_9", "LD_PC"}]

High(signal) == signal \in Control[State]

Decoded ==
    CASE Opcode(IR) = op_ADD -> "S_01"
      [] Opcode(IR) = op_AND -> "S_05"
      [] Opcode(IR) = op_NOT -> "S_09"
      [] Opcode(IR) = op_LDR -> "S_06"
      [] Opcode(IR) = op_STR -> "S_07"
      [] Opcode(IR) = op_JSR -> "S_04"
      [] Opcode(IR) = op_JMP -> "S_12"
      [] Opcode(IR) = op_BR  -> "S_00"
      [] Opcode(IR) = op_PSE -> "PauseIR1"
      [] OTHER               -> "S_18"

\* mutant: memory is given two clocks to answer an instruction fetch
TwoClocks == [S_18 |-> "S_33_1", S_33_1 |-> "S_33_3",
              S_33_3 |-> "S_35", S_35 |-> "S_32",
              S_06 |-> "S_25_1", S_25_1 |-> "S_25_2", S_25_2 |-> "S_25_3",
              S_25_3 |-> "S_27",
              S_07 |-> "S_23", S_23 |-> "S_16_1", S_16_1 |-> "S_16_2",
              S_16_2 |-> "S_16_3",
              S_04 |-> "S_21"]

\* The states that follow another one whatever the inputs.
Successor == [S_18 |-> "S_33_1", S_33_1 |-> "S_33_2", S_33_2 |-> "S_33_3",
              S_33_3 |-> "S_35", S_35 |-> "S_32",
              S_06 |-> "S_25_1", S_25_1 |-> "S_25_2", S_25_2 |-> "S_25_3",
              S_25_3 |-> "S_27",
              S_07 |-> "S_23", S_23 |-> "S_16_1", S_16_1 |-> "S_16_2",
              S_16_2 |-> "S_16_3",
              S_04 |-> "S_21"]

\* mutant: the last states of the instructions have no arc and keep the default
NoArcBack ==
    CASE State = "Halted"            -> IF Run THEN "S_18" ELSE "Halted"
      [] State = "PauseIR1"          -> IF Continue THEN "PauseIR2" ELSE "PauseIR1"
      [] State = "PauseIR2"          -> IF Continue THEN "PauseIR2" ELSE "S_18"
      [] State = "S_32"              -> Decoded
      [] State = "S_00"              -> IF BEN THEN "S_22" ELSE "S_18"
      [] State \in DOMAIN Successor  -> Successor[State]
      [] OTHER                       -> State

Next_state ==
    CASE State = "Halted"            -> IF Run THEN "S_18" ELSE "Halted"
      [] State = "PauseIR1"          -> IF Continue THEN "PauseIR2" ELSE "PauseIR1"
      [] State = "PauseIR2"          -> IF Continue THEN "PauseIR2" ELSE "S_18"
      [] State = "S_32"              -> Decoded
      [] State = "S_00"              -> IF BEN THEN "S_22" ELSE "S_18"
      [] State \in DOMAIN Successor  -> Successor[State]
      [] OTHER                       -> "S_18"

-----------------------------------------------------------------------------
(* The data path.                                                          *)

SR1_Out == R[IF High("SR1MUX") THEN SR1(IR) ELSE DR(IR)]

ALU == CASE High("ALUK_and")  -> And(SR1_Out, Operand(IR, R))
         [] High("ALUK_not")  -> Not(SR1_Out)
         [] High("ALUK_pass") -> SR1_Out
         [] OTHER             -> Plus(SR1_Out, Operand(IR, R))

Adder == Plus(IF High("ADDR1MUX") THEN SR1_Out ELSE PC,
              CASE High("ADDR2MUX_6")  -> Off6(IR)
                [] High("ADDR2MUX_9")  -> Off9(IR)
                [] High("ADDR2MUX_11") -> Off11(IR)
                [] OTHER               -> 0)

\* No register loads from the bus when nothing drives it.
Bus == CASE High("GatePC")     -> PC
         [] High("GateMDR")    -> MDR
         [] High("GateMARMUX") -> Adder
         [] High("GateALU")    -> ALU
         [] OTHER              -> 0

Data_to_CPU == IF ~High("Mem_OE") \/ High("Mem_WE") THEN 0
               ELSE IF MAR = InOut THEN SW ELSE q

\* mutant: JSR saves the PC in the register of the field
FieldOnly == DR(IR)

Destination == IF High("DRMUX") THEN Link(IR) ELSE DR(IR)

Loads(signal, register, value) == IF High(signal) THEN value ELSE register

Datapath ==
    IF Reset
    THEN /\ PC' = 0 /\ IR' = 0 /\ MAR' = 0 /\ MDR' = 0
         /\ R' = Zeros /\ NZP' = "none" /\ BEN' = FALSE
    ELSE /\ PC' = Loads("LD_PC", PC,
                        IF High("PCMUX_adder") THEN Adder ELSE Plus(PC, 1))
         /\ IR' = Loads("LD_IR", IR, Bus)
         /\ MAR' = Loads("LD_MAR", MAR, Bus)
         /\ MDR' = Loads("LD_MDR", MDR,
                         IF High("Mem_OE") THEN Data_to_CPU ELSE Bus)
         /\ R' = Loads("LD_REG", R, [R EXCEPT ![Destination] = Bus])
         /\ NZP' = Loads("LD_CC", NZP, Cond(Bus))
         /\ BEN' = Loads("LD_BEN", BEN, NZP \in Nzp(IR))

Display == /\ LED' = IF High("LD_LED") THEN IR % 1024 ELSE 0
           /\ hex_data' = IF Reset THEN 0
                          ELSE IF High("Mem_WE") /\ MAR = InOut THEN MDR
                          ELSE hex_data

-----------------------------------------------------------------------------
(* The memory.  A word read while the same address is written is undefined.*)

we_select == Reset \/ loader = "mem_write"
init_ADDR == IF Reset THEN 0 ELSE address

Access ==
    LET a == IF we_select THEN init_ADDR ELSE MAR % Size
        data == IF we_select THEN Image[init_ADDR] ELSE MDR
        wren == we_select \/ High("Mem_WE")
    IN  /\ ram' = IF wren THEN [ram EXCEPT ![a] = data] ELSE ram
        /\ latch' \in IF ~High("Mem_OE") THEN {latch}
                      ELSE IF wren THEN {ram[a], data} ELSE {ram[a]}
        /\ q' = latch

\* mutant: the address counts in the done state, too
LoaderCountsOn ==
    IF Reset
    THEN loader' = "mem_write" /\ address' = 0
    ELSE /\ loader' = CASE loader = "mem_write" /\ address < Last -> "mem_write"
                        [] loader = "mem_write" /\ address = Last -> "done"
                        [] OTHER                                  -> "idle"
         /\ address' = IF loader = "idle" THEN address ELSE address + 1

Loader ==
    IF Reset
    THEN loader' = "mem_write" /\ address' = 0
    ELSE /\ loader' = CASE loader = "mem_write" /\ address < Last -> "mem_write"
                        [] loader = "mem_write" /\ address = Last -> "done"
                        [] OTHER                                  -> "idle"
         /\ address' = IF loader = "mem_write" THEN address + 1 ELSE address

-----------------------------------------------------------------------------
Clock == /\ State' = IF Reset THEN "Halted" ELSE Next_state
         /\ Datapath /\ Display /\ Access /\ Loader
         /\ early' = (~Reset /\ (early \/ (State = "Halted" /\ Run
                                           /\ loader = "mem_write")))
         /\ UNCHANGED <<Run, Continue, SW>>

Push == /\ \/ Run' = ~Run /\ UNCHANGED <<Continue, SW>>
           \/ Continue' = ~Continue /\ UNCHANGED <<Run, SW>>
           \/ SW' \in Inputs /\ UNCHANGED <<Run, Continue>>
        /\ UNCHANGED <<State, datapath, LED, hex_data, memory, early>>

Next == Clock \/ Push

Spec == Init /\ [][Next]_vars
FairSpec == Spec /\ WF_vars(Clock)

-----------------------------------------------------------------------------
(* What a program sees.                                                    *)

\* The states in which the effect of the instruction is still to come.
Pending == {"S_33_1", "S_33_2", "S_33_3", "S_35", "S_32", "S_01", "S_05", "S_09",
            "S_06", "S_25_1", "S_25_2", "S_25_3", "S_07", "S_23", "S_16_1",
            "S_04", "S_12", "S_00"}

\* The address before a.
Before(a) == Plus(a, WordSize - 1)

NextPC == CASE State \in Pending -> Before(PC)
            [] State = "S_21"    -> Plus(PC, Off11(IR))
            [] State = "S_22"    -> Plus(PC, Off9(IR))
            [] OTHER             -> PC

Mode == IF early THEN "lost"
        ELSE CASE State = "Halted"   -> "halted"
               [] State = "PauseIR1" -> "paused"
               [] State = "PauseIR2" -> "pressed"
               [] OTHER              -> "running"

\* A value read from memory reaches its register, and the conditions, a clock
\* after MDR.
Registers == IF State = "S_27" THEN [R EXCEPT ![DR(IR)] = MDR] ELSE R
Conditions == IF State = "S_27" THEN Cond(MDR) ELSE NZP

ISA == INSTANCE SLC3Isa
       WITH mode <- Mode, loading <- loader = "mem_write",
            PC <- IF early THEN 0 ELSE NextPC,
            R <- IF early THEN Zeros ELSE Registers,
            CC <- IF early THEN "none" ELSE Conditions,
            M <- ram, hex <- IF early THEN 0 ELSE hex_data

IsaSpec == ISA!Spec
-----------------------------------------------------------------------------
(* Properties.                                                             *)

\* The types of the variables.
TypeOK == /\ State \in DOMAIN Control
          /\ {PC, IR, MAR, MDR, hex_data, latch, q, SW} \subseteq Word
          /\ R \in [0 .. 7 -> Word]
          /\ NZP \in {"none", "n", "z", "p"}
          /\ LED \in 0 .. 1023
          /\ ram \in [0 .. Size - 1 -> Word]
          /\ loader \in {"mem_write", "done", "idle"}
          /\ address \in 0 .. Last + 1
          /\ {BEN, Run, Continue, early} \subseteq BOOLEAN

\* While an instruction is executed IR holds the word in memory before the PC:
\* the memory has answered before MDR was loaded (the three wait states).
InstructionFetched ==
    State \in Pending \ {"S_33_1", "S_33_2", "S_33_3", "S_35"} /\ ~early =>
        LET a == Before(PC)
        IN  IF a = InOut THEN IR \in Inputs ELSE IR = ram[a % Size]

\* Every instruction ends.
InstructionsEnd ==
    State \in Pending ~> State \in {"S_18", "Halted", "PauseIR1", "PauseIR2"}
=============================================================================
