----------------------------- MODULE CodecSetup -----------------------------
(***************************************************************************)
(* The set-up of the codec: main of sgtl5000_test.c calls SGTL5000_Reg_Rd  *)
(* and SGTL5000_Reg_Wr (sgtl5000.c) one after the other, and these call    *)
(* alt_avalon_i2c_master_tx_rx and alt_avalon_i2c_master_tx, which repeat  *)
(* a transfer that was refused.  Every access to a register of the         *)
(* controller is one step here, so that the bytes on the bus come and go   *)
(* between them.                                                           *)
(***************************************************************************)
EXTENDS I2cMaster

CONSTANTS Script,   \* the calls: [op : {"Rd", "Wr"}, reg : Word16, val : Word16]
          Retries   \* attempts at a transfer (10000 in the driver)

ASSUME ScriptAssumption ==
    /\ Script \in Seq([op : {"Rd", "Wr"}, reg : Registers, val : Word16])
    /\ Retries \in Nat \ {0}

VARIABLES
    pc,        \* the next access of the program
    call,      \* the call of Script being made
    buffer,    \* buffer of SGTL5000_Reg_Rd or SGTL5000_Reg_Wr
    retry,     \* attempts left
    phase,     \* "tx": in master_transmit; "rx": in master_receive
    cmd,       \* the command of the phase to write, from 1
    bytesRead, \* bytes_read of master_receive
    status     \* the status in hand

program == <<pc, call, buffer, retry, phase, cmd, bytesRead, status>>
vars == <<busVars, program>>

Writing == Script[call].op = "Wr"

\* The commands of a phase.  Those that write take their bytes from the
\* buffer as it is when they are queued.
TxSize == IF Writing THEN 5 ELSE 3
PhaseSize == IF phase = "tx" THEN TxSize ELSE 3

CommandOf(ph, k) ==
    IF ph = "tx"
    THEN IF k = 1 THEN [kind |-> "addrW", byte |-> 0, sto |-> FALSE]
         ELSE [kind |-> "byte", byte |-> buffer[k - 1], sto |-> k = 5]
    ELSE IF k = 1 THEN [kind |-> "addrR", byte |-> 0, sto |-> FALSE]
         ELSE [kind |-> "read", byte |-> 0, sto |-> k = 3]

Retryable == {"NACK_ERR", "ARB_LOST_ERR", "BUSY"}

Init == /\ BusInit
        /\ pc = "call" /\ call = 1
        /\ buffer = << >> /\ retry = 0
        /\ phase = "tx" /\ cmd = 1 /\ bytesRead = 0
        /\ status = "SUCCESS"

-----------------------------------------------------------------------------
(* SGTL5000_Reg_Rd, SGTL5000_Reg_Wr.                                       *)

Call == /\ pc = "call" /\ call <= Len(Script)
        /\ LET c == Script[call]
           IN  buffer' = IF Writing THEN <<Hi(c.reg), Lo(c.reg), Hi(c.val), Lo(c.val)>>
                                    ELSE <<Hi(c.reg), Lo(c.reg)>>
        /\ retry' = Retries
        /\ pc' = "attempt"
        /\ UNCHANGED <<busVars, call, phase, cmd, bytesRead, status>>

\* Any status but SUCCESS hangs the program.
Return == /\ pc = "return"
          /\ IF status = "SUCCESS" THEN pc' = "call" /\ call' = call + 1
                                   ELSE pc' = "hung" /\ UNCHANGED call
          /\ UNCHANGED <<busVars, buffer, retry, phase, cmd, bytesRead, status>>

-----------------------------------------------------------------------------
(* alt_avalon_i2c_master_tx, alt_avalon_i2c_master_tx_rx.                  *)

\* mutant: a test after the decrement lets the counter run below zero
AttemptOnceMore == retry = -1

NoAttemptLeft == retry = 0

\* One turn of while (retry--); master_transmit enables the controller, which
\* must not be enabled, and clears ISR.
Attempt ==
    /\ pc = "attempt"
    /\ IF NoAttemptLeft
       THEN pc' = "return" /\ UNCHANGED <<busVars, retry, phase, cmd, status>>
       ELSE /\ retry' = retry - 1
            /\ IF ctrl_en
               THEN /\ status' = "BUSY"
                    /\ UNCHANGED <<busVars, pc, phase, cmd>>
               ELSE /\ EnableAndClear
                    /\ phase' = "tx" /\ cmd' = 1 /\ status' = "SUCCESS"
                    /\ pc' = "write"
                    /\ UNCHANGED <<txfifo, rxfifo, shifter, rxput, rxram0,
                                   codec, stuck, faults>>
    /\ UNCHANGED <<call, buffer, bytesRead>>

StartReceive == phase' = "rx" /\ cmd' = 1 /\ bytesRead' = 0 /\ pc' = "write"

-----------------------------------------------------------------------------
(* alt_avalon_i2c_cmd_write, for each command of master_transmit and       *)
(* master_receive.                                                         *)

WriteCommand == /\ pc = "write" /\ TxReady
                /\ PutCommand(CommandOf(phase, cmd))
                /\ pc' = "check"
                /\ UNCHANGED <<mst, ctrl_en, nack_det, arblost_det, rxfifo, shifter,
                               rxput, rxram0, codec, stuck, faults, call, buffer,
                               retry, phase, cmd, bytesRead, status>>

WriteTimesOut == /\ pc = "write" /\ ~TxReady /\ Stalled
                 /\ status' = "TIMEOUT"
                 /\ pc' = "wait"
                 /\ UNCHANGED <<busVars, call, buffer, retry, phase, cmd, bytesRead>>

Checked == IF arblost_det THEN "ARB_LOST_ERR"
           ELSE IF nack_det THEN "NACK_ERR" ELSE "SUCCESS"

CheckFails == /\ pc = "check" /\ Checked # "SUCCESS"
              /\ status' = Checked
              /\ pc' = "wait"
              /\ UNCHANGED <<busVars, call, buffer, retry, phase, cmd, bytesRead>>

\* More commands to write; before the last of master_receive it takes what
\* has been received.
NextCommand == /\ pc = "check" /\ Checked = "SUCCESS"
               /\ cmd < PhaseSize
               /\ pc' = IF phase = "rx" /\ cmd = 2 THEN "available" ELSE "write"
               /\ cmd' = cmd + 1
               /\ UNCHANGED <<busVars, call, buffer, retry, phase, bytesRead, status>>

\* The last command is written: a write waits for its STOP, the address of a
\* read is followed by master_receive with a RESTART, which reads its bytes.
LastCommand == /\ pc = "check" /\ Checked = "SUCCESS"
               /\ cmd = PhaseSize
               /\ CASE phase = "rx" ->
                           pc' = "read" /\ UNCHANGED <<phase, cmd, bytesRead>>
                    [] phase = "tx" /\ Writing ->
                           pc' = "wait" /\ UNCHANGED <<phase, cmd, bytesRead>>
                    [] OTHER -> StartReceive
               /\ UNCHANGED <<busVars, call, buffer, retry, status>>

-----------------------------------------------------------------------------
(* alt_avalon_i2c_master_receive: its bytes go to the buffer that held     *)
(* the address of the register.                                            *)

Stored(b) == [buffer EXCEPT ![bytesRead + 1] = b]

PopRx == /\ rxfifo' = Tail(rxfifo)
         /\ UNCHANGED <<mst, ctrl_en, nack_det, arblost_det, txfifo, shifter,
                        rxput, rxram0, codec, stuck, faults>>

\* alt_avalon_i2c_rx_read_available: one byte at most can have come.
ReadAvailable == /\ pc = "available"
                 /\ IF rxfifo = << >>
                    THEN UNCHANGED <<busVars, buffer, bytesRead>>
                    ELSE /\ PopRx
                         /\ buffer' = Stored(Head(rxfifo))
                         /\ bytesRead' = bytesRead + 1
                 /\ pc' = "write"
                 /\ UNCHANGED <<call, retry, phase, cmd, status>>

AfterRead == pc' = IF bytesRead' = 2 THEN "wait" ELSE "read"

ReadByte == /\ pc = "read" /\ rxfifo # << >>
            /\ PopRx
            /\ buffer' = Stored(Head(rxfifo))
            /\ bytesRead' = bytesRead + 1
            /\ AfterRead
            /\ UNCHANGED <<call, retry, phase, cmd, status>>

\* mutant: a timeout returns the status alt_avalon_i2c_rx_read began with
ForgetTimeout == status' = status

ReportTimeout == status' = "TIMEOUT"

\* mutant: alt_avalon_i2c_rx_read waits for ever
ReadNeverTimesOut == FALSE

ReadTimesOut == pc = "read" /\ rxfifo = << >> /\ Stalled

\* A timeout stores what the empty FIFO's memory shows all the same.
ReadGivesUp == /\ ReadTimesOut
               /\ buffer' = Stored(rxram0)
               /\ bytesRead' = bytesRead + 1
               /\ ReportTimeout
               /\ pc' = IF status' = "SUCCESS" /\ bytesRead' < 2 THEN "read" ELSE "wait"
               /\ UNCHANGED <<busVars, call, retry, phase, cmd>>

-----------------------------------------------------------------------------
(* The end of both: wait until the controller is idle, look for a NACK,    *)
(* disable the controller.                                                 *)

AwaitIdle == /\ pc = "wait" /\ ~Busy
             /\ pc' = "close"
             /\ UNCHANGED <<busVars, call, buffer, retry, phase, cmd, bytesRead, status>>

IdleTimesOut == /\ pc = "wait" /\ Busy /\ Stalled
                /\ status' = "TIMEOUT"
                /\ pc' = "close"
                /\ UNCHANGED <<busVars, call, buffer, retry, phase, cmd, bytesRead>>

\* mutant: the NACK of a byte sent after the last command was written is missed
IgnoreNack == status

FinalStatus == IF nack_det THEN "NACK_ERR" ELSE status

\* mutant: the controller stays enabled after a transfer
LeaveEnabled == UNCHANGED <<ctrl_en, mst>>

EndTransfer == DisableIp

\* A transmission that timed out is not repeated: master_tx_rx goes on to
\* receive with the controller disabled.
Close == /\ pc = "close"
         /\ status' = FinalStatus
         /\ EndTransfer
         /\ IF FinalStatus \in Retryable
            THEN pc' = "attempt" /\ UNCHANGED <<phase, cmd, bytesRead>>
            ELSE IF phase = "tx" /\ ~Writing
                 THEN StartReceive
                 ELSE pc' = "return" /\ UNCHANGED <<phase, cmd, bytesRead>>
         /\ UNCHANGED <<nack_det, arblost_det, txfifo, rxfifo, shifter, rxput,
                        rxram0, codec, stuck, faults, call, buffer, retry>>

Program == \/ Call \/ Return \/ Attempt
           \/ WriteCommand \/ WriteTimesOut \/ CheckFails \/ NextCommand \/ LastCommand
           \/ ReadAvailable \/ ReadByte \/ ReadGivesUp
           \/ AwaitIdle \/ IdleTimesOut \/ Close

Bus == (Controller \/ BusSticks) /\ UNCHANGED program

Next == Program \/ Bus

Spec == Init /\ [][Next]_vars

\* The processor runs, and so does the clock of a bus that is not held.
FairSpec == Spec /\ WF_vars(Program) /\ WF_vars(Controller /\ UNCHANGED program)
-----------------------------------------------------------------------------
(* Properties.                                                             *)

\* The types of the variables; in particular a transfer is attempted no more
\* than Retries times and no FIFO overflows.
TypeOK == /\ BusTypeOK
          /\ pc \in {"call", "attempt", "write", "check", "available", "read",
                     "wait", "close", "return", "hung"}
          /\ call \in 1 .. Len(Script) + 1
          /\ buffer \in Seq(Byte)
          /\ retry \in 0 .. Retries
          /\ phase \in {"tx", "rx"}
          /\ cmd \in 1 .. 5
          /\ bytesRead \in 0 .. 2
          /\ status \in Retryable \cup {"SUCCESS", "TIMEOUT"}

Finished == pc = "call" /\ call > Len(Script)

\* A read that succeeds returns both bytes of the register the codec was
\* pointed at: never a byte of the empty FIFO, or bytes of two attempts.
ReadsOneRegister ==
    pc = "return" /\ status = "SUCCESS" /\ ~Writing
        => WordOf(buffer[1], buffer[2]) = Contents(pointer)

\* The program hangs only when the bus is held, when arbitration was lost
\* after the last command was written, or when every one of its attempts met
\* a fault.
HangsForAReason == pc = "hung" => stuck \/ arblost_det \/ faults >= Retries

\* What the calls promise (CodecRegisters): a register changes only by the
\* write in hand, and a write returns when the register holds its value, or
\* when arbitration was lost too late for the driver to look.
Registers_ == INSTANCE CodecRegisters
                 WITH done <- call - 1, lost <- arblost_det

RegistersSpec == Registers_!Spec

\* The set-up ends: it finishes or reports an error and hangs.
SetupEnds == <>(Finished \/ pc = "hung")

\* What altera_avalon_i2c.h:746-761 says of alt_avalon_i2c_master_tx_rx: a
\* transfer that is refused is repeated, and the two buffers can be the same.
\* A read that succeeds then returns the register it was asked for.
ReadsTheRegisterAsked ==
    pc = "return" /\ status = "SUCCESS" /\ ~Writing
        => WordOf(buffer[1], buffer[2]) = regs[Script[call].reg]
=============================================================================
