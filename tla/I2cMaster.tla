----------------------------- MODULE I2cMaster ------------------------------
(***************************************************************************)
(* The I2C controller of the pedalboard (altera_avalon_i2c_*.v of its      *)
(* Platform Designer system) and the SGTL5000 codec it talks to.  The      *)
(* driver queues one command per byte in a FIFO; the master FSM shifts     *)
(* them out or in, one byte a step, between a START and a STOP.            *)
(*                                                                         *)
(* A byte the codec refuses, one whose acknowledgement is lost and one     *)
(* that loses arbitration abort the transfer: the FSM raises a bit of ISR  *)
(* that keeps both FIFOs empty until the driver clears it.  A bus line     *)
(* that is held for good stops the FSM where it is.                        *)
(***************************************************************************)
EXTENDS Integers, Sequences

CONSTANTS FIFO_DEPTH,  \* of both FIFOs (system.h: 4)
          ResetValue,  \* [register address -> value after power-up]
          PowerUp,     \* bytes the memory of the receive FIFO may power up with
          MaxFaults    \* bound on the bytes that go wrong

Byte == 0 .. 255
Word16 == 0 .. 256 * 256 - 1
Hi(w) == w \div 256
Lo(w) == w % 256
WordOf(hi, lo) == hi * 256 + lo

ASSUME I2cAssumption ==
    /\ FIFO_DEPTH \in Nat \ {0, 1}
    /\ DOMAIN ResetValue \subseteq Word16
    /\ ResetValue \in [DOMAIN ResetValue -> Word16]
    /\ PowerUp \subseteq Byte /\ PowerUp # {}
    /\ MaxFaults \in Nat

VARIABLES
    mst,      \* mst_fsm_state
    ctrl_en,  \* CTRL.EN
    nack_det, arblost_det,   \* bits of ISR, kept until the driver clears them
    txfifo, rxfifo,          \* commands to do, bytes received
    shifter,  \* the command being done
    rxput,    \* place of the receive FIFO's memory the next byte goes to
    rxram0,   \* what place 0 of that memory holds
    stuck,    \* a line of the bus is held for good
    faults,   \* bytes that went wrong
    taken,    \* bytes the codec took since it was last addressed for writing
    given,    \* bytes it gave since it was last addressed for reading
    pointer,  \* the codec's current register
    regs      \* the codec's registers

controller == <<mst, ctrl_en, nack_det, arblost_det, txfifo, rxfifo, shifter,
                rxput, rxram0>>
codec == <<taken, given, pointer, regs>>
busVars == <<controller, codec, stuck, faults>>

\* Commands: an address for writing or reading, a byte to write, a byte to
\* read; sto asks for a STOP after it.
Command == [kind : {"addrW", "addrR", "read"}, byte : {0}, sto : BOOLEAN]
           \cup [kind : {"byte"}, byte : Byte, sto : BOOLEAN]

Registers == DOMAIN ResetValue

BusInit == /\ mst = "idle" /\ ctrl_en = FALSE
           /\ nack_det = FALSE /\ arblost_det = FALSE
           /\ txfifo = << >> /\ rxfifo = << >>
           /\ shifter = [kind |-> "addrW", byte |-> 0, sto |-> FALSE]
           /\ rxput = 0 /\ rxram0 \in PowerUp
           /\ stuck = FALSE /\ faults = 0
           /\ taken = << >> /\ given = 0
           /\ pointer = 0 /\ regs = ResetValue

flush == nack_det \/ arblost_det
Busy == mst \notin {"idle", "preIdle"}
TxReady == ctrl_en /\ Len(txfifo) < FIFO_DEPTH

\* The FSM does nothing until the driver does: the polling loops of the
\* driver, each of which sleeps for 90 ms before it gives up, outlast every
\* step of the FSM but not this.
Stalled == \/ stuck
           \/ mst \in {"idle", "preIdle"}
           \/ mst \in {"preStart", "hold"} /\ txfifo = << >>

-----------------------------------------------------------------------------
(* The codec.                                                              *)

Contents(r) == IF r \in Registers THEN regs[r] ELSE 0

\* It takes a byte: two for the register, two for its new value.
TakeByte(b) ==
    /\ taken' = Append(taken, b)
    /\ pointer' = IF Len(taken) = 1 THEN WordOf(taken[1], b) ELSE pointer
    /\ regs' = IF Len(taken) = 3 /\ pointer \in Registers
               THEN [regs EXCEPT ![pointer] = WordOf(taken[3], b)]
               ELSE regs
    /\ UNCHANGED given

Take(cmd) ==
    CASE cmd.kind = "addrW" -> taken' = << >> /\ UNCHANGED <<given, pointer, regs>>
      [] cmd.kind = "addrR" -> given' = 0 /\ UNCHANGED <<taken, pointer, regs>>
      [] OTHER              -> TakeByte(cmd.byte)

-----------------------------------------------------------------------------
(* The master FSM.                                                         *)

\* After a byte: STOP if the command asks for it, the next command if there
\* is one, else the bus is held.
Proceed ==
    IF shifter.sto THEN mst' = "stop" /\ UNCHANGED <<txfifo, shifter>>
    ELSE IF txfifo # << >>
         THEN /\ mst' = "shift"
              /\ shifter' = Head(txfifo)
              /\ txfifo' = Tail(txfifo)
         ELSE mst' = "hold" /\ UNCHANGED <<txfifo, shifter>>

\* START, or the end of a hold, when there is a command.
Pop == /\ ~stuck
       /\ mst \in {"preStart", "hold"}
       /\ txfifo # << >>
       /\ mst' = "shift"
       /\ shifter' = Head(txfifo)
       /\ txfifo' = Tail(txfifo)
       /\ UNCHANGED <<ctrl_en, nack_det, arblost_det, rxfifo, rxput, rxram0,
                      codec, stuck, faults>>

Sending == ~stuck /\ mst = "shift" /\ shifter.kind # "read"

SendByte == /\ Sending
            /\ Take(shifter)
            /\ Proceed
            /\ UNCHANGED <<ctrl_en, nack_det, arblost_det, rxfifo, rxput, rxram0,
                           stuck, faults>>

ReceiveByte ==
    LET b == IF given = 0 THEN Hi(Contents(pointer)) ELSE Lo(Contents(pointer))
    IN  /\ ~stuck /\ mst = "shift" /\ shifter.kind = "read"
        /\ rxfifo' = Append(rxfifo, b)
        /\ rxput' = (rxput + 1) % FIFO_DEPTH
        /\ rxram0' = IF rxput = 0 THEN b ELSE rxram0
        /\ given' = given + 1
        /\ Proceed
        /\ UNCHANGED <<ctrl_en, nack_det, arblost_det, taken, pointer, regs,
                       stuck, faults>>

\* nack_det and arblost_det are flush_txfifo, which resets both FIFOs.
FlushFifos == txfifo' = << >> /\ rxfifo' = << >> /\ rxput' = 0

Fault == /\ faults < MaxFaults
         /\ faults' = faults + 1
         /\ FlushFifos
         /\ UNCHANGED <<ctrl_en, shifter, rxram0, stuck>>

Refused == /\ Sending
           /\ Fault
           /\ nack_det' = TRUE /\ mst' = "stop"
           /\ UNCHANGED <<arblost_det, codec>>

AckLost == /\ Sending
           /\ Fault
           /\ Take(shifter)
           /\ nack_det' = TRUE /\ mst' = "stop"
           /\ UNCHANGED arblost_det

\* A line is pulled low against the master: it lets go of the bus.
ArbLost == /\ ~stuck /\ mst = "shift"
           /\ Fault
           /\ arblost_det' = TRUE /\ mst' = "preIdle"
           /\ UNCHANGED <<nack_det, codec>>

Stop == /\ ~stuck /\ mst = "stop"
        /\ mst' = IF txfifo # << >> THEN "preStart" ELSE "preIdle"
        /\ UNCHANGED <<ctrl_en, nack_det, arblost_det, txfifo, rxfifo, shifter,
                       rxput, rxram0, codec, stuck, faults>>

BusSticks == /\ ~stuck /\ mst # "idle"
             /\ stuck' = TRUE
             /\ UNCHANGED <<controller, codec, faults>>

Progress == Pop \/ SendByte \/ ReceiveByte \/ Stop
Controller == Progress \/ Refused \/ AckLost \/ ArbLost

-----------------------------------------------------------------------------
(* The registers as the driver uses them.                                  *)

\* CTRL.EN set: the FSM leaves its idle state and waits for a command.  ISR
\* cleared.
EnableAndClear == /\ ctrl_en' = TRUE
                  /\ mst' = IF mst = "idle" THEN "preStart" ELSE mst
                  /\ nack_det' = FALSE /\ arblost_det' = FALSE

DisableIp == /\ ctrl_en' = FALSE
             /\ mst' = IF mst = "preIdle" THEN "idle" ELSE mst

\* A command written while an abort is pending is lost.
PutCommand(cmd) == txfifo' = IF flush THEN txfifo ELSE Append(txfifo, cmd)

BusTypeOK ==
    /\ mst \in {"idle", "preStart", "shift", "hold", "stop", "preIdle"}
    /\ {ctrl_en, nack_det, arblost_det, stuck} \subseteq BOOLEAN
    /\ txfifo \in Seq(Command) /\ Len(txfifo) <= FIFO_DEPTH
    /\ rxfifo \in Seq(Byte) /\ Len(rxfifo) <= FIFO_DEPTH
    /\ shifter \in Command
    /\ rxput \in 0 .. FIFO_DEPTH - 1
    /\ rxram0 \in Byte
    /\ faults \in 0 .. MaxFaults
    /\ taken \in Seq(Byte) /\ given \in Nat
    /\ pointer \in Word16
    /\ regs \in [Registers -> Word16]
=============================================================================
