-------------------------- MODULE CodecSetup_proofs --------------------------
(***************************************************************************)
(* Proofs about CodecSetup, for any script of reads and writes, any number *)
(* of attempts and faults, and any FIFO of at least two places.            *)
(*                                                                         *)
(* The invariant follows one attempt as a list of commands, each of which  *)
(* is written by the program, waits in the FIFO, is in the shifter, and is *)
(* done: the program's place tells how many were written, the FIFO and the *)
(* FSM how many of them are done, and the codec and the buffers what those *)
(* have brought about.                                                     *)
(***************************************************************************)
EXTENDS CodecSetup, TLAPS

Reg == Script[call].reg
Val == Script[call].val

InAttempt == pc \in {"write", "check", "available", "read", "wait", "close"}

\* Commands of an attempt: all of them, those written, those done.
Total == IF Writing THEN 5 ELSE 6
Written == (IF phase = "rx" THEN 3 ELSE 0)
           + (IF pc \in {"write", "available"} THEN cmd - 1 ELSE cmd)
Done == (Written - Len(txfifo)) - (IF mst = "shift" THEN 1 ELSE 0)

\* Command c is the k-th of its attempt.
Matches(c, k) == /\ c.kind = IF k = 1 THEN "addrW"
                             ELSE IF Writing \/ k <= 3 THEN "byte"
                             ELSE IF k = 4 THEN "addrR" ELSE "read"
                 /\ c.sto <=> k = Total
                 /\ Writing /\ k > 1 => c.byte = buffer[k - 1]

\* Where the commands are.
Placed == /\ mst # "idle"
          /\ mst = "preStart" => Done = 0
          /\ mst = "shift" => Done \in 0 .. Total - 1 /\ Matches(shifter, Done + 1)
          /\ mst = "hold" => Done \in 1 .. Total - 1
          /\ mst \in {"stop", "preIdle"} => Done = Total
          /\ \A i \in 1 .. Len(txfifo) :
                Matches(txfifo[i], (Written - Len(txfifo)) + i)

\* What the codec has taken.
Spoken == /\ Writing /\ Done >= 1 => /\ Len(taken) = Done - 1
                                     /\ \A i \in 1 .. Done - 1 : taken[i] = buffer[i]
          /\ Writing /\ Done >= 3 => pointer = Reg
          /\ Writing /\ Done = 5 => regs[Reg] = Val
          /\ ~Writing /\ Done >= 1 =>
                Len(taken) = IF Done <= 3 THEN Done - 1 ELSE 2

\* What it has given, and where that is.
Answer(i) == IF i = 1 THEN Hi(Contents(pointer)) ELSE Lo(Contents(pointer))

Received == IF Done < 4 THEN 0 ELSE Done - 4

Heard == /\ ~Writing /\ Done >= 4 => given = Done - 4
         /\ phase = "tx" => rxfifo = << >>
         /\ phase = "rx" =>
               /\ Len(rxfifo) = Received - bytesRead
               /\ \A i \in 1 .. Len(rxfifo) : rxfifo[i] = Answer(bytesRead + i)
               /\ \A i \in 1 .. bytesRead : buffer[i] = Answer(i)

\* The attempt goes on, on a controller that was idle when it began.
Live == /\ ctrl_en /\ ~flush
        /\ status # "TIMEOUT"
        /\ ~(stuck /\ mst = "stop")

Conversation == InAttempt /\ Live => Placed /\ Spoken /\ Heard

\* The controller and the bus.
Hardware == /\ ~ctrl_en => Stalled /\ mst # "preIdle"
            /\ pc = "close" => Stalled
            /\ ctrl_en => InAttempt /\ mst # "idle"
            /\ flush => /\ txfifo = << >> /\ rxfifo = << >>
                        /\ mst \in {"stop", "preIdle", "idle"}
            /\ pc \in {"call", "attempt"} =>
                  /\ txfifo = << >> /\ rxfifo = << >>
                  /\ mst = "idle" \/ (pc = "attempt" /\ stuck /\ mst = "stop")

\* The program's place, its buffer and its counters.
Places == /\ pc # "call" =>
                /\ call <= Len(Script)
                /\ Len(buffer) = IF Writing THEN 4 ELSE 2
                /\ Writing => /\ buffer[1] = Hi(Reg) /\ buffer[2] = Lo(Reg)
                              /\ buffer[3] = Hi(Val) /\ buffer[4] = Lo(Val)
          /\ InAttempt =>
                /\ cmd \in 1 .. PhaseSize
                /\ Writing => phase = "tx"
                /\ ~ctrl_en => /\ status = "TIMEOUT" /\ phase = "rx"
                               /\ pc \in {"write", "wait", "close"}
          /\ pc \in {"available", "read"} => phase = "rx" /\ cmd = 3
          /\ pc = "available" => bytesRead = 0
          /\ pc = "read" => bytesRead < 2
          /\ InAttempt /\ phase = "rx" /\ cmd <= 2 => bytesRead = 0
          /\ pc \in {"write", "check"} /\ phase = "rx" => bytesRead <= 1

\* What a status means.
Statuses == /\ status # "BUSY"
            /\ pc \in {"check", "available", "read"} => status = "SUCCESS"
            /\ pc = "write" /\ ctrl_en => status = "SUCCESS"
            /\ pc \in {"wait", "close"} /\ status = "SUCCESS" =>
                  /\ Written = Total
                  /\ phase = "rx" => bytesRead = 2 /\ ~flush
                  /\ pc = "close" => mst \in {"idle", "preIdle"}
            /\ InAttempt =>
                  /\ status = "NACK_ERR" => nack_det
                  /\ status = "ARB_LOST_ERR" => arblost_det
                  /\ status = "TIMEOUT" => stuck \/ flush

\* Every attempt but the last of a call met a fault.
Attempts == /\ pc = "attempt" => /\ faults >= Retries - retry
                                 /\ retry = 0 => status \in {"NACK_ERR", "ARB_LOST_ERR"}
            /\ InAttempt => /\ faults >= Retries - retry - 1
                            /\ flush => faults >= Retries - retry

\* What a call that returns has done.
Returned == /\ pc = "return" /\ status = "SUCCESS" =>
                  /\ mst = "idle" /\ txfifo = << >> /\ rxfifo = << >>
                  /\ Writing => regs[Reg] = Val \/ arblost_det
                  /\ ~Writing => buffer[1] = Answer(1) /\ buffer[2] = Answer(2)
            /\ pc = "return" /\ status = "TIMEOUT" => stuck \/ arblost_det
            /\ pc = "return" /\ status \in Retryable => faults >= Retries
            /\ pc = "hung" => stuck \/ arblost_det \/ faults >= Retries

Control == Hardware /\ Places /\ Statuses /\ Attempts /\ Returned

IInv == TypeOK /\ Control /\ Conversation

-----------------------------------------------------------------------------
(* Words, bytes and the script.                                            *)

\* A word is its two bytes.
LEMMA Bytes == \A w \in Word16 : /\ Hi(w) \in Byte /\ Lo(w) \in Byte
                               /\ WordOf(Hi(w), Lo(w)) = w
<1> SUFFICES ASSUME NEW w \in Word16
             PROVE  Hi(w) \in Byte /\ Lo(w) \in Byte /\ WordOf(Hi(w), Lo(w)) = w
  OBVIOUS
<1>1. PICK n \in Nat : n = 256
  OBVIOUS
<1>2. w \in Nat /\ w < n * 256
  <2>1. Word16 = 0 .. n * n - 1
    BY <1>1, Zenon DEF Word16
  <2>2. w \in Nat /\ w < n * n
    BY <2>1
  <2>3. QED BY <1>1, <2>2
<1>3. w % 256 \in 0 .. 255 /\ w \div 256 \in Nat
  BY <1>2
<1>4. w = (w \div 256) * 256 + (w % 256)
  BY <1>2
<1>5. w \div 256 \in 0 .. 255
  <2>1. (w \div 256) * 256 < n * 256
    BY <1>2, <1>3, <1>4
  <2>2. QED BY <1>1, <1>3, <2>1
<1>6. QED BY <1>3, <1>4, <1>5 DEF Byte, Hi, Lo, WordOf

\* Two digits of base n are a number below n * n.
LEMMA Digits == ASSUME NEW n \in Nat, NEW a \in 0 .. n - 1, NEW b \in 0 .. n - 1
                PROVE  a * n + b \in 0 .. n * n - 1
<1>1. a * n \in Int /\ 0 <= a * n
  OBVIOUS
<1>2. a * n <= (n - 1) * n
  OBVIOUS
<1>3. QED BY <1>1, <1>2

\* Two bytes are a word.
LEMMA WordsOfBytes == ASSUME NEW a \in Byte, NEW b \in Byte PROVE WordOf(a, b) \in Word16
<1>1. PICK n \in Nat : n = 256
  OBVIOUS
<1>2. a \in 0 .. n - 1 /\ b \in 0 .. n - 1
  BY <1>1 DEF Byte
<1>3. a * n + b \in 0 .. n * n - 1
  BY <1>2, Digits
<1>4. WordOf(a, b) = a * n + b /\ Word16 = 0 .. n * n - 1
  BY <1>1, Zenon DEF WordOf, Word16
<1>5. QED BY <1>3, <1>4

LEMMA Elements == ASSUME NEW S, NEW s \in Seq(S), NEW i \in 1 .. Len(s) PROVE s[i] \in S
  OBVIOUS

\* The registers and values of a call.
LEMMA ScriptTypes ==
    ASSUME NEW c \in 1 .. Len(Script)
    PROVE  /\ Script[c].op \in {"Rd", "Wr"}
           /\ Script[c].reg \in Registers /\ Script[c].reg \in Word16
           /\ Script[c].val \in Word16
<1>1. Script[c] \in [op : {"Rd", "Wr"}, reg : Registers, val : Word16]
  BY Elements, ScriptAssumption
<1>2. Registers \subseteq Word16
  BY I2cAssumption DEF Registers
<1>3. QED BY <1>1, <1>2

-----------------------------------------------------------------------------
(* The program.                                                            *)

\* Initially the controller is idle and nothing has been called.
LEMMA InitInv == ASSUME Init PROVE IInv
<1>1. BusTypeOK
  <2>1. /\ mst = "idle" /\ ctrl_en = FALSE /\ nack_det = FALSE
        /\ arblost_det = FALSE /\ stuck = FALSE
        /\ txfifo = << >> /\ rxfifo = << >> /\ taken = << >>
        /\ rxput = 0 /\ faults = 0 /\ given = 0 /\ pointer = 0
        /\ regs = ResetValue /\ rxram0 \in PowerUp
        /\ shifter = [kind |-> "addrW", byte |-> 0, sto |-> FALSE]
    BY DEF Init, BusInit
  <2>2. shifter \in Command
    BY <2>1 DEF Command
  <2>3. rxput \in 0 .. FIFO_DEPTH - 1 /\ faults \in 0 .. MaxFaults
    BY <2>1, I2cAssumption
  <2>4. rxram0 \in Byte /\ regs \in [Registers -> Word16]
    BY <2>1, I2cAssumption DEF Registers
  <2>5. Len(txfifo) <= FIFO_DEPTH /\ Len(rxfifo) <= FIFO_DEPTH
    BY <2>1, I2cAssumption
  <2>6. txfifo \in Seq(Command) /\ rxfifo \in Seq(Byte) /\ taken \in Seq(Byte)
    BY <2>1
  <2>7. pointer \in Word16
    BY <2>1 DEF Word16
  <2>8. QED BY <2>1, <2>2, <2>3, <2>4, <2>5, <2>6, <2>7 DEF BusTypeOK
<1>2. TypeOK
  <2>1. 1 \in 1 .. Len(Script) + 1
    BY ScriptAssumption
  <2>2. << >> \in Seq(Byte)
    OBVIOUS
  <2>3. 0 \in 0 .. Retries
    BY ScriptAssumption
  <2>4. QED BY <1>1, <2>1, <2>2, <2>3 DEF Init, TypeOK
<1>3. Hardware
  BY DEF Init, BusInit, Hardware, Stalled, flush, InAttempt
<1>4. Places /\ Statuses /\ Attempts /\ Returned
  BY DEF Init, Places, Statuses, Attempts, Returned, InAttempt, Retryable
<1>5. Conversation
  BY DEF Init, Conversation, InAttempt
<1>6. QED BY <1>2, <1>3, <1>4, <1>5 DEF IInv, Control

\* SGTL5000_Reg_Rd and SGTL5000_Reg_Wr fill their buffer.
LEMMA CallInv == ASSUME IInv, Call PROVE IInv'
<1>1. /\ pc = "call" /\ pc' = "attempt" /\ call <= Len(Script)
      /\ call' = call /\ retry' = Retries
      /\ UNCHANGED <<phase, cmd, bytesRead, status>>
      /\ UNCHANGED <<mst, ctrl_en, nack_det, arblost_det, txfifo, rxfifo, shifter,
                     rxput, rxram0, taken, given, pointer, regs, stuck, faults>>
  BY DEF Call, busVars, controller, codec
<1>2. call \in 1 .. Len(Script)
  BY <1>1 DEF IInv, TypeOK
<1>3. buffer' = IF Writing THEN <<Hi(Reg), Lo(Reg), Hi(Val), Lo(Val)>>
                           ELSE <<Hi(Reg), Lo(Reg)>>
  BY DEF Call, Reg, Val
<1>4. Hi(Reg) \in Byte /\ Lo(Reg) \in Byte /\ Hi(Val) \in Byte /\ Lo(Val) \in Byte
  BY <1>2, ScriptTypes, Bytes DEF Reg, Val
<1>5. TypeOK'
  <2>1. buffer' \in Seq(Byte)
    BY <1>3, <1>4
  <2>2. retry' \in 0 .. Retries
    BY <1>1, ScriptAssumption
  <2>3. QED BY <1>1, <2>1, <2>2 DEF IInv, TypeOK, BusTypeOK
<1>6. Hardware'
  BY <1>1 DEF IInv, Control, Hardware, Stalled, flush, InAttempt
<1>7. Places'
  <2>1. Writing' = Writing /\ Reg' = Reg /\ Val' = Val
    BY <1>1 DEF Writing, Reg, Val
  <2>2. QED BY <1>1, <1>3, <2>1 DEF IInv, Control, Places, InAttempt
<1>8. Statuses' /\ Attempts' /\ Returned' /\ Conversation'
  BY <1>1, ScriptAssumption
     DEF IInv, Control, Statuses, Attempts, Returned, Conversation,
         InAttempt, TypeOK, BusTypeOK
<1>9. QED BY <1>5, <1>6, <1>7, <1>8 DEF IInv, Control
-----------------------------------------------------------------------------
(* The bus.                                                                *)

\* Everything of the invariant that a step of the bus leaves to the program.
LEMMA BusFrame ==
    ASSUME IInv, UNCHANGED program, ctrl_en' = ctrl_en,
           faults' \in Nat, faults' >= faults,
           flush' => flush \/ faults' >= faults + 1
    PROVE  Places' /\ Attempts'
<1>1. UNCHANGED <<pc, call, buffer, retry, phase, cmd, bytesRead, status>>
  BY DEF program
<1>2. Places'
  <2>1. Writing' = Writing /\ Reg' = Reg /\ Val' = Val /\ PhaseSize' = PhaseSize
    BY <1>1 DEF Writing, Reg, Val, PhaseSize, TxSize
  <2>2. QED BY <1>1, <2>1 DEF IInv, Control, Places, InAttempt
<1>3. Attempts'
  <2>1. faults \in Nat /\ retry \in Nat /\ Retries \in Nat
    BY ScriptAssumption DEF IInv, TypeOK, BusTypeOK
  <2>2. QED BY <1>1, <2>1 DEF IInv, Control, Attempts, InAttempt
<1>4. QED BY <1>2, <1>3

\* The FSM acts between the START and the STOP of a live attempt only.
LEMMA ActsWhenLive ==
    ASSUME IInv, ~Stalled, mst = "shift" \/ txfifo # << >>
    PROVE  /\ Live /\ InAttempt /\ pc # "close"
           /\ Placed /\ Spoken /\ Heard
<1>1. ctrl_en /\ ~stuck /\ pc # "close" /\ InAttempt
  <2>1. ~stuck
    BY DEF Stalled
  <2>2. QED BY <2>1 DEF IInv, Control, Hardware
<1>2. ~flush
  <2>1. txfifo = << >> => mst = "shift"
    OBVIOUS
  <2>2. flush => mst # "shift"
    BY DEF IInv, Control, Hardware
  <2>3. flush => txfifo = << >>
    BY DEF IInv, Control, Hardware
  <2>4. QED BY <2>1, <2>2, <2>3
<1>3. status # "TIMEOUT"
  BY <1>1, <1>2 DEF IInv, Control, Statuses
<1>4. Live
  BY <1>1, <1>2, <1>3 DEF Live
<1>5. QED BY <1>1, <1>4 DEF IInv, Conversation

\* How many commands were written.
LEMMA Counts ==
    ASSUME IInv, InAttempt
    PROVE  /\ Total \in 5 .. 6 /\ Written \in 0 .. Total
           /\ PhaseSize \in 3 .. 5 /\ cmd \in 1 .. PhaseSize
           /\ bytesRead \in 0 .. 2
           /\ Len(txfifo) \in Nat /\ Len(rxfifo) \in Nat
           /\ Done \in Int
           /\ Done = Written - Len(txfifo) - (IF mst = "shift" THEN 1 ELSE 0)
<1>1. cmd \in 1 .. PhaseSize /\ (Writing => phase = "tx") /\ phase \in {"tx", "rx"}
  BY DEF IInv, Control, Places, TypeOK
<1>2. Total \in 5 .. 6 /\ PhaseSize \in 3 .. 5
  BY DEF Total, PhaseSize, TxSize
<1>3. Written \in 0 .. Total
  BY <1>1 DEF Written, Total, PhaseSize, TxSize
<1>4. Len(txfifo) \in Nat /\ Len(rxfifo) \in Nat /\ bytesRead \in 0 .. 2
  BY DEF IInv, TypeOK, BusTypeOK
<1>5. QED BY <1>1, <1>2, <1>3, <1>4 DEF Done

\* The attempt's commands stay the same while the bus works on them.
LEMMA BusWritten ==
    ASSUME UNCHANGED program
    PROVE  /\ Writing' = Writing /\ Total' = Total /\ Written' = Written
           /\ Reg' = Reg /\ Val' = Val /\ InAttempt' = InAttempt
           /\ UNCHANGED <<pc, call, buffer, retry, phase, cmd, bytesRead, status>>
<1>1. UNCHANGED <<pc, call, buffer, retry, phase, cmd, bytesRead, status>>
  BY DEF program
<1>2. QED BY <1>1 DEF Writing, Total, Written, Reg, Val, InAttempt

\* A step of the FSM in a live attempt keeps what the program relies on.
LEMMA LiveFrame ==
    ASSUME IInv, ~Stalled, mst = "shift" \/ txfifo # << >>, UNCHANGED program,
           UNCHANGED <<ctrl_en, nack_det, arblost_det, stuck, faults>>,
           mst' # "idle"
    PROVE  Control'
<1>1. /\ Live /\ InAttempt /\ pc # "close"
  BY ActsWhenLive
<1>2. flush' = flush /\ ~flush /\ ctrl_en
  BY <1>1 DEF flush, Live
<1>3. Places' /\ Attempts'
  <2>1. faults \in Nat
    BY DEF IInv, TypeOK, BusTypeOK
  <2>2. QED BY <1>2, <2>1, BusFrame
<1>4. Hardware'
  BY <1>1, <1>2, BusWritten DEF Hardware, InAttempt
<1>5. Statuses' /\ Returned'
  BY <1>1, <1>2, BusWritten DEF IInv, Control, Statuses, Returned, InAttempt
<1>6. QED BY <1>3, <1>4, <1>5 DEF Control

\* START and the end of a hold.
LEMMA PopInv == ASSUME IInv, Pop, UNCHANGED program PROVE IInv'
<1>1. /\ ~stuck /\ mst \in {"preStart", "hold"} /\ txfifo # << >>
      /\ mst' = "shift" /\ shifter' = Head(txfifo) /\ txfifo' = Tail(txfifo)
      /\ UNCHANGED <<ctrl_en, nack_det, arblost_det, rxfifo, rxput, rxram0,
                     taken, given, pointer, regs, stuck, faults>>
  BY DEF Pop, codec
<1>2. /\ Live /\ InAttempt /\ pc # "close" /\ Placed /\ Spoken /\ Heard
  BY <1>1, ActsWhenLive DEF Stalled
<1>3. BusTypeOK'
  <2>1. txfifo \in Seq(Command) /\ Len(txfifo) <= FIFO_DEPTH /\ txfifo # << >>
    BY <1>1 DEF IInv, TypeOK, BusTypeOK
  <2>2. /\ Head(txfifo) \in Command /\ Tail(txfifo) \in Seq(Command)
        /\ Len(Tail(txfifo)) = Len(txfifo) - 1 /\ Len(txfifo) \in Nat
    BY <2>1
  <2>3. Len(Tail(txfifo)) <= FIFO_DEPTH
    BY <2>1, <2>2, I2cAssumption
  <2>4. QED BY <1>1, <2>2, <2>3 DEF IInv, TypeOK, BusTypeOK
<1>4. TypeOK'
  BY <1>3, BusWritten DEF IInv, TypeOK
<1>5. Control'
  BY <1>1, LiveFrame DEF Stalled
<1>9. Done' = Done /\ Done \in Int
  <2>1. txfifo \in Seq(Command) /\ txfifo # << >>
    BY <1>1 DEF IInv, TypeOK, BusTypeOK
  <2>2. Len(txfifo) \in Nat /\ Len(txfifo') = Len(txfifo) - 1
    BY <1>1, <2>1
  <2>3. Written \in Int /\ Written' = Written /\ Done \in Int
    BY <1>2, Counts, BusWritten
  <2>4. QED BY <1>1, <2>2, <2>3 DEF Done
<1>10. Conversation'
  <2>1. Placed'
    <3>1. Done \in 0 .. Total - 1 /\ Done = Written - Len(txfifo)
      BY <1>1, <1>2, Counts DEF Placed
    <3>2. /\ Len(txfifo) \in Nat /\ Len(txfifo) >= 1 /\ Head(txfifo) = txfifo[1]
          /\ Len(txfifo') = Len(txfifo) - 1
          /\ \A i \in 1 .. Len(txfifo') :
                /\ txfifo'[i] = txfifo[i + 1]
                /\ i + 1 \in 1 .. Len(txfifo)
      BY <1>1 DEF IInv, TypeOK, BusTypeOK
    <3>3. Matches(txfifo[1], Done + 1)
      BY <1>2, <3>1, <3>2, Counts DEF Placed
    <3>4. Matches(shifter, Done + 1)'
      BY <1>1, <1>9, <3>2, <3>3, BusWritten DEF Matches
    <3>5. ASSUME NEW i \in 1 .. Len(txfifo')
          PROVE  Matches(txfifo[i], (Written - Len(txfifo)) + i)'
      <4>1. Matches(txfifo[i + 1], (Written - Len(txfifo)) + (i + 1))
        BY <1>2, <3>2 DEF Placed
      <4>2. (Written' - Len(txfifo')) + i = (Written - Len(txfifo)) + (i + 1)
        BY <1>2, <3>2, Counts, BusWritten
      <4>3. QED BY <1>1, <3>2, <4>1, <4>2, BusWritten DEF Matches
    <3>6. QED BY <1>1, <1>9, <3>1, <3>4, <3>5, BusWritten DEF Placed
  <2>2. Spoken'
    BY <1>1, <1>2, <1>9, BusWritten DEF Spoken
  <2>3. Heard'
    BY <1>1, <1>2, <1>9, BusWritten DEF Heard, Received, Answer, Contents
  <2>4. QED BY <2>1, <2>2, <2>3 DEF Conversation
<1>11. QED BY <1>4, <1>5, <1>10 DEF IInv

\* After a byte the FSM goes on to the next command.
LEMMA Proceeds ==
    ASSUME IInv, ~stuck, mst = "shift", Proceed, UNCHANGED program
    PROVE  /\ Done' = Done + 1 /\ Placed'
           /\ mst' # "idle"
           /\ mst' \in {"idle", "preStart", "shift", "hold", "stop", "preIdle"}
           /\ txfifo' \in Seq(Command) /\ Len(txfifo') <= FIFO_DEPTH
           /\ shifter' \in Command
<1>1. /\ InAttempt /\ Placed
  BY ActsWhenLive DEF Stalled
<1>2. /\ txfifo \in Seq(Command) /\ Len(txfifo) <= FIFO_DEPTH /\ Len(txfifo) \in Nat
      /\ shifter \in Command
  BY DEF IInv, TypeOK, BusTypeOK
<1>3. /\ Total \in 5 .. 6 /\ Done \in 0 .. Total - 1
      /\ Written = Done + Len(txfifo) + 1 /\ Written \in 0 .. Total
      /\ shifter.sto <=> Done + 1 = Total
  BY <1>1, <1>2, Counts DEF Placed, Matches
<1>4. CASE txfifo # << >> /\ ~shifter.sto
  <2>1. mst' = "shift" /\ shifter' = Head(txfifo) /\ txfifo' = Tail(txfifo)
    BY <1>4 DEF Proceed
  <2>2. /\ Len(txfifo) >= 1 /\ Head(txfifo) = txfifo[1]
        /\ Head(txfifo) \in Command /\ Tail(txfifo) \in Seq(Command)
        /\ Len(txfifo') = Len(txfifo) - 1
        /\ \A i \in 1 .. Len(txfifo') :
              /\ txfifo'[i] = txfifo[i + 1]
              /\ i + 1 \in 1 .. Len(txfifo)
    BY <1>2, <1>4, <2>1
  <2>3. Done' = Done + 1
    BY <1>2, <1>3, <2>1, <2>2, BusWritten DEF Done
  <2>4. Matches(txfifo[1], Done + 2)
    BY <1>1, <1>3, <2>2 DEF Placed
  <2>5. Matches(shifter, Done + 1)'
    BY <1>3, <2>1, <2>2, <2>3, <2>4, BusWritten DEF Matches
  <2>6. ASSUME NEW i \in 1 .. Len(txfifo')
        PROVE  Matches(txfifo[i], (Written - Len(txfifo)) + i)'
    <3>1. Matches(txfifo[i + 1], (Written - Len(txfifo)) + (i + 1))
      BY <1>1, <2>2 DEF Placed
    <3>2. (Written' - Len(txfifo')) + i = (Written - Len(txfifo)) + (i + 1)
      BY <1>2, <1>3, <2>2, BusWritten
    <3>3. QED BY <2>2, <3>1, <3>2, BusWritten DEF Matches
  <2>7. Placed'
    BY <1>3, <1>4, <2>1, <2>3, <2>5, <2>6, BusWritten DEF Placed
  <2>8. Len(txfifo') <= FIFO_DEPTH
    BY <1>2, <2>2, I2cAssumption
  <2>9. QED BY <2>1, <2>2, <2>3, <2>7, <2>8
<1>5. CASE txfifo = << >> \/ shifter.sto
  <2>1. /\ mst' = IF shifter.sto THEN "stop" ELSE "hold"
        /\ txfifo' = txfifo /\ shifter' = shifter
    BY <1>5 DEF Proceed
  <2>2. Done' = Done + 1
    BY <1>2, <1>3, <2>1, BusWritten DEF Done
  <2>3. txfifo = << >>
    BY <1>2, <1>3, <1>5
  <2>4. Placed'
    BY <1>3, <2>1, <2>2, <2>3, BusWritten DEF Placed
  <2>5. QED BY <1>2, <2>1, <2>2, <2>4
<1>6. QED BY <1>4, <1>5

\* What the codec makes of a byte stays a byte, a word, or a register.
LEMMA TakeTypes ==
    ASSUME BusTypeOK, Take(shifter), shifter.kind # "read"
    PROVE  /\ taken' \in Seq(Byte) /\ given' \in Nat
           /\ pointer' \in Word16 /\ regs' \in [Registers -> Word16]
<1>1. CASE shifter.kind \in {"addrW", "addrR"}
  <2>1. << >> \in Seq(Byte) /\ 0 \in Nat
    OBVIOUS
  <2>2. /\ \/ taken' = << >> /\ given' = given
           \/ taken' = taken /\ given' = 0
        /\ pointer' = pointer /\ regs' = regs
    BY <1>1 DEF Take
  <2>3. QED BY <2>1, <2>2 DEF BusTypeOK
<1>2. CASE shifter.kind = "byte"
  <2>1. TakeByte(shifter.byte) /\ shifter.byte \in Byte
    BY <1>2 DEF Take, BusTypeOK, Command
  <2>2. taken \in Seq(Byte) /\ taken' \in Seq(Byte) /\ given' \in Nat
    BY <2>1 DEF TakeByte, BusTypeOK
  <2>3. pointer' \in Word16
    <3>1. ASSUME Len(taken) = 1 PROVE taken[1] \in Byte
      <4>1. 1 \in 1 .. Len(taken)
        BY <3>1
      <4>2. QED BY <2>2, <4>1, Elements
    <3>2. QED BY <2>1, <3>1, WordsOfBytes DEF TakeByte, BusTypeOK
  <2>4. regs' \in [Registers -> Word16]
    <3>1. ASSUME Len(taken) = 3 PROVE taken[3] \in Byte
      <4>1. 3 \in 1 .. Len(taken)
        BY <3>1
      <4>2. QED BY <2>2, <4>1, Elements
    <3>2. shifter.byte \in Byte
      BY <2>1
    <3>3. ASSUME Len(taken) = 3 PROVE WordOf(taken[3], shifter.byte) \in Word16
      <4>1. taken[3] \in Byte
        BY <3>1, <3>3
      <4>2. QED BY <3>2, <4>1, WordsOfBytes
    <3>4. QED BY <2>1, <3>3 DEF TakeByte, BusTypeOK
  <2>5. QED BY <2>2, <2>3, <2>4
<1>3. QED BY <1>1, <1>2 DEF BusTypeOK, Command

\* A byte the codec takes: Spoken goes on.
LEMMA SendByteInv == ASSUME IInv, SendByte, UNCHANGED program PROVE IInv'
<1>1. /\ ~stuck /\ mst = "shift" /\ shifter.kind # "read"
      /\ Take(shifter) /\ Proceed
      /\ UNCHANGED <<ctrl_en, nack_det, arblost_det, rxfifo, rxput, rxram0,
                     stuck, faults>>
  BY DEF SendByte, Sending
<1>2. /\ Live /\ InAttempt /\ pc # "close" /\ Placed /\ Spoken /\ Heard
  BY <1>1, ActsWhenLive DEF Stalled
<1>3. TypeOK'
  <2>1. BusTypeOK'
    BY <1>1, Proceeds, TakeTypes DEF IInv, TypeOK, BusTypeOK
  <2>2. QED BY <2>1, BusWritten DEF IInv, TypeOK
<1>4. Control'
  BY <1>1, Proceeds, LiveFrame DEF Stalled
<1>5. /\ Done' = Done + 1 /\ Total \in 5 .. 6 /\ Done \in 0 .. Total - 1
      /\ Matches(shifter, Done + 1)
  BY <1>1, <1>2, Proceeds, Counts DEF Placed
<1>6. Spoken'
  <2>1. CASE Done = 0
    <3>1. taken' = << >>
      BY <1>1, <1>5, <2>1 DEF Matches, Take
    <3>2. QED BY <1>5, <2>1, <3>1 DEF Spoken
  <2>2. CASE Writing /\ Done >= 1
    <3>1. /\ TakeByte(buffer[Done]) /\ Done \in 1 .. 4
      BY <1>1, <1>5, <2>2 DEF Matches, Take, Total
    <3>2. /\ taken \in Seq(Byte) /\ Len(taken) = Done - 1
          /\ \A i \in 1 .. Done - 1 : taken[i] = buffer[i]
      BY <1>2, <2>2 DEF Spoken, IInv, TypeOK, BusTypeOK
    <3>3. /\ Len(taken') = Done
          /\ \A i \in 1 .. Done : taken'[i] = buffer[i]
      <4>1. taken' = Append(taken, buffer[Done])
        BY <3>1 DEF TakeByte
      <4>2. QED BY <3>1, <3>2, <4>1
    <3>4. /\ buffer[1] = Hi(Reg) /\ buffer[2] = Lo(Reg)
          /\ buffer[3] = Hi(Val) /\ buffer[4] = Lo(Val)
          /\ call \in 1 .. Len(Script)
      BY <1>2, <2>2 DEF IInv, Control, Places, InAttempt, TypeOK
    <3>5. /\ Reg \in Registers
          /\ WordOf(buffer[1], buffer[2]) = Reg /\ WordOf(buffer[3], buffer[4]) = Val
      BY <3>4, ScriptTypes, Bytes DEF Reg, Val
    <3>6. Done + 1 >= 3 => pointer' = Reg
      <4>1. CASE Done = 2
        BY <3>1, <3>2, <3>5, <4>1 DEF TakeByte
      <4>2. CASE Done > 2
        BY <1>2, <2>2, <3>1, <3>2, <4>2 DEF TakeByte, Spoken
      <4>3. QED BY <3>1, <4>1, <4>2
    <3>7. Done + 1 = 5 => regs'[Reg] = Val
      <4>1. ASSUME Done = 4 PROVE regs'[Reg] = Val
        <5>1. pointer = Reg /\ Len(taken) = 3 /\ taken[3] = buffer[3]
          BY <1>2, <2>2, <3>2, <4>1 DEF Spoken
        <5>2. regs \in [Registers -> Word16]
          BY DEF IInv, TypeOK, BusTypeOK
        <5>3. QED BY <3>1, <3>5, <4>1, <5>1, <5>2 DEF TakeByte
      <4>2. QED BY <3>1, <4>1
    <3>8. QED BY <1>5, <2>2, <3>1, <3>3, <3>6, <3>7, BusWritten DEF Spoken
  <2>3. CASE ~Writing /\ Done >= 1
    <3>1. Done \in 1 .. 3
      BY <1>1, <1>5, <2>3 DEF Matches
    <3>2. Len(taken) \in Nat /\ taken \in Seq(Byte) /\ Len(taken) = Done - 1
      BY <1>2, <2>3, <3>1 DEF Spoken, IInv, TypeOK, BusTypeOK
    <3>3. CASE Done \in 1 .. 2
      <4>1. taken' = Append(taken, shifter.byte)
        BY <1>1, <1>5, <2>3, <3>3 DEF Matches, Take, TakeByte
      <4>2. Len(taken') = Done
        BY <3>1, <3>2, <4>1
      <4>3. QED BY <1>5, <2>3, <3>3, <4>2, BusWritten DEF Spoken
    <3>4. CASE Done = 3
      <4>1. taken' = taken
        BY <1>1, <1>5, <2>3, <3>4 DEF Matches, Take
      <4>2. QED BY <1>5, <2>3, <3>2, <3>4, <4>1, BusWritten DEF Spoken
    <3>5. QED BY <3>1, <3>3, <3>4
  <2>4. QED BY <1>5, <2>1, <2>2, <2>3
<1>7. Heard'
  <2>1. ~Writing => Done <= 3
    BY <1>1, <1>5 DEF Matches
  <2>2. ~Writing /\ Done = 3 => given' = 0
    BY <1>1, <1>5 DEF Matches, Take
  <2>3. phase = "rx" => ~Writing
    BY <1>2 DEF IInv, Control, Places
  <2>4. phase = "rx" => /\ bytesRead = 0 /\ Len(rxfifo) = 0 /\ Received' = 0
    <3>1. SUFFICES ASSUME phase = "rx"
                   PROVE  bytesRead = 0 /\ Len(rxfifo) = 0 /\ Received' = 0
      OBVIOUS
    <3>2. Done \in Int /\ Done <= 3 /\ Done' = Done + 1
      BY <1>2, <1>5, <2>1, <2>3, <3>1, Counts
    <3>3. Received = 0 /\ Received' = 0
      BY <3>2 DEF Received
    <3>4. /\ Len(rxfifo) = Received - bytesRead
          /\ Len(rxfifo) \in Nat /\ bytesRead \in 0 .. 2
      BY <1>2, <3>1, Counts DEF Heard
    <3>5. QED BY <3>3, <3>4
  <2>5. QED BY <1>1, <1>2, <1>5, <2>1, <2>2, <2>4, BusWritten DEF Heard
<1>8. QED BY <1>1, <1>3, <1>4, <1>6, <1>7, Proceeds DEF IInv, Conversation

\* Both bytes of a register are bytes.
LEMMA AnswerTypes ==
    ASSUME BusTypeOK
    PROVE  /\ Hi(Contents(pointer)) \in Byte /\ Lo(Contents(pointer)) \in Byte
           /\ WordOf(Hi(Contents(pointer)), Lo(Contents(pointer))) = Contents(pointer)
<1>1. 0 \in Word16
  BY DEF Word16
<1>2. Contents(pointer) \in Word16
  BY <1>1 DEF Contents, BusTypeOK
<1>3. QED BY <1>2, Bytes

\* A byte the codec gives: Heard goes on.
LEMMA ReceiveByteInv == ASSUME IInv, ReceiveByte, UNCHANGED program PROVE IInv'
<1> DEFINE b == IF given = 0 THEN Hi(Contents(pointer)) ELSE Lo(Contents(pointer))
<1>1. /\ ~stuck /\ mst = "shift" /\ shifter.kind = "read"
      /\ rxfifo' = Append(rxfifo, b) /\ rxput' = (rxput + 1) % FIFO_DEPTH
      /\ rxram0' = (IF rxput = 0 THEN b ELSE rxram0)
      /\ given' = given + 1 /\ Proceed
      /\ UNCHANGED <<ctrl_en, nack_det, arblost_det, taken, pointer, regs,
                     stuck, faults>>
  BY DEF ReceiveByte
<1>2. /\ Live /\ InAttempt /\ pc # "close" /\ Placed /\ Spoken /\ Heard
  BY <1>1, ActsWhenLive DEF Stalled
<1>3. /\ Done' = Done + 1 /\ Total \in 5 .. 6 /\ Done \in 0 .. Total - 1
      /\ Matches(shifter, Done + 1)
  BY <1>1, <1>2, Proceeds, Counts DEF Placed
<1>4. ~Writing /\ Done \in 4 .. 5 /\ given = Done - 4
  BY <1>1, <1>2, <1>3 DEF Matches, Total, Heard
<1>5. phase = "rx"
  BY <1>2, <1>4, Counts
     DEF IInv, TypeOK, Written, PhaseSize, TxSize
<1>6. /\ rxfifo \in Seq(Byte) /\ Len(rxfifo) \in Nat
      /\ Len(rxfifo) = Done - 4 - bytesRead /\ bytesRead \in 0 .. 2
      /\ \A i \in 1 .. Len(rxfifo) : rxfifo[i] = Answer(bytesRead + i)
      /\ \A i \in 1 .. bytesRead : buffer[i] = Answer(i)
  <2>1. rxfifo \in Seq(Byte) /\ Len(rxfifo) \in Nat /\ bytesRead \in 0 .. 2
    BY DEF IInv, TypeOK, BusTypeOK
  <2>2. Received = Done - 4
    BY <1>4 DEF Received
  <2>3. QED BY <1>2, <1>5, <2>1, <2>2 DEF Heard
<1>7. b \in Byte
  BY AnswerTypes DEF IInv, TypeOK
<1>8. /\ rxfifo' \in Seq(Byte) /\ Len(rxfifo') = Len(rxfifo) + 1
      /\ rxfifo'[Len(rxfifo) + 1] = b
      /\ \A i \in 1 .. Len(rxfifo) : rxfifo'[i] = rxfifo[i]
  BY <1>1, <1>6, <1>7
<1>9. TypeOK'
  <2>1. Len(rxfifo') <= FIFO_DEPTH
    BY <1>4, <1>6, <1>8, I2cAssumption
  <2>2. rxput' \in 0 .. FIFO_DEPTH - 1
    <3>1. rxput \in Nat /\ FIFO_DEPTH \in Nat \ {0}
      BY I2cAssumption DEF IInv, TypeOK, BusTypeOK
    <3>2. rxput' = (rxput + 1) % FIFO_DEPTH
      BY <1>1
    <3>3. QED BY <3>1, <3>2
  <2>3. rxram0' \in Byte /\ given' \in Nat
    BY <1>1, <1>7 DEF IInv, TypeOK, BusTypeOK
  <2>4. BusTypeOK'
    BY <1>1, <1>8, <2>1, <2>2, <2>3, Proceeds DEF IInv, TypeOK, BusTypeOK
  <2>5. QED BY <2>4, BusWritten DEF IInv, TypeOK
<1>10. Control'
  BY <1>1, Proceeds, LiveFrame DEF Stalled
<1>11. Spoken'
  BY <1>1, <1>2, <1>3, <1>4, BusWritten DEF Spoken
<1>12. Heard'
  <2>1. b = Answer(Done - 3)
    BY <1>4 DEF Answer
  <2>2. ASSUME NEW i \in 1 .. Len(rxfifo')
        PROVE  rxfifo'[i] = Answer(bytesRead + i)
    <3>1. CASE i = Len(rxfifo) + 1
      BY <1>4, <1>6, <1>8, <2>1, <3>1
    <3>2. CASE i # Len(rxfifo) + 1
      BY <1>6, <1>8, <3>2
    <3>3. QED BY <3>1, <3>2
  <2>3. Contents(pointer)' = Contents(pointer)
    BY <1>1 DEF Contents
  <2>4. \A i \in 1 .. Len(rxfifo') : (rxfifo[i] = Answer(bytesRead + i))'
    BY <2>2, <2>3, BusWritten DEF Answer
  <2>5. \A i \in 1 .. bytesRead : (buffer[i] = Answer(i))'
    BY <1>6, <2>3, BusWritten DEF Answer
  <2>6. Received' = Done - 3
    BY <1>3, <1>4 DEF Received
  <2>7. QED
    BY <1>1, <1>3, <1>4, <1>5, <1>6, <1>8, <2>4, <2>5, <2>6, BusWritten DEF Heard
<1>13. QED BY <1>1, <1>3, <1>9, <1>10, <1>11, <1>12, Proceeds DEF IInv, Conversation

\* A byte that goes wrong ends the conversation and counts as a fault.
LEMMA FaultInv ==
    ASSUME IInv, ~stuck, mst = "shift", Fault, UNCHANGED program,
           nack_det' \in BOOLEAN, arblost_det' \in BOOLEAN,
           nack_det => nack_det', arblost_det => arblost_det', flush',
           mst' \in {"stop", "preIdle"},
           taken' \in Seq(Byte), given' \in Nat,
           pointer' \in Word16, regs' \in [Registers -> Word16]
    PROVE  IInv'
<1>1. /\ faults < MaxFaults /\ faults' = faults + 1
      /\ txfifo' = << >> /\ rxfifo' = << >> /\ rxput' = 0
      /\ UNCHANGED <<ctrl_en, shifter, rxram0, stuck>>
  BY DEF Fault, FlushFifos
<1>2. /\ Live /\ InAttempt /\ pc # "close" /\ Placed /\ Heard
  BY ActsWhenLive DEF Stalled
<1>3. faults \in Nat /\ faults' \in 0 .. MaxFaults
  <2>1. faults \in 0 .. MaxFaults
    BY DEF IInv, TypeOK, BusTypeOK
  <2>2. MaxFaults \in Nat
    BY I2cAssumption
  <2>3. QED BY <1>1, <2>1, <2>2
<1>4. TypeOK'
  <2>1. << >> \in Seq(Byte) /\ << >> \in Seq(Command)
    OBVIOUS
  <2>2. 0 \in 0 .. FIFO_DEPTH - 1 /\ Len(<< >>) <= FIFO_DEPTH
    BY I2cAssumption
  <2>3. BusTypeOK'
    BY <1>1, <1>3, <2>1, <2>2 DEF IInv, TypeOK, BusTypeOK
  <2>4. QED BY <2>3, BusWritten DEF IInv, TypeOK
<1>5. Places' /\ Attempts'
  <2>1. faults' \in Nat /\ faults' >= faults /\ faults' >= faults + 1
    BY <1>1, <1>3
  <2>2. QED BY <1>1, <2>1, BusFrame
<1>6. Hardware'
  BY <1>1, <1>2, BusWritten DEF Hardware, InAttempt, Live
<1>7. Statuses'
  <2>1. ~(phase = "rx" /\ bytesRead = 2)
    <3>1. Done \in 0 .. Total - 1 /\ Total \in 5 .. 6
      BY <1>2, Counts DEF Placed
    <3>2. SUFFICES ASSUME phase = "rx", bytesRead = 2 PROVE FALSE
      OBVIOUS
    <3>3. Received \in Nat /\ Received <= 1
      BY <3>1 DEF Received
    <3>4. Len(rxfifo) = Received - 2 /\ Len(rxfifo) \in Nat
      BY <1>2, <3>2, Counts DEF Heard
    <3>5. QED BY <3>3, <3>4
  <2>2. QED
    BY <1>1, <1>2, <2>1, BusWritten DEF IInv, Control, Statuses, InAttempt
<1>8. Returned'
  BY <1>2, BusWritten DEF Returned, InAttempt
<1>9. QED
  BY <1>4, <1>5, <1>6, <1>7, <1>8 DEF IInv, Control, Conversation, Live

\* The STOP is sent when every command is done, or after a fault.
LEMMA StopInv == ASSUME IInv, Stop, UNCHANGED program PROVE IInv'
<1>1. /\ ~stuck /\ mst = "stop"
      /\ mst' = (IF txfifo # << >> THEN "preStart" ELSE "preIdle")
      /\ UNCHANGED <<ctrl_en, nack_det, arblost_det, txfifo, rxfifo, shifter,
                     rxput, rxram0, taken, given, pointer, regs, stuck, faults>>
  BY DEF Stop, codec
<1>2. ctrl_en /\ InAttempt /\ pc # "close"
  BY <1>1 DEF Stalled, IInv, Control, Hardware
<1>3. Live => Placed /\ Spoken /\ Heard /\ Done = Total
  BY <1>1, <1>2 DEF IInv, Conversation, Placed
<1>4. flush => txfifo = << >>
  BY DEF IInv, Control, Hardware
<1>5. ~flush => Live
  BY <1>1, <1>2 DEF Live, IInv, Control, Statuses
<1>6. txfifo = << >>
  <2>1. ASSUME Live PROVE txfifo = << >>
    <3>1. Written - Len(txfifo) = Total /\ Written <= Total /\ Len(txfifo) \in Nat
      BY <1>1, <1>2, <1>3, <2>1, Counts
    <3>2. Len(txfifo) = 0
      BY <1>2, <3>1, Counts
    <3>3. QED BY <3>2 DEF IInv, TypeOK, BusTypeOK
  <2>2. QED BY <1>4, <1>5, <2>1
<1>7. mst' = "preIdle" /\ flush' = flush
  BY <1>1, <1>6 DEF flush
<1>8. TypeOK'
  BY <1>1, <1>7, BusWritten DEF IInv, TypeOK, BusTypeOK
<1>9. Control'
  <2>1. Places' /\ Attempts'
    <3>1. faults \in Nat
      BY DEF IInv, TypeOK, BusTypeOK
    <3>2. QED BY <1>1, <1>7, <3>1, BusFrame
  <2>2. Hardware'
    BY <1>1, <1>2, <1>7, BusWritten DEF IInv, Control, Hardware, InAttempt
  <2>3. Statuses' /\ Returned'
    BY <1>1, <1>2, <1>7, BusWritten DEF IInv, Control, Statuses, Returned, InAttempt
  <2>4. QED BY <2>1, <2>2, <2>3 DEF Control
<1>10. Done' = Done
  BY <1>1, <1>7, BusWritten DEF Done
<1>11. Live' => Live
  BY <1>1, <1>2, <1>5, <1>7 DEF Live
<1>12. Live => Placed' /\ Spoken' /\ Heard'
  <2>1. Contents(pointer)' = Contents(pointer)
    BY <1>1 DEF Contents
  <2>2. Live => Placed'
    BY <1>3, <1>1, <1>6, <1>7, <1>10, BusWritten DEF Placed
  <2>3. Live => Spoken'
    BY <1>3, <1>1, <1>10, BusWritten DEF Spoken
  <2>4. Live => Heard'
    BY <1>3, <1>1, <1>10, <2>1, BusWritten DEF Heard, Received, Answer
  <2>5. QED BY <2>2, <2>3, <2>4
<1>13. QED BY <1>8, <1>9, <1>11, <1>12 DEF IInv, Conversation

\* A line is held for good.
LEMMA SticksInv == ASSUME IInv, BusSticks, UNCHANGED program PROVE IInv'
<1>1. /\ ~stuck /\ mst # "idle" /\ stuck' = TRUE
      /\ UNCHANGED <<mst, ctrl_en, nack_det, arblost_det, txfifo, rxfifo, shifter,
                     rxput, rxram0, taken, given, pointer, regs, faults>>
  BY DEF BusSticks, controller, codec
<1>2. flush' = flush
  BY <1>1 DEF flush
<1>3. TypeOK'
  BY <1>1, BusWritten DEF IInv, TypeOK, BusTypeOK
<1>4. Places' /\ Attempts'
  <2>1. faults \in Nat
    BY DEF IInv, TypeOK, BusTypeOK
  <2>2. QED BY <1>1, <1>2, <2>1, BusFrame
<1>5. Hardware'
  BY <1>1, <1>2, BusWritten DEF IInv, Control, Hardware, Stalled
<1>6. Statuses'
  BY <1>1, <1>2, BusWritten DEF IInv, Control, Statuses
<1>7. Returned'
  BY <1>1, BusWritten DEF IInv, Control, Returned
<1>8. Conversation'
  <2>1. Live' => Live
    BY <1>1, <1>2, BusWritten DEF Live
  <2>2. Contents(pointer)' = Contents(pointer) /\ Done' = Done
    BY <1>1, BusWritten DEF Contents, Done
  <2>3. Placed => Placed'
    BY <1>1, <2>2, BusWritten DEF Placed, Matches
  <2>4. Spoken => Spoken'
    BY <1>1, <2>2, BusWritten DEF Spoken
  <2>5. Heard => Heard'
    BY <1>1, <2>2, BusWritten DEF Heard, Received, Answer
  <2>6. QED BY <2>1, <2>3, <2>4, <2>5, BusWritten DEF IInv, Conversation
<1>9. QED BY <1>3, <1>4, <1>5, <1>6, <1>7, <1>8 DEF IInv, Control

\* Every step of the bus.
LEMMA BusInv == ASSUME IInv, Bus PROVE IInv'
<1>1. UNCHANGED program
  BY DEF Bus
<1>2. CASE Pop
  BY <1>1, <1>2, PopInv
<1>3. CASE SendByte
  BY <1>1, <1>3, SendByteInv
<1>4. CASE ReceiveByte
  BY <1>1, <1>4, ReceiveByteInv
<1>5. CASE Stop
  BY <1>1, <1>5, StopInv
<1>6. CASE Refused
  <2>1. Sending /\ Fault /\ nack_det' = TRUE /\ mst' = "stop"
    BY <1>6 DEF Refused
  <2>2. UNCHANGED <<arblost_det, taken, given, pointer, regs>>
    BY <1>6 DEF Refused, codec
  <2>3. QED BY <1>1, <2>1, <2>2, FaultInv DEF Sending, flush, IInv, TypeOK, BusTypeOK
<1>7. CASE AckLost
  <2>1. Sending /\ Fault /\ Take(shifter) /\ nack_det' = TRUE /\ mst' = "stop"
        /\ arblost_det' = arblost_det
    BY <1>7 DEF AckLost
  <2>2. /\ taken' \in Seq(Byte) /\ given' \in Nat
        /\ pointer' \in Word16 /\ regs' \in [Registers -> Word16]
    BY <2>1, TakeTypes DEF Sending, IInv, TypeOK
  <2>3. QED BY <1>1, <2>1, <2>2, FaultInv DEF Sending, flush, IInv, TypeOK, BusTypeOK
<1>8. CASE ArbLost
  <2>1. /\ ~stuck /\ mst = "shift" /\ Fault /\ arblost_det' = TRUE /\ mst' = "preIdle"
    BY <1>8 DEF ArbLost
  <2>2. UNCHANGED <<nack_det, taken, given, pointer, regs>>
    BY <1>8 DEF ArbLost, codec
  <2>3. QED BY <1>1, <2>1, <2>2, FaultInv DEF flush, IInv, TypeOK, BusTypeOK
<1>9. CASE BusSticks
  BY <1>1, <1>9, SticksInv
<1>10. QED
  BY <1>2, <1>3, <1>4, <1>5, <1>6, <1>7, <1>8, <1>9 DEF Bus, Controller, Progress
-----------------------------------------------------------------------------
(* The program, between the steps of the bus.                              *)

\* A step that touches no register of the controller leaves the bus alone.
LEMMA Still ==
    ASSUME BusTypeOK, UNCHANGED busVars
    PROVE  /\ UNCHANGED <<mst, ctrl_en, nack_det, arblost_det, txfifo, rxfifo, shifter,
                         rxput, rxram0, taken, given, pointer, regs, stuck, faults>>
           /\ BusTypeOK' /\ flush' = flush /\ Stalled' = Stalled
           /\ Contents(pointer)' = Contents(pointer)
<1>1. UNCHANGED <<mst, ctrl_en, nack_det, arblost_det, txfifo, rxfifo, shifter,
                  rxput, rxram0, taken, given, pointer, regs, stuck, faults>>
  BY DEF busVars, controller, codec
<1>2. QED BY <1>1 DEF BusTypeOK, flush, Stalled, Contents

\* The call in hand is the same.
LEMMA SameCall ==
    ASSUME call' = call
    PROVE  Writing' = Writing /\ Total' = Total /\ Reg' = Reg /\ Val' = Val
  BY DEF Writing, Total, Reg, Val

\* A call returns, or hangs the program.
LEMMA ReturnInv == ASSUME IInv, Return PROVE IInv'
<1>1. /\ pc = "return" /\ UNCHANGED <<buffer, retry, phase, cmd, bytesRead, status>>
      /\ UNCHANGED busVars
  BY DEF Return
<1>2. BusTypeOK /\ call \in 1 .. Len(Script) /\ Len(Script) \in Nat
  BY <1>1, ScriptAssumption DEF IInv, TypeOK, Control, Places
<1>3. ~ctrl_en
  BY <1>1 DEF IInv, Control, Hardware, InAttempt
<1>4. CASE status = "SUCCESS"
  <2>1. pc' = "call" /\ call' = call + 1
    BY <1>4 DEF Return
  <2>2. TypeOK'
    BY <1>1, <1>2, <2>1, Still DEF IInv, TypeOK
  <2>3. Hardware'
    BY <1>1, <1>2, <1>3, <1>4, <2>1, Still DEF IInv, Control, Hardware, Returned, InAttempt
  <2>4. Places' /\ Statuses' /\ Attempts' /\ Returned' /\ Conversation'
    BY <1>1, <1>4, <2>1
       DEF Places, Statuses, Attempts, Returned, Conversation, InAttempt
  <2>5. QED BY <2>2, <2>3, <2>4 DEF IInv, Control
<1>5. CASE status # "SUCCESS"
  <2>1. pc' = "hung" /\ call' = call
    BY <1>5 DEF Return
  <2>2. TypeOK'
    BY <1>1, <1>2, <2>1, Still DEF IInv, TypeOK
  <2>3. Hardware'
    BY <1>1, <1>2, <1>3, <2>1, Still DEF IInv, Control, Hardware, InAttempt
  <2>4. Places' /\ Statuses'
    BY <1>1, <2>1, SameCall DEF IInv, Control, Places, Statuses, InAttempt
  <2>5. Attempts' /\ Conversation'
    BY <2>1 DEF Attempts, Conversation, InAttempt
  <2>6. Returned'
    BY <1>1, <1>2, <1>5, <2>1, Still DEF IInv, Control, Returned, TypeOK
  <2>7. QED BY <2>2, <2>3, <2>4, <2>5, <2>6 DEF IInv, Control
<1>6. QED BY <1>4, <1>5

\* One turn of the loop of attempts: none is left, or the controller is idle
\* or held and the next begins.
LEMMA AttemptInv == ASSUME IInv, Attempt PROVE IInv'
<1>1. /\ pc = "attempt" /\ UNCHANGED <<call, buffer, bytesRead>>
  BY DEF Attempt
<1>2. /\ ~ctrl_en /\ txfifo = << >> /\ rxfifo = << >>
      /\ mst = "idle" \/ (stuck /\ mst = "stop")
  BY <1>1 DEF IInv, Control, Hardware, InAttempt
<1>3. /\ BusTypeOK /\ retry \in 0 .. Retries /\ faults \in Nat /\ Retries \in Nat
      /\ faults >= Retries - retry
  BY <1>1, ScriptAssumption DEF IInv, TypeOK, BusTypeOK, Control, Attempts
<1>4. CASE retry = 0
  <2>1. pc' = "return" /\ UNCHANGED <<busVars, retry, phase, cmd, status>>
    BY <1>4 DEF Attempt, NoAttemptLeft
  <2>2. TypeOK'
    BY <1>1, <1>3, <2>1, Still DEF IInv, TypeOK
  <2>3. Hardware'
    BY <1>1, <1>2, <1>3, <2>1, Still DEF IInv, Control, Hardware, InAttempt
  <2>4. Places' /\ Statuses'
    BY <1>1, <2>1, SameCall DEF IInv, Control, Places, Statuses, InAttempt
  <2>5. Attempts' /\ Conversation'
    BY <2>1 DEF Attempts, Conversation, InAttempt
  <2>6. Returned'
    BY <1>1, <1>3, <1>4, <2>1, Still DEF IInv, Control, Attempts, Returned
  <2>7. QED BY <2>2, <2>3, <2>4, <2>5, <2>6 DEF IInv, Control
<1>5. CASE retry # 0
  <2>1. /\ retry' = retry - 1 /\ EnableAndClear
        /\ phase' = "tx" /\ cmd' = 1 /\ status' = "SUCCESS" /\ pc' = "write"
        /\ UNCHANGED <<txfifo, rxfifo, shifter, rxput, rxram0,
                       taken, given, pointer, regs, stuck, faults>>
    BY <1>2, <1>5 DEF Attempt, NoAttemptLeft, codec
  <2>2. /\ ctrl_en' = TRUE /\ nack_det' = FALSE /\ arblost_det' = FALSE
        /\ mst' = IF mst = "idle" THEN "preStart" ELSE mst
    BY <2>1 DEF EnableAndClear
  <2>3. TypeOK'
    <3>1. BusTypeOK'
      BY <1>2, <1>3, <2>1, <2>2 DEF BusTypeOK
    <3>2. retry' \in 0 .. Retries
      BY <1>3, <1>5, <2>1
    <3>3. QED BY <1>1, <2>1, <3>1, <3>2 DEF IInv, TypeOK
  <2>4. Hardware'
    BY <1>2, <2>1, <2>2 DEF Hardware, InAttempt, flush
  <2>5. Places'
    <3>1. PhaseSize' \in 3 .. 5
      BY DEF PhaseSize, TxSize
    <3>2. QED BY <1>1, <2>1, <2>2, <3>1, SameCall DEF IInv, Control, Places, InAttempt
  <2>6. Statuses' /\ Returned'
    BY <2>1, <2>2 DEF Statuses, Returned, InAttempt
  <2>7. Attempts'
    BY <1>3, <2>1, <2>2 DEF Attempts, InAttempt, flush
  <2>8. Conversation'
    <3>1. ASSUME Live' PROVE mst' = "preStart"
      BY <1>2, <2>1, <2>2, <3>1 DEF Live
    <3>2. Written' = 0
      BY <2>1 DEF Written
    <3>3. Len(txfifo') = 0 /\ (mst' = "preStart" => Done' = 0)
      <4>1. Len(txfifo') = 0
        BY <1>2, <2>1
      <4>2. ASSUME mst' = "preStart" PROVE Done' = 0
        <5>1. (IF mst' = "shift" THEN 1 ELSE 0) = 0
          BY <4>2
        <5>2. Done' = (Written' - Len(txfifo')) - (IF mst' = "shift" THEN 1 ELSE 0)
          BY DEF Done
        <5>3. Done' = (0 - 0) - 0
          BY <3>2, <4>1, <5>1, <5>2
        <5>4. QED BY <5>3
      <4>3. QED BY <4>1, <4>2
    <3>4. mst' = "preStart" => Placed' /\ Spoken' /\ Heard'
      BY <1>2, <2>1, <3>3 DEF Placed, Spoken, Heard
    <3>5. QED BY <3>1, <3>4 DEF Conversation
  <2>9. QED BY <2>3, <2>4, <2>5, <2>6, <2>7, <2>8 DEF IInv, Control
<1>6. QED BY <1>4, <1>5

LEMMA StopFlag ==
    ASSUME NEW c, NEW kind, NEW b, NEW k, NEW n,
           c = [kind |-> kind, byte |-> b, sto |-> k = n]
    PROVE  c.sto <=> k = n
  OBVIOUS

\* The command written is the next of its attempt.
LEMMA CommandMatches ==
    ASSUME IInv, pc = "write"
    PROVE  /\ CommandOf(phase, cmd) \in Command
           /\ Matches(CommandOf(phase, cmd), Written + 1)
<1>1. /\ phase \in {"tx", "rx"} /\ (Writing => phase = "tx")
      /\ cmd \in 1 .. PhaseSize /\ buffer \in Seq(Byte)
      /\ Len(buffer) = IF Writing THEN 4 ELSE 2
  BY DEF IInv, TypeOK, Control, Places, InAttempt
<1>2. CASE phase = "tx"
  <2>1. Written + 1 = cmd /\ cmd \in 1 .. TxSize
    BY <1>1, <1>2 DEF Written, PhaseSize, TxSize
  <2>2. CASE cmd = 1
    BY <1>2, <2>1, <2>2 DEF CommandOf, Command, Matches, Total
  <2>3. CASE cmd > 1
    <3>1. CommandOf(phase, cmd) = [kind |-> "byte", byte |-> buffer[cmd - 1], sto |-> cmd = 5]
      BY <1>2, <2>1, <2>3 DEF CommandOf
    <3>2. cmd - 1 \in 1 .. Len(buffer)
      BY <1>1, <2>1, <2>3 DEF TxSize
    <3>3. buffer[cmd - 1] \in Byte
      BY <1>1, <3>2, Elements
    <3>4. (cmd = 5) \in BOOLEAN
      OBVIOUS
    <3>5. CommandOf(phase, cmd) \in Command
      BY <3>1, <3>3, <3>4 DEF Command
    <3>6. /\ CommandOf(phase, cmd).kind = "byte"
          /\ CommandOf(phase, cmd).byte = buffer[cmd - 1]
      BY <3>1
    <3>7. CommandOf(phase, cmd).sto <=> cmd = 5
      BY <3>1, StopFlag
    <3>8. cmd = 5 <=> cmd = Total
      BY <2>1 DEF TxSize, Total
    <3>9. Writing \/ cmd <= 3
      BY <2>1 DEF TxSize
    <3>10. QED BY <2>1, <2>3, <3>5, <3>6, <3>7, <3>8, <3>9 DEF Matches
  <2>4. QED BY <2>1, <2>2, <2>3
<1>3. CASE phase = "rx"
  <2>1. ~Writing /\ Total = 6 /\ cmd \in 1 .. 3 /\ Written + 1 = cmd + 3
    BY <1>1, <1>3 DEF Written, PhaseSize, Total
  <2>2. CASE cmd = 1
    <3>1. CommandOf(phase, cmd) = [kind |-> "addrR", byte |-> 0, sto |-> FALSE]
      BY <1>3, <2>2 DEF CommandOf
    <3>2. CommandOf(phase, cmd) \in Command
      BY <3>1 DEF Command
    <3>3. QED BY <2>1, <2>2, <3>1, <3>2 DEF Matches
  <2>3. CASE cmd # 1
    <3>1. CommandOf(phase, cmd) = [kind |-> "read", byte |-> 0, sto |-> cmd = 3]
      BY <1>3, <2>3 DEF CommandOf
    <3>2. (cmd = 3) \in BOOLEAN
      OBVIOUS
    <3>3. CommandOf(phase, cmd) \in Command
      BY <3>1, <3>2 DEF Command
    <3>4. CommandOf(phase, cmd).kind = "read"
      BY <3>1
    <3>5. CommandOf(phase, cmd).sto <=> cmd = 3
      BY <3>1, StopFlag
    <3>6. QED BY <2>1, <2>3, <3>3, <3>4, <3>5 DEF Matches
  <2>4. QED BY <2>2, <2>3
<1>4. QED BY <1>1, <1>2, <1>3

\* A command goes behind those that wait, unless an abort is pending.
LEMMA WriteCommandInv == ASSUME IInv, WriteCommand PROVE IInv'
<1>1. /\ pc = "write" /\ pc' = "check" /\ ctrl_en /\ Len(txfifo) < FIFO_DEPTH
      /\ txfifo' = IF flush THEN txfifo ELSE Append(txfifo, CommandOf(phase, cmd))
      /\ UNCHANGED <<mst, ctrl_en, nack_det, arblost_det, rxfifo, shifter,
                     rxput, rxram0, taken, given, pointer, regs, stuck, faults>>
      /\ UNCHANGED <<call, buffer, retry, phase, cmd, bytesRead, status>>
  BY DEF WriteCommand, TxReady, PutCommand, codec
<1>2. InAttempt /\ InAttempt'
  BY <1>1 DEF InAttempt
<1>3. flush' = flush /\ (Live' <=> Live)
  BY <1>1 DEF flush, Live
<1>4. /\ Len(txfifo) \in Nat /\ FIFO_DEPTH \in Nat /\ txfifo \in Seq(Command)
      /\ CommandOf(phase, cmd) \in Command
  BY <1>1, CommandMatches, I2cAssumption DEF IInv, TypeOK, BusTypeOK
<1>5. TypeOK'
  <2>1. txfifo' \in Seq(Command) /\ Len(txfifo') <= FIFO_DEPTH
    BY <1>1, <1>4
  <2>2. QED BY <1>1, <2>1 DEF IInv, TypeOK, BusTypeOK
<1>6. Hardware'
  BY <1>1, <1>2, <1>3 DEF IInv, Control, Hardware
<1>7. Places'
  <2>1. PhaseSize' = PhaseSize
    BY <1>1 DEF PhaseSize, TxSize, Writing
  <2>2. QED BY <1>1, <1>2, <2>1, SameCall DEF IInv, Control, Places
<1>8. Statuses'
  BY <1>1, <1>2, <1>3 DEF IInv, Control, Statuses
<1>9. Attempts' /\ Returned'
  BY <1>1, <1>2, <1>3 DEF IInv, Control, Attempts, Returned
<1>10. Conversation'
  <2> SUFFICES ASSUME Live PROVE Placed' /\ Spoken' /\ Heard'
    BY <1>3 DEF Conversation
  <2>1. Placed /\ Spoken /\ Heard /\ ~flush
    BY <1>2 DEF IInv, Conversation, Live
  <2>2. /\ Written' = Written + 1 /\ Written \in 0 .. Total /\ Total \in 5 .. 6
    BY <1>1, <1>2, Counts DEF Written
  <2>3. /\ Len(txfifo') = Len(txfifo) + 1
        /\ \A i \in 1 .. Len(txfifo) : txfifo'[i] = txfifo[i]
        /\ txfifo'[Len(txfifo) + 1] = CommandOf(phase, cmd)
    BY <1>1, <1>4, <2>1
  <2>4. Done' = Done /\ Done \in Int
    BY <1>1, <1>2, <1>4, <2>2, <2>3, Counts DEF Done
  <2>5. ASSUME NEW i \in 1 .. Len(txfifo')
        PROVE  Matches(txfifo[i], (Written - Len(txfifo)) + i)'
    <3>1. Written' - Len(txfifo') = Written - Len(txfifo)
      BY <1>4, <2>2, <2>3
    <3>2. CASE i = Len(txfifo) + 1
      <4>1. Matches(txfifo'[i], (Written - Len(txfifo)) + i)
        <5>1. (Written - Len(txfifo)) + i = Written + 1
          BY <1>4, <2>2, <3>2
        <5>2. QED BY <1>1, <2>3, <3>2, <5>1, CommandMatches
      <4>2. QED BY <1>1, <3>1, <4>1, SameCall DEF Matches
    <3>3. CASE i # Len(txfifo) + 1
      <4>1. i \in 1 .. Len(txfifo)
        BY <1>4, <2>3, <3>3
      <4>2. Matches(txfifo'[i], (Written - Len(txfifo)) + i)
        BY <2>1, <2>3, <4>1 DEF Placed
      <4>3. QED BY <1>1, <3>1, <4>2, SameCall DEF Matches
    <3>4. QED BY <3>2, <3>3
  <2>6. Placed'
    <3>1. mst = "shift" => Matches(shifter, Done + 1)'
      BY <1>1, <2>1, <2>4, SameCall DEF Placed, Matches
    <3>2. QED BY <1>1, <2>1, <2>4, <2>5, <3>1, SameCall DEF Placed
  <2>7. Spoken'
    BY <1>1, <2>1, <2>4, SameCall DEF Spoken
  <2>8. Heard'
    BY <1>1, <2>1, <2>4, SameCall DEF Heard, Received, Answer, Contents
  <2>9. QED BY <2>6, <2>7, <2>8
<1>11. QED BY <1>5, <1>6, <1>7, <1>8, <1>9, <1>10 DEF IInv, Control

\* An attempt of which only the program's place changes.
LEMMA SameConversation ==
    ASSUME IInv, UNCHANGED busVars, UNCHANGED <<call, buffer, phase, bytesRead>>,
           Written' = Written, InAttempt, Live' => Live
    PROVE  Conversation'
<1>1. /\ UNCHANGED <<mst, ctrl_en, nack_det, arblost_det, txfifo, rxfifo, shifter,
                     rxput, rxram0, taken, given, pointer, regs, stuck, faults>>
      /\ Contents(pointer)' = Contents(pointer)
  BY Still DEF IInv, TypeOK
<1>2. Done' = Done
  BY <1>1 DEF Done
<1>3. Placed => Placed'
  BY <1>1, <1>2, SameCall DEF Placed, Matches
<1>4. Spoken => Spoken'
  BY <1>1, <1>2, SameCall DEF Spoken
<1>5. Heard => Heard'
  BY <1>1, <1>2, SameCall DEF Heard, Received, Answer
<1>6. QED BY <1>3, <1>4, <1>5 DEF IInv, Conversation

\* A command waits for room that never comes only if the bus is held, or the
\* transfer is over.
LEMMA WriteTimesOutInv == ASSUME IInv, WriteTimesOut PROVE IInv'
<1>1. /\ pc = "write" /\ ~TxReady /\ Stalled /\ status' = "TIMEOUT" /\ pc' = "wait"
      /\ UNCHANGED <<call, buffer, retry, phase, cmd, bytesRead>> /\ UNCHANGED busVars
  BY DEF WriteTimesOut
<1>2. InAttempt /\ InAttempt' /\ BusTypeOK
  BY <1>1 DEF InAttempt, IInv, TypeOK
<1>3. stuck \/ flush
  <2>1. CASE ~ctrl_en
    BY <1>1, <1>2, <2>1 DEF IInv, Control, Places, Statuses
  <2>2. CASE ctrl_en
    <3> SUFFICES ASSUME ~stuck, ~flush PROVE FALSE
      OBVIOUS
    <3>1. Live
      BY <1>1, <2>2 DEF Live, IInv, Control, Statuses
    <3>2. Placed
      BY <1>2, <3>1 DEF IInv, Conversation
    <3>3. Len(txfifo) \in Nat /\ Len(txfifo) >= 2
      BY <1>1, <2>2, I2cAssumption DEF TxReady, IInv, TypeOK, BusTypeOK
    <3>4. txfifo # << >>
      BY <3>3
    <3>5. mst = "preIdle"
      BY <1>1, <3>2, <3>4 DEF Stalled, Placed
    <3>6. Done = Total
      BY <3>2, <3>5 DEF Placed
    <3>7. QED BY <1>2, <3>3, <3>5, <3>6, Counts
  <2>3. QED BY <2>1, <2>2
<1>4. TypeOK'
  BY <1>1, <1>2, Still DEF IInv, TypeOK
<1>5. Hardware'
  BY <1>1, <1>2, Still DEF IInv, Control, Hardware
<1>6. Places'
  <2>1. PhaseSize' = PhaseSize
    BY <1>1 DEF PhaseSize, TxSize, Writing
  <2>2. QED BY <1>1, <1>2, <2>1, Still, SameCall DEF IInv, Control, Places
<1>7. Statuses' /\ Attempts' /\ Returned'
  BY <1>1, <1>2, <1>3, Still DEF IInv, Control, Statuses, Attempts, Returned
<1>8. Conversation'
  BY <1>1 DEF Conversation, Live
<1>9. QED BY <1>4, <1>5, <1>6, <1>7, <1>8 DEF IInv, Control

\* A fault is noticed.
LEMMA CheckFailsInv == ASSUME IInv, CheckFails PROVE IInv'
<1>1. /\ pc = "check" /\ Checked # "SUCCESS" /\ status' = Checked /\ pc' = "wait"
      /\ UNCHANGED <<call, buffer, retry, phase, cmd, bytesRead>> /\ UNCHANGED busVars
  BY DEF CheckFails
<1>2. InAttempt /\ InAttempt' /\ BusTypeOK
  BY <1>1 DEF InAttempt, IInv, TypeOK
<1>3. \/ arblost_det /\ status' = "ARB_LOST_ERR"
      \/ nack_det /\ status' = "NACK_ERR"
  BY <1>1 DEF Checked
<1>4. TypeOK'
  BY <1>1, <1>2, <1>3, Still DEF IInv, TypeOK, Retryable
<1>5. Hardware'
  BY <1>1, <1>2, Still DEF IInv, Control, Hardware
<1>6. Places'
  <2>1. PhaseSize' = PhaseSize
    BY <1>1 DEF PhaseSize, TxSize, Writing
  <2>2. QED BY <1>1, <1>2, <2>1, Still, SameCall DEF IInv, Control, Places
<1>7. Statuses' /\ Attempts' /\ Returned'
  BY <1>1, <1>2, <1>3, Still DEF IInv, Control, Statuses, Attempts, Returned
<1>8. Conversation'
  BY <1>1, <1>2, <1>3, Still DEF Conversation, Live, flush
<1>9. QED BY <1>4, <1>5, <1>6, <1>7, <1>8 DEF IInv, Control

\* More commands to write.
LEMMA NextCommandInv == ASSUME IInv, NextCommand PROVE IInv'
<1>1. /\ pc = "check" /\ cmd < PhaseSize /\ cmd' = cmd + 1
      /\ pc' = (IF phase = "rx" /\ cmd = 2 THEN "available" ELSE "write")
      /\ UNCHANGED <<call, buffer, retry, phase, bytesRead, status>>
      /\ UNCHANGED busVars
  BY DEF NextCommand
<1>2. InAttempt /\ InAttempt' /\ BusTypeOK
  BY <1>1 DEF InAttempt, IInv, TypeOK
<1>3. /\ PhaseSize' = PhaseSize /\ PhaseSize \in 3 .. 5 /\ cmd' \in 1 .. PhaseSize
      /\ cmd \in 1 .. PhaseSize
  BY <1>1, <1>2, Counts DEF PhaseSize, TxSize, Writing
<1>4. Written' = Written
  BY <1>1, <1>3 DEF Written
<1>5. TypeOK'
  BY <1>1, <1>2, <1>3, Still DEF IInv, TypeOK
<1>6. Hardware'
  BY <1>1, <1>2, Still DEF IInv, Control, Hardware
<1>7. Places'
  <2>1. ctrl_en /\ ctrl_en'
    BY <1>1, <1>2, Still DEF IInv, Control, Places
  <2>2. phase = "rx" => PhaseSize = 3
    BY DEF PhaseSize
  <2>3. phase = "rx" /\ cmd <= 2 => bytesRead = 0
    BY <1>2 DEF IInv, Control, Places
  <2>4. QED
    BY <1>1, <1>2, <1>3, <2>1, <2>2, <2>3, Still, SameCall DEF IInv, Control, Places
<1>8. Statuses' /\ Attempts' /\ Returned'
  BY <1>1, <1>2, Still DEF IInv, Control, Statuses, Attempts, Returned
<1>9. Conversation'
  BY <1>1, <1>2, <1>4, Still, SameConversation DEF Live
<1>10. QED BY <1>5, <1>6, <1>7, <1>8, <1>9 DEF IInv, Control

\* The last command of a phase is written.
LEMMA LastCommandInv == ASSUME IInv, LastCommand PROVE IInv'
<1>1. /\ pc = "check" /\ Checked = "SUCCESS" /\ cmd = PhaseSize
      /\ UNCHANGED <<call, buffer, retry, status>> /\ UNCHANGED busVars
  BY DEF LastCommand
<1>2. /\ InAttempt /\ BusTypeOK /\ ctrl_en /\ status = "SUCCESS"
      /\ phase \in {"tx", "rx"} /\ (Writing => phase = "tx")
  BY <1>1 DEF InAttempt, IInv, TypeOK, Control, Places, Statuses
<1>3. CASE phase = "rx" \/ Writing
  <2>1. /\ pc' = IF phase = "rx" THEN "read" ELSE "wait"
        /\ UNCHANGED <<phase, cmd, bytesRead>>
    BY <1>2, <1>3 DEF LastCommand
  <2>2. InAttempt' /\ PhaseSize' = PhaseSize /\ Written' = Written
    BY <1>1, <2>1 DEF InAttempt, PhaseSize, TxSize, Writing, Written
  <2>3. TypeOK'
    BY <1>1, <1>2, <2>1, Still DEF IInv, TypeOK
  <2>4. Hardware'
    BY <1>1, <1>2, <2>1, <2>2, Still DEF IInv, Control, Hardware
  <2>5. Places'
    <3>1. phase = "rx" => cmd = 3 /\ bytesRead < 2
      BY <1>1, <1>2 DEF PhaseSize, IInv, Control, Places, TypeOK
    <3>2. QED
      BY <1>1, <1>2, <2>1, <2>2, <3>1, Still, SameCall DEF IInv, Control, Places
  <2>6. Statuses'
    <3>1. phase = "tx" => Written' = Total'
      BY <1>1, <1>2, <1>3, <2>1, <2>2, SameCall DEF Written, Total, PhaseSize, TxSize
    <3>2. QED
      BY <1>1, <1>2, <2>1, <2>2, <3>1, Still DEF IInv, Control, Statuses
  <2>7. Attempts' /\ Returned'
    BY <1>1, <1>2, <2>1, Still DEF IInv, Control, Attempts, Returned
  <2>8. Conversation'
    BY <1>1, <1>2, <2>1, <2>2, Still, SameConversation DEF Live
  <2>9. QED BY <2>3, <2>4, <2>5, <2>6, <2>7, <2>8 DEF IInv, Control
<1>4. CASE phase = "tx" /\ ~Writing
  <2>1. phase' = "rx" /\ cmd' = 1 /\ bytesRead' = 0 /\ pc' = "write"
    BY <1>4 DEF LastCommand, StartReceive
  <2>2. /\ InAttempt' /\ PhaseSize' = 3 /\ Written = 3 /\ Written' = 3
    BY <1>1, <1>4, <2>1 DEF InAttempt, PhaseSize, TxSize, Written
  <2>3. TypeOK'
    BY <1>1, <1>2, <2>1, Still DEF IInv, TypeOK
  <2>4. Hardware'
    BY <1>1, <1>2, <2>1, <2>2, Still DEF IInv, Control, Hardware
  <2>5. Places'
    BY <1>1, <1>2, <1>4, <2>1, <2>2, Still, SameCall DEF IInv, Control, Places
  <2>6. Statuses' /\ Attempts' /\ Returned'
    BY <1>1, <1>2, <2>1, <2>2, Still DEF IInv, Control, Statuses, Attempts, Returned
  <2>7. Conversation'
    <3>1. /\ UNCHANGED <<mst, ctrl_en, nack_det, arblost_det, txfifo, rxfifo, shifter,
                         taken, given, pointer, regs, stuck>>
          /\ flush' = flush
      BY <1>1, <1>2, Still
    <3> SUFFICES ASSUME Live' PROVE Placed' /\ Spoken' /\ Heard'
      BY DEF Conversation
    <3>2. Placed /\ Spoken /\ Heard
      BY <1>1, <1>2, <3>1 DEF Live, IInv, Conversation
    <3>3. Done' = Done /\ Done \in Int /\ Done <= 3
      BY <1>2, <2>2, <3>1, Counts DEF Done
    <3>4. Placed'
      BY <1>1, <2>2, <3>1, <3>2, <3>3, SameCall DEF Placed, Matches
    <3>5. Spoken'
      BY <1>1, <3>1, <3>2, <3>3, SameCall DEF Spoken
    <3>6. Heard'
      BY <1>1, <1>4, <2>1, <3>1, <3>2, <3>3, SameCall DEF Heard, Received
    <3>7. QED BY <3>4, <3>5, <3>6
  <2>8. QED BY <2>3, <2>4, <2>5, <2>6, <2>7 DEF IInv, Control
<1>5. QED BY <1>2, <1>3, <1>4

\* The place a byte is stored at is one of the buffer's.
LEMMA StoredTypes ==
    ASSUME IInv, InAttempt, phase = "rx", bytesRead < 2, NEW b \in Byte
    PROVE  /\ Stored(b) \in Seq(Byte) /\ Len(Stored(b)) = 2
           /\ Stored(b)[bytesRead + 1] = b
           /\ \A i \in 1 .. bytesRead : Stored(b)[i] = buffer[i]
<1>1. /\ buffer \in Seq(Byte) /\ Len(buffer) = 2 /\ bytesRead \in 0 .. 1
  BY DEF IInv, TypeOK, Control, Places, InAttempt
<1>2. bytesRead + 1 \in 1 .. Len(buffer)
  BY <1>1
<1>3. Stored(b) \in Seq(Byte) /\ Len(Stored(b)) = 2
  <2>1. buffer \in [1 .. 2 -> Byte]
    BY <1>1
  <2>2. Stored(b) \in [1 .. 2 -> Byte]
    BY <2>1, <1>2 DEF Stored
  <2>3. \A S : \A n \in Nat : \A f \in [1 .. n -> S] : f \in Seq(S)
    OBVIOUS
  <2>4. \A f \in Seq(Byte) : DOMAIN f = 1 .. 2 => Len(f) = 2
    OBVIOUS
  <2>5. Stored(b) \in Seq(Byte) /\ DOMAIN Stored(b) = 1 .. 2
    BY <2>2, <2>3
  <2>6. QED BY <2>4, <2>5
<1>4. Stored(b)[bytesRead + 1] = b
  BY <1>1, <1>2 DEF Stored
<1>5. ASSUME NEW i \in 1 .. bytesRead PROVE Stored(b)[i] = buffer[i]
  <2>1. i \in 1 .. Len(buffer) /\ i # bytesRead + 1
    BY <1>1
  <2>2. QED BY <1>1, <2>1 DEF Stored
<1>6. QED BY <1>3, <1>4, <1>5

\* The program takes a byte that was received.
LEMMA StoreInv ==
    ASSUME IInv, pc \in {"available", "read"}, rxfifo # << >>, PopRx,
           buffer' = Stored(Head(rxfifo)), bytesRead' = bytesRead + 1,
           UNCHANGED <<call, retry, phase, cmd, status>>,
           pc' = IF pc = "available" THEN "write"
                 ELSE IF bytesRead' = 2 THEN "wait" ELSE "read"
    PROVE  IInv'
<1>1. /\ rxfifo' = Tail(rxfifo)
      /\ UNCHANGED <<mst, ctrl_en, nack_det, arblost_det, txfifo, shifter,
                     rxput, rxram0, taken, given, pointer, regs, stuck, faults>>
  BY DEF PopRx, codec
<1>2. /\ InAttempt /\ InAttempt' /\ BusTypeOK /\ ctrl_en /\ ~flush
      /\ status = "SUCCESS" /\ phase = "rx" /\ cmd = 3 /\ ~Writing
      /\ bytesRead \in 0 .. 1 /\ call \in 1 .. Len(Script)
      /\ pc = "available" => bytesRead = 0
  BY DEF InAttempt, IInv, TypeOK, Control, Places, Statuses, Hardware
<1>3. /\ rxfifo \in Seq(Byte) /\ Len(rxfifo) \in Nat /\ Len(rxfifo) >= 1
      /\ Len(rxfifo) <= FIFO_DEPTH
      /\ Head(rxfifo) = rxfifo[1] /\ Head(rxfifo) \in Byte
      /\ rxfifo' \in Seq(Byte) /\ Len(rxfifo') = Len(rxfifo) - 1
      /\ \A i \in 1 .. Len(rxfifo') : /\ rxfifo'[i] = rxfifo[i + 1]
                                      /\ i + 1 \in 1 .. Len(rxfifo)
  BY <1>1, <1>2 DEF BusTypeOK
<1>4. /\ buffer' \in Seq(Byte) /\ Len(buffer') = 2
      /\ buffer'[bytesRead + 1] = rxfifo[1]
      /\ \A i \in 1 .. bytesRead : buffer'[i] = buffer[i]
  BY <1>2, <1>3, StoredTypes
<1>5. TypeOK'
  <2>1. Len(rxfifo') <= FIFO_DEPTH
    BY <1>3, I2cAssumption
  <2>2. BusTypeOK'
    BY <1>1, <1>2, <1>3, <2>1 DEF BusTypeOK
  <2>3. QED BY <1>2, <1>4, <2>2 DEF IInv, TypeOK
<1>6. flush' = flush
  BY <1>1 DEF flush
<1>7. Hardware'
  BY <1>1, <1>2, <1>6 DEF IInv, Control, Hardware
<1>8. Places'
  <2>1. PhaseSize' = 3 /\ Writing' = Writing
    BY <1>2 DEF PhaseSize, Writing
  <2>2. QED BY <1>1, <1>2, <1>4, <2>1 DEF Places
<1>9. Written' = Written /\ Written = IF pc = "available" THEN 5 ELSE 6
  BY <1>2 DEF Written
<1>10. Statuses'
  <2>1. pc' = "wait" => Written' = Total'
    BY <1>2, <1>9, SameCall DEF Total
  <2>2. QED BY <1>1, <1>2, <1>6, <2>1 DEF Statuses
<1>11. Attempts' /\ Returned'
  BY <1>1, <1>2, <1>6 DEF IInv, Control, Attempts, Returned, InAttempt
<1>12. Conversation'
  <2> SUFFICES ASSUME Live' PROVE Placed' /\ Spoken' /\ Heard'
    BY DEF Conversation
  <2>1. Placed /\ Spoken /\ Heard
    BY <1>1, <1>2, <1>6 DEF Live, IInv, Conversation
  <2>2. Done' = Done
    BY <1>1, <1>9 DEF Done
  <2>3. Placed'
    BY <1>1, <1>2, <1>9, <2>1, <2>2, SameCall DEF Placed, Matches
  <2>4. Spoken'
    BY <1>1, <1>2, <2>1, <2>2, SameCall DEF Spoken
  <2>5. Contents(pointer)' = Contents(pointer)
    BY <1>1 DEF Contents
  <2>6. Received' = Received /\ Received \in Int
    BY <1>2, <2>2, Counts DEF Received
  <2>7. /\ Len(rxfifo) = Received - bytesRead
        /\ \A i \in 1 .. Len(rxfifo) : rxfifo[i] = Answer(bytesRead + i)
        /\ \A i \in 1 .. bytesRead : buffer[i] = Answer(i)
    BY <1>2, <2>1 DEF Heard
  <2>8. Len(rxfifo') = Received' - bytesRead'
    BY <1>2, <1>3, <2>6, <2>7
  <2>9. ASSUME NEW i \in 1 .. Len(rxfifo') PROVE rxfifo'[i] = Answer(bytesRead' + i)
    <3>1. rxfifo'[i] = Answer(bytesRead + (i + 1))
      BY <1>3, <2>7
    <3>2. bytesRead' + i = bytesRead + (i + 1)
      BY <1>2, <1>3
    <3>3. QED BY <3>1, <3>2
  <2>10. ASSUME NEW i \in 1 .. bytesRead' PROVE buffer'[i] = Answer(i)
    <3>1. CASE i = bytesRead + 1
      <4>1. rxfifo[1] = Answer(bytesRead + 1)
        BY <1>3, <2>7
      <4>2. QED BY <1>4, <3>1, <4>1
    <3>2. CASE i # bytesRead + 1
      BY <1>2, <1>4, <2>7, <3>2
    <3>3. QED BY <3>1, <3>2
  <2>11. \A i \in 1 .. Len(rxfifo') : (rxfifo[i] = Answer(bytesRead + i))'
    BY <2>5, <2>9 DEF Answer
  <2>12. \A i \in 1 .. bytesRead' : (buffer[i] = Answer(i))'
    BY <2>5, <2>10 DEF Answer
  <2>13. given' = given /\ (Done >= 4 => given = Done - 4)
    BY <1>1, <1>2, <2>1 DEF Heard
  <2>14. Heard'
    BY <1>2, <2>2, <2>8, <2>11, <2>12, <2>13 DEF Heard
  <2>15. QED BY <2>3, <2>4, <2>14
<1>13. QED
  BY <1>5, <1>7, <1>8, <1>10, <1>11, <1>12 DEF IInv, Control

LEMMA ReadByteInv == ASSUME IInv, ReadByte PROVE IInv'
<1>1. /\ pc = "read" /\ rxfifo # << >> /\ PopRx
      /\ buffer' = Stored(Head(rxfifo)) /\ bytesRead' = bytesRead + 1
      /\ UNCHANGED <<call, retry, phase, cmd, status>>
      /\ pc' = (IF bytesRead' = 2 THEN "wait" ELSE "read")
  BY DEF ReadByte, AfterRead
<1>2. QED BY <1>1, StoreInv

\* Before the last command of a read is written, a byte may have come.
LEMMA ReadAvailableInv == ASSUME IInv, ReadAvailable PROVE IInv'
<1>1. pc = "available" /\ pc' = "write" /\ UNCHANGED <<call, retry, phase, cmd, status>>
  BY DEF ReadAvailable
<1>2. CASE rxfifo # << >>
  BY <1>1, <1>2, StoreInv DEF ReadAvailable
<1>3. CASE rxfifo = << >>
  <2>1. UNCHANGED <<buffer, bytesRead>> /\ UNCHANGED busVars
    BY <1>3 DEF ReadAvailable
  <2>2. /\ InAttempt /\ InAttempt' /\ BusTypeOK /\ status = "SUCCESS" /\ bytesRead = 0
    BY <1>1 DEF InAttempt, IInv, TypeOK, Control, Places, Statuses
  <2>3. PhaseSize' = PhaseSize /\ Written' = Written
    BY <1>1 DEF PhaseSize, TxSize, Writing, Written
  <2>4. TypeOK'
    BY <1>1, <2>1, <2>2, Still DEF IInv, TypeOK
  <2>5. Hardware'
    BY <1>1, <2>1, <2>2, Still DEF IInv, Control, Hardware
  <2>6. Places'
    BY <1>1, <2>1, <2>2, <2>3, Still, SameCall DEF IInv, Control, Places
  <2>7. Statuses' /\ Attempts' /\ Returned'
    BY <1>1, <2>1, <2>2, Still DEF IInv, Control, Statuses, Attempts, Returned
  <2>8. Conversation'
    BY <1>1, <2>1, <2>2, <2>3, Still, SameConversation DEF Live
  <2>9. QED BY <2>4, <2>5, <2>6, <2>7, <2>8 DEF IInv, Control
<1>4. QED BY <1>2, <1>3

\* A byte does not come only if the bus is held or an abort is pending.
LEMMA ReadGivesUpInv == ASSUME IInv, ReadGivesUp PROVE IInv'
<1>1. /\ pc = "read" /\ rxfifo = << >> /\ Stalled
      /\ buffer' = Stored(rxram0) /\ bytesRead' = bytesRead + 1
      /\ status' = "TIMEOUT" /\ pc' = "wait"
      /\ UNCHANGED <<call, retry, phase, cmd>> /\ UNCHANGED busVars
  BY DEF ReadGivesUp, ReadTimesOut, ReportTimeout
<1>2. /\ InAttempt /\ InAttempt' /\ BusTypeOK /\ ctrl_en /\ status = "SUCCESS"
      /\ phase = "rx" /\ cmd = 3 /\ ~Writing /\ bytesRead \in 0 .. 1
      /\ call \in 1 .. Len(Script)
  BY <1>1 DEF InAttempt, IInv, TypeOK, Control, Places, Statuses
<1>3. buffer' \in Seq(Byte) /\ Len(buffer') = 2
  BY <1>1, <1>2, StoredTypes DEF BusTypeOK
<1>4. stuck \/ flush
  <2> SUFFICES ASSUME ~stuck, ~flush PROVE FALSE
    OBVIOUS
  <2>1. Placed /\ Heard
    BY <1>2 DEF Live, IInv, Conversation
  <2>2. Written = 6 /\ Total = 6
    BY <1>1, <1>2 DEF Written, Total
  <2>3. Len(rxfifo) = 0 /\ Done < 6
    <3>1. Len(rxfifo) = 0
      BY <1>1
    <3>2. QED BY <1>2, <2>1, <3>1, Counts DEF Heard, Received
  <2>4. mst \in {"preStart", "hold"} /\ txfifo = << >>
    BY <1>1, <2>1, <2>2, <2>3 DEF Stalled, Placed
  <2>5. QED BY <1>2, <2>2, <2>3, <2>4, Counts
<1>5. TypeOK'
  BY <1>1, <1>2, <1>3, Still DEF IInv, TypeOK
<1>6. Hardware'
  BY <1>1, <1>2, Still DEF IInv, Control, Hardware
<1>7. Places'
  <2>1. PhaseSize' = 3 /\ Writing' = Writing
    BY <1>1, <1>2 DEF PhaseSize, Writing
  <2>2. QED BY <1>1, <1>2, <1>3, <2>1, Still DEF Places
<1>8. Statuses' /\ Attempts' /\ Returned'
  BY <1>1, <1>2, <1>4, Still DEF IInv, Control, Statuses, Attempts, Returned
<1>9. Conversation'
  BY <1>1 DEF Conversation, Live
<1>10. QED BY <1>5, <1>6, <1>7, <1>8, <1>9 DEF IInv, Control

\* The controller is idle.
LEMMA AwaitIdleInv == ASSUME IInv, AwaitIdle PROVE IInv'
<1>1. /\ pc = "wait" /\ pc' = "close" /\ mst \in {"idle", "preIdle"}
      /\ UNCHANGED <<call, buffer, retry, phase, cmd, bytesRead, status>>
      /\ UNCHANGED busVars
  BY DEF AwaitIdle, Busy
<1>2. InAttempt /\ InAttempt' /\ BusTypeOK /\ Stalled
  BY <1>1 DEF InAttempt, IInv, TypeOK, Stalled
<1>3. PhaseSize' = PhaseSize /\ Written' = Written
  BY <1>1 DEF PhaseSize, TxSize, Writing, Written
<1>4. TypeOK'
  BY <1>1, <1>2, Still DEF IInv, TypeOK
<1>5. Hardware'
  BY <1>1, <1>2, Still DEF IInv, Control, Hardware
<1>6. Places'
  BY <1>1, <1>2, <1>3, Still, SameCall DEF IInv, Control, Places
<1>7. Statuses' /\ Attempts' /\ Returned'
  BY <1>1, <1>2, <1>3, Still, SameCall DEF IInv, Control, Statuses, Attempts, Returned
<1>8. Conversation'
  BY <1>1, <1>2, <1>3, Still, SameConversation DEF Live
<1>9. QED BY <1>4, <1>5, <1>6, <1>7, <1>8 DEF IInv, Control

\* The controller is not idle in time only if the bus is held or an abort is
\* pending.
LEMMA IdleTimesOutInv == ASSUME IInv, IdleTimesOut PROVE IInv'
<1>1. /\ pc = "wait" /\ pc' = "close" /\ mst \notin {"idle", "preIdle"} /\ Stalled
      /\ UNCHANGED <<call, buffer, retry, phase, cmd, bytesRead>>
      /\ status' = "TIMEOUT" /\ UNCHANGED busVars
  BY DEF IdleTimesOut, Busy
<1>2. /\ InAttempt /\ InAttempt' /\ BusTypeOK
      /\ status \in {"NACK_ERR", "ARB_LOST_ERR", "SUCCESS", "TIMEOUT"}
  BY <1>1 DEF InAttempt, IInv, TypeOK, Control, Statuses, Retryable
<1>3. stuck \/ flush
  <2>1. CASE status # "SUCCESS"
    BY <1>2, <2>1 DEF IInv, Control, Statuses, flush
  <2>2. CASE status = "SUCCESS"
    <3> SUFFICES ASSUME ~stuck, ~flush PROVE FALSE
      OBVIOUS
    <3>1. ctrl_en /\ Written = Total
      BY <1>1, <1>2, <2>2 DEF IInv, Control, Places, Statuses
    <3>2. Placed
      BY <1>2, <2>2, <3>1 DEF Live, IInv, Conversation
    <3>3. mst \in {"preStart", "hold"} /\ txfifo = << >>
      BY <1>1 DEF Stalled
    <3>4. Done = Total /\ Total \in 5 .. 6
      BY <1>2, <3>1, <3>3, Counts
    <3>5. QED BY <3>2, <3>3, <3>4 DEF Placed
  <2>3. QED BY <2>1, <2>2
<1>4. TypeOK'
  BY <1>1, <1>2, Still DEF IInv, TypeOK
<1>5. Hardware'
  BY <1>1, <1>2, Still DEF IInv, Control, Hardware
<1>6. Places'
  <2>1. PhaseSize' = PhaseSize
    BY <1>1 DEF PhaseSize, TxSize, Writing
  <2>2. QED BY <1>1, <1>2, <2>1, Still, SameCall DEF IInv, Control, Places
<1>7. Statuses' /\ Attempts' /\ Returned'
  BY <1>1, <1>2, <1>3, Still DEF IInv, Control, Statuses, Attempts, Returned
<1>8. Conversation'
  BY <1>1 DEF Conversation, Live
<1>9. QED BY <1>4, <1>5, <1>6, <1>7, <1>8 DEF IInv, Control

\* The controller is disabled; a refused transfer is repeated, a transmission
\* that timed out goes on to receive, and any other returns.
LEMMA CloseInv == ASSUME IInv, Close PROVE IInv'
<1>1. /\ pc = "close" /\ status' = FinalStatus /\ ctrl_en' = FALSE
      /\ mst' = (IF mst = "preIdle" THEN "idle" ELSE mst)
      /\ UNCHANGED <<nack_det, arblost_det, txfifo, rxfifo, shifter, rxput, rxram0,
                     taken, given, pointer, regs, stuck, faults, call, buffer, retry>>
  BY DEF Close, EndTransfer, DisableIp, codec
<1>2. /\ InAttempt /\ BusTypeOK /\ call \in 1 .. Len(Script)
      /\ phase \in {"tx", "rx"} /\ (Writing => phase = "tx")
      /\ status \in {"NACK_ERR", "ARB_LOST_ERR", "SUCCESS", "TIMEOUT"}
      /\ Stalled /\ faults \in Nat /\ retry \in Nat /\ Retries \in Nat
  BY <1>1, ScriptAssumption
     DEF InAttempt, IInv, TypeOK, BusTypeOK, Control, Places, Statuses, Hardware,
         Retryable
<1>3. /\ Writing' = Writing /\ Reg' = Reg /\ Val' = Val /\ Total' = Total
      /\ flush' = flush /\ Contents(pointer)' = Contents(pointer)
  BY <1>1, SameCall DEF flush, Contents
<1>4. BusTypeOK'
  BY <1>1, <1>2 DEF BusTypeOK
<1>5. /\ Stalled' /\ mst' # "preIdle"
      /\ flush' => txfifo' = << >> /\ rxfifo' = << >> /\ mst' \in {"stop", "idle"}
  <2>1. Stalled' /\ mst' # "preIdle"
    BY <1>1, <1>2 DEF Stalled
  <2>2. flush' => txfifo' = << >> /\ rxfifo' = << >> /\ mst' \in {"stop", "idle"}
    BY <1>1, <1>3 DEF IInv, Control, Hardware
  <2>3. QED BY <2>1, <2>2
<1>6. CASE FinalStatus \in Retryable
  <2>1. pc' = "attempt" /\ UNCHANGED <<phase, cmd, bytesRead>>
    BY <1>6 DEF Close
  <2>2. flush /\ status' \in {"NACK_ERR", "ARB_LOST_ERR"}
    BY <1>1, <1>2, <1>6
       DEF FinalStatus, Retryable, IInv, Control, Statuses, flush
  <2>3. TypeOK'
    BY <1>1, <1>4, <2>1, <2>2 DEF IInv, TypeOK, Retryable
  <2>4. Hardware'
    <3>1. mst' = "stop" => stuck'
      BY <1>5 DEF Stalled
    <3>2. QED BY <1>1, <1>3, <1>5, <2>1, <2>2, <3>1 DEF Hardware, InAttempt
  <2>5. Places' /\ Statuses'
    BY <1>1, <1>2, <1>3, <2>1, <2>2 DEF IInv, Control, Places, Statuses, InAttempt
  <2>6. Attempts'
    BY <1>1, <1>2, <2>1, <2>2 DEF IInv, Control, Attempts, InAttempt
  <2>7. Returned' /\ Conversation'
    BY <2>1 DEF Returned, Conversation, InAttempt
  <2>8. QED BY <2>3, <2>4, <2>5, <2>6, <2>7 DEF IInv, Control
<1>7. ASSUME FinalStatus \notin Retryable
      PROVE  ~nack_det /\ status' = status /\ status \in {"SUCCESS", "TIMEOUT"}
  BY <1>1, <1>2, <1>7 DEF FinalStatus, Retryable
<1>8. CASE FinalStatus \notin Retryable /\ phase = "tx" /\ ~Writing
  <2>1. phase' = "rx" /\ cmd' = 1 /\ bytesRead' = 0 /\ pc' = "write"
    BY <1>8 DEF Close, StartReceive
  <2>2. status = "TIMEOUT"
    <3>1. Written <= 5 /\ Total = 6
      BY <1>1, <1>2, <1>8, Counts DEF Written, Total, PhaseSize
    <3>2. QED BY <1>1, <1>7, <1>8, <3>1 DEF IInv, Control, Statuses
  <2>3. TypeOK'
    BY <1>1, <1>4, <1>7, <1>8, <2>1 DEF IInv, TypeOK
  <2>4. Hardware'
    BY <1>1, <1>5, <2>1 DEF Hardware
  <2>5. Places'
    <3>1. PhaseSize' = 3
      BY <2>1 DEF PhaseSize
    <3>2. QED
      BY <1>1, <1>2, <1>3, <1>7, <1>8, <2>1, <2>2, <3>1
         DEF IInv, Control, Places, InAttempt
  <2>6. Statuses' /\ Attempts' /\ Returned'
    BY <1>1, <1>2, <1>3, <1>7, <1>8, <2>1, <2>2
       DEF IInv, Control, Statuses, Attempts, Returned, InAttempt
  <2>7. Conversation'
    BY <1>1 DEF Conversation, Live
  <2>8. QED BY <2>3, <2>4, <2>5, <2>6, <2>7 DEF IInv, Control
<1>9. CASE FinalStatus \notin Retryable /\ ~(phase = "tx" /\ ~Writing)
  <2>1. pc' = "return" /\ UNCHANGED <<phase, cmd, bytesRead>>
    BY <1>9 DEF Close
  <2>2. TypeOK'
    BY <1>1, <1>4, <1>7, <1>9, <2>1 DEF IInv, TypeOK
  <2>3. Hardware'
    BY <1>1, <1>5, <2>1 DEF Hardware
  <2>4. Places' /\ Statuses' /\ Attempts' /\ Conversation'
    BY <1>1, <1>2, <1>3, <1>7, <1>9, <2>1
       DEF IInv, Control, Places, Statuses, Attempts, Conversation, InAttempt
  <2>5. status = "TIMEOUT" => stuck \/ arblost_det
    BY <1>2, <1>7, <1>9 DEF IInv, Control, Statuses, flush
  <2>6. ASSUME status = "SUCCESS"
        PROVE  /\ mst' = "idle" /\ txfifo = << >> /\ rxfifo = << >>
               /\ Writing => regs[Reg] = Val \/ arblost_det
               /\ ~Writing => buffer[1] = Answer(1) /\ buffer[2] = Answer(2)
    <3>1. /\ ctrl_en /\ Written = Total /\ mst = "preIdle" /\ mst' = "idle"
          /\ phase = "rx" => bytesRead = 2 /\ ~flush
      BY <1>1, <1>2, <2>6 DEF IInv, Control, Places, Statuses, Hardware
    <3>2. CASE flush
      BY <1>2, <1>7, <1>9, <3>1, <3>2 DEF flush, IInv, Control, Hardware
    <3>3. CASE ~flush
      <4>1. Placed /\ Spoken /\ Heard
        BY <1>2, <2>6, <3>1, <3>3 DEF Live, IInv, Conversation
      <4>2. Done = Total /\ Len(txfifo) = 0 /\ Total \in 5 .. 6
        BY <1>2, <3>1, <4>1, Counts DEF Placed
      <4>3. txfifo = << >>
        BY <1>2, <4>2 DEF BusTypeOK
      <4>4. CASE Writing
        BY <1>2, <3>1, <4>1, <4>2, <4>3, <4>4 DEF Total, Spoken, Heard
      <4>5. CASE ~Writing
        <5>1. phase = "rx" /\ bytesRead = 2 /\ Done = 6
          BY <1>2, <1>9, <3>1, <4>2, <4>5 DEF Total
        <5>2. Len(rxfifo) = 0 /\ rxfifo \in Seq(Byte)
          BY <1>2, <4>1, <5>1 DEF Heard, Received, BusTypeOK
        <5>3. buffer[1] = Answer(1) /\ buffer[2] = Answer(2)
          BY <4>1, <5>1 DEF Heard
        <5>4. QED BY <3>1, <4>3, <4>5, <5>2, <5>3
      <4>6. QED BY <4>4, <4>5
    <3>4. QED BY <3>2, <3>3
  <2>7. Returned'
    BY <1>1, <1>3, <1>7, <1>9, <2>1, <2>5, <2>6 DEF Returned, Answer, Retryable
  <2>8. QED BY <2>2, <2>3, <2>4, <2>7 DEF IInv, Control
<1>10. QED BY <1>6, <1>8, <1>9

\* Every step of the program.
LEMMA ProgramInv == ASSUME IInv, Program PROVE IInv'
  BY CallInv, ReturnInv, AttemptInv, WriteCommandInv, WriteTimesOutInv, CheckFailsInv,
     NextCommandInv, LastCommandInv, ReadAvailableInv, ReadByteInv, ReadGivesUpInv,
     AwaitIdleInv, IdleTimesOutInv, CloseInv
     DEF Program

\* A step that changes nothing.
LEMMA StutterInv == ASSUME IInv, UNCHANGED vars PROVE IInv'
<1>1. UNCHANGED busVars /\ UNCHANGED <<pc, call, buffer, retry, phase, cmd, bytesRead, status>>
  BY DEF vars, program
<1>2. BusTypeOK
  BY DEF IInv, TypeOK
<1>3. PhaseSize' = PhaseSize /\ Written' = Written /\ InAttempt' = InAttempt
  BY <1>1 DEF PhaseSize, TxSize, Writing, Written, InAttempt
<1>4. TypeOK'
  BY <1>1, <1>2, Still DEF IInv, TypeOK
<1>5. Hardware' /\ Places'
  BY <1>1, <1>2, <1>3, Still, SameCall DEF IInv, Control, Hardware, Places
<1>6. Statuses' /\ Attempts'
  BY <1>1, <1>2, <1>3, Still, SameCall DEF IInv, Control, Statuses, Attempts
<1>7. Returned'
  BY <1>1, <1>2, Still, SameCall DEF IInv, Control, Returned, Answer
<1>8. Conversation'
  <2>1. CASE InAttempt
    BY <1>1, <1>2, <1>3, <2>1, Still, SameConversation DEF Live
  <2>2. CASE ~InAttempt
    BY <1>3, <2>2 DEF Conversation
  <2>3. QED BY <2>1, <2>2
<1>9. QED BY <1>4, <1>5, <1>6, <1>7, <1>8 DEF IInv, Control

LEMMA NextInv == ASSUME IInv, [Next]_vars PROVE IInv'
  BY BusInv, ProgramInv, StutterInv DEF Next

\* The invariant holds of every run.
LEMMA Invariance == Spec => []IInv
<1>1. Init => IInv
  BY InitInv
<1>2. IInv /\ [Next]_vars => IInv'
  BY NextInv
<1>3. QED BY <1>1, <1>2, PTL DEF Spec

\* A byte changes a register only if it is the last of the write in hand.
LEMMA Landing ==
    ASSUME IInv, Sending, Take(shifter)
    PROVE  regs' = regs \/ (InAttempt /\ Writing /\ regs' = [regs EXCEPT ![Reg] = Val])
<1>1. /\ Live /\ InAttempt /\ Placed /\ Spoken /\ mst = "shift" /\ shifter.kind # "read"
  BY ActsWhenLive DEF Sending, Stalled
<1>2. /\ Total \in 5 .. 6 /\ Done \in 0 .. Total - 1 /\ Matches(shifter, Done + 1)
  BY <1>1, Counts DEF Placed
<1>3. CASE shifter.kind # "byte"
  <2>1. shifter.kind \in {"addrW", "addrR"}
    BY <1>1, <1>3 DEF IInv, TypeOK, BusTypeOK, Command
  <2>2. QED BY <2>1 DEF Take
<1>4. CASE shifter.kind = "byte"
  <2>1. TakeByte(shifter.byte)
    BY <1>4 DEF Take
  <2>2. Done >= 1 /\ (~Writing => Done <= 2)
    BY <1>2, <1>4 DEF Matches
  <2>3. CASE ~Writing
    <3>1. Len(taken) # 3
      BY <1>1, <1>2, <2>2, <2>3 DEF Spoken
    <3>2. QED BY <2>1, <3>1 DEF TakeByte
  <2>4. CASE Writing
    <3>1. /\ Len(taken) = Done - 1
          /\ \A i \in 1 .. Done - 1 : taken[i] = buffer[i]
          /\ Done >= 3 => pointer = Reg
      BY <1>1, <2>2, <2>4 DEF Spoken
    <3>2. CASE Done = 4
      <4>1. taken[3] = buffer[3] /\ shifter.byte = buffer[4] /\ pointer = Reg
        BY <1>2, <2>4, <3>1, <3>2 DEF Matches
      <4>2. buffer[3] = Hi(Val) /\ buffer[4] = Lo(Val) /\ call \in 1 .. Len(Script)
        BY <1>1, <2>4 DEF IInv, Control, Places, InAttempt, TypeOK
      <4>3. WordOf(buffer[3], buffer[4]) = Val
        BY <4>2, ScriptTypes, Bytes DEF Val
      <4>4. regs' = IF pointer \in Registers
                    THEN [regs EXCEPT ![pointer] = WordOf(taken[3], shifter.byte)]
                    ELSE regs
        BY <2>1, <3>1, <3>2 DEF TakeByte
      <4>5. QED BY <1>1, <2>4, <4>1, <4>3, <4>4
    <3>3. CASE Done # 4
      <4>1. Len(taken) # 3
        BY <1>2, <3>1, <3>3
      <4>2. QED BY <2>1, <4>1 DEF TakeByte
    <3>4. QED BY <3>2, <3>3
  <2>5. QED BY <2>3, <2>4
<1>5. QED BY <1>3, <1>4

\* A step of the bus is a write that lands, or no step of the registers.
LEMMA BusStep ==
    ASSUME IInv, Bus
    PROVE  [Registers_!Next]_<<call - 1, regs>>
<1>1. call' = call
  BY DEF Bus, program
<1>2. CASE regs' = regs
  BY <1>1, <1>2
<1>3. CASE regs' # regs
  <2>1. Sending /\ Take(shifter)
    BY <1>3
       DEF Bus, Controller, Progress, Pop, SendByte, ReceiveByte, Stop, Refused,
           AckLost, ArbLost, BusSticks, codec
  <2>2. InAttempt /\ Writing /\ regs' = [regs EXCEPT ![Reg] = Val]
    BY <1>3, <2>1, Landing
  <2>3. call \in 1 .. Len(Script) /\ Len(Script) \in Nat
    BY <2>2, ScriptAssumption DEF IInv, TypeOK, Control, Places, InAttempt
  <2>4. (call - 1) + 1 = call /\ call - 1 < Len(Script)
    BY <2>3
  <2>5. Registers_!WriteLands
    BY <1>1, <2>2, <2>4 DEF Registers_!WriteLands, Registers_!Current, Writing, Reg, Val
  <2>6. QED BY <2>5 DEF Registers_!Next
<1>4. QED BY <1>2, <1>3

\* A step of the program is the return of a call, or no step of the registers.
LEMMA ProgramStep ==
    ASSUME IInv, Program
    PROVE  [Registers_!Next]_<<call - 1, regs>>
<1>1. regs' = regs
  BY DEF Program, Call, Return, Attempt, WriteCommand, WriteTimesOut, CheckFails,
         NextCommand, LastCommand, ReadAvailable, PopRx, ReadByte, ReadGivesUp,
         AwaitIdle, IdleTimesOut, Close, busVars, codec
<1>2. CASE call' = call
  BY <1>1, <1>2
<1>3. CASE call' # call
  <2>1. Return /\ pc = "return" /\ status = "SUCCESS" /\ call' = call + 1
    BY <1>3
       DEF Program, Call, Return, Attempt, WriteCommand, WriteTimesOut, CheckFails,
           NextCommand, LastCommand, ReadAvailable, ReadByte, ReadGivesUp,
           AwaitIdle, IdleTimesOut, Close
  <2>2. /\ call \in 1 .. Len(Script) /\ Len(Script) \in Nat
        /\ Writing => regs[Reg] = Val \/ arblost_det
    BY <2>1, ScriptAssumption DEF IInv, TypeOK, Control, Places, Returned
  <2>3. (call - 1) + 1 = call /\ call - 1 < Len(Script) /\ call' - 1 = (call - 1) + 1
    BY <2>1, <2>2
  <2>4. Registers_!CallReturns
    BY <1>1, <2>2, <2>3 DEF Registers_!CallReturns, Registers_!Current, Writing, Reg, Val
  <2>5. QED BY <2>4 DEF Registers_!Next
<1>4. QED BY <1>2, <1>3

-----------------------------------------------------------------------------
(* Theorems.                                                               *)

\* Whatever is refused, lost, disturbed or held, and however often, no FIFO
\* of the controller overflows and no transfer is attempted more often than
\* the driver means to.
THEOREM CodecTypes == Spec => []TypeOK
<1>1. IInv => TypeOK
  BY DEF IInv
<1>2. QED BY <1>1, Invariance, PTL

\* A read that alt_avalon_i2c_master_tx_rx reports as a success put both
\* bytes of one register into the buffer, for any number of attempts.
THEOREM WholeReads == Spec => []ReadsOneRegister
<1>1. IInv => ReadsOneRegister
  <2> SUFFICES ASSUME IInv, pc = "return", status = "SUCCESS", ~Writing
               PROVE  WordOf(buffer[1], buffer[2]) = Contents(pointer)
    BY DEF ReadsOneRegister
  <2>1. buffer[1] = Answer(1) /\ buffer[2] = Answer(2)
    BY DEF IInv, Control, Returned
  <2>2. buffer[1] = Hi(Contents(pointer)) /\ buffer[2] = Lo(Contents(pointer))
    BY <2>1 DEF Answer
  <2>3. QED BY <2>2, AnswerTypes DEF IInv, TypeOK
<1>2. QED BY <1>1, Invariance, PTL

\* The while (1) of SGTL5000_Reg_Rd and SGTL5000_Reg_Wr is reached only on a
\* held bus, a lost arbitration, or as many faults as the driver has attempts.
THEOREM HangsExplained == Spec => []HangsForAReason
<1>1. IInv => HangsForAReason
  BY DEF IInv, Control, Returned, HangsForAReason
<1>2. QED BY <1>1, Invariance, PTL

\* The set-up implements CodecRegisters: the registers change by the writes
\* of the script only, in its order, each before its call returns unless
\* arbitration was lost under it.
THEOREM WritesInOrder == Spec => RegistersSpec
<1>1. Init => Registers_!Init
  BY DEF Init, BusInit, Registers_!Init
<1>2. IInv /\ [Next]_vars => [Registers_!Next]_<<call - 1, regs>>
  <2>1. ASSUME IInv, UNCHANGED vars PROVE [Registers_!Next]_<<call - 1, regs>>
    BY <2>1 DEF vars, busVars, codec, program
  <2>2. QED BY <2>1, BusStep, ProgramStep DEF Next
<1>3. QED
  BY <1>1, <1>2, Invariance, PTL DEF Spec, RegistersSpec, Registers_!Spec

-----------------------------------------------------------------------------
(* The set-up cannot go on for ever.                                       *)

\* The accesses that an attempt has left, at most: those of a reception, and
\* before them those of a transmission that may be followed by one.
PhaseLeft == CASE pc = "close"     -> 3
               [] pc = "wait"      -> 4
               [] pc = "read"      -> 7 - bytesRead
               [] pc = "check"     -> 23 - 3 * cmd
               [] pc = "write"     -> 24 - 3 * cmd
               [] pc = "available" -> 25 - 3 * cmd

AttemptLeft == CASE pc = "return"  -> 1
                 [] pc = "attempt" -> 2
                 [] InAttempt      -> PhaseLeft + (IF phase = "tx" THEN 20 ELSE 0)
                 [] OTHER          -> 0

\* The call in hand comes nearer to its end: attempts left, then accesses of
\* the attempt left.
Descends == \/ retry \in Nat /\ retry' \in 0 .. retry - 1
            \/ /\ retry' = retry
               /\ AttemptLeft \in 0 .. 41 /\ AttemptLeft' \in 0 .. AttemptLeft - 1

\* The bytes and conditions the FSM can still produce by itself.
BusLeft == 4 * Len(txfifo) + CASE mst = "shift"    -> 3
                               [] mst = "stop"     -> 2
                               [] mst = "preStart" -> 1
                               [] OTHER            -> 0

SetupProgress ==
    [][\/ call' = call + 1 /\ call <= Len(Script)
       \/ call' = call /\ pc = "call" /\ pc' = "attempt"
       \/ call' = call /\ Descends
       \/ /\ UNCHANGED program
          /\ BusLeft \in 0 .. 4 * FIFO_DEPTH + 3 /\ BusLeft' \in 0 .. BusLeft - 1
       \/ UNCHANGED program /\ ~stuck /\ stuck' /\ BusLeft' = BusLeft]_vars

\* An access within an attempt leaves fewer of them.
LEMMA AccessShortens ==
    ASSUME IInv, \/ WriteCommand \/ WriteTimesOut \/ CheckFails \/ NextCommand
                 \/ LastCommand \/ ReadAvailable \/ ReadByte \/ ReadGivesUp
                 \/ AwaitIdle \/ IdleTimesOut \/ Close
    PROVE  call' = call /\ Descends
<1>1. /\ cmd \in 1 .. 5 /\ bytesRead \in 0 .. 2 /\ phase \in {"tx", "rx"}
      /\ retry \in Nat
  BY ScriptAssumption DEF IInv, TypeOK
<1>2. call' = call /\ retry' = retry /\ InAttempt
  BY DEF WriteCommand, WriteTimesOut, CheckFails, NextCommand, LastCommand,
         ReadAvailable, ReadByte, ReadGivesUp, ReadTimesOut, AwaitIdle,
         IdleTimesOut, Close, InAttempt
<1> DEFINE offset == IF phase = "tx" THEN 20 ELSE 0
<1>3. AttemptLeft = PhaseLeft + offset
  BY <1>2 DEF AttemptLeft, InAttempt
<1>4. InAttempt' => AttemptLeft' = PhaseLeft' + offset'
  BY DEF AttemptLeft, InAttempt
<1>5. CASE WriteCommand \/ WriteTimesOut \/ CheckFails \/ AwaitIdle \/ IdleTimesOut
  <2>1. /\ UNCHANGED <<phase, cmd>>
        /\ <<pc, pc'>> \in {<<"write", "check">>, <<"write", "wait">>,
                            <<"check", "wait">>, <<"wait", "close">>}
    BY <1>5 DEF WriteCommand, WriteTimesOut, CheckFails, AwaitIdle, IdleTimesOut
  <2>2. PhaseLeft \in 0 .. 21 /\ PhaseLeft' \in 0 .. PhaseLeft - 1 /\ InAttempt'
    BY <1>1, <2>1 DEF PhaseLeft, InAttempt
  <2>3. QED BY <1>2, <1>3, <1>4, <2>1, <2>2 DEF Descends
<1>6. CASE NextCommand
  <2>1. /\ phase' = phase /\ cmd' = cmd + 1 /\ pc = "check"
        /\ pc' \in {"available", "write"} /\ cmd < 5
    BY <1>1, <1>6 DEF NextCommand, PhaseSize, TxSize
  <2>2. PhaseLeft \in 0 .. 21 /\ PhaseLeft' \in 0 .. PhaseLeft - 1 /\ InAttempt'
    BY <1>1, <2>1 DEF PhaseLeft, InAttempt
  <2>3. QED BY <1>2, <1>3, <1>4, <2>1, <2>2 DEF Descends
<1>7. CASE LastCommand
  <2>1. pc = "check" /\ cmd = PhaseSize
    BY <1>7 DEF LastCommand
  <2>2. PhaseLeft = 23 - 3 * cmd
    BY <2>1 DEF PhaseLeft
  <2>3. CASE phase = "rx"
    <3>1. pc' = "read" /\ UNCHANGED <<phase, cmd, bytesRead>> /\ cmd = 3
      BY <1>7, <2>1, <2>3 DEF LastCommand, PhaseSize
    <3>2. PhaseLeft' = 7 - bytesRead /\ InAttempt'
      BY <3>1 DEF PhaseLeft, InAttempt
    <3>3. QED BY <1>1, <1>2, <1>3, <1>4, <2>2, <3>1, <3>2 DEF Descends
  <2>4. CASE phase = "tx" /\ Writing
    <3>1. pc' = "wait" /\ UNCHANGED <<phase, cmd, bytesRead>> /\ cmd = 5
      BY <1>7, <2>1, <2>4 DEF LastCommand, PhaseSize, TxSize
    <3>2. PhaseLeft' = 4 /\ InAttempt'
      BY <3>1 DEF PhaseLeft, InAttempt
    <3>3. QED BY <1>1, <1>2, <1>3, <1>4, <2>2, <3>1, <3>2 DEF Descends
  <2>5. CASE phase = "tx" /\ ~Writing
    <3>1. pc' = "write" /\ phase' = "rx" /\ cmd' = 1 /\ cmd = 3
      BY <1>7, <2>1, <2>5 DEF LastCommand, StartReceive, PhaseSize, TxSize
    <3>2. PhaseLeft' = 21 /\ InAttempt'
      BY <3>1 DEF PhaseLeft, InAttempt
    <3>3. QED BY <1>1, <1>2, <1>3, <1>4, <2>2, <2>5, <3>1, <3>2 DEF Descends
  <2>6. QED BY <1>1, <2>3, <2>4, <2>5
<1>8. CASE ReadAvailable
  <2>1. UNCHANGED <<phase, cmd>> /\ pc = "available" /\ pc' = "write" /\ cmd = 3
    BY <1>8 DEF ReadAvailable, IInv, Control, Places
  <2>2. PhaseLeft = 16 /\ PhaseLeft' = 15 /\ InAttempt'
    BY <2>1 DEF PhaseLeft, InAttempt
  <2>3. QED BY <1>1, <1>2, <1>3, <1>4, <2>1, <2>2 DEF Descends
<1>9. CASE ReadByte \/ ReadGivesUp
  <2>1. /\ UNCHANGED <<phase, cmd>> /\ pc = "read" /\ bytesRead' = bytesRead + 1
        /\ pc' \in {"read", "wait"} /\ (pc' = "read" => bytesRead' # 2)
    BY <1>1, <1>9 DEF ReadByte, AfterRead, ReadGivesUp, ReadTimesOut
  <2>2. bytesRead \in 0 .. 1
    BY <1>1, <2>1 DEF IInv, Control, Places
  <2>3. PhaseLeft \in 0 .. 21 /\ PhaseLeft' \in 0 .. PhaseLeft - 1 /\ InAttempt'
    BY <2>1, <2>2 DEF PhaseLeft, InAttempt
  <2>4. QED BY <1>2, <1>3, <1>4, <2>1, <2>3 DEF Descends
<1>10. CASE Close
  <2>1. PhaseLeft = 3
    BY <1>10 DEF Close, PhaseLeft
  <2>2. CASE pc' = "attempt" \/ pc' = "return"
    <3>1. AttemptLeft' \in 1 .. 2
      BY <2>2 DEF AttemptLeft, InAttempt
    <3>2. QED BY <1>1, <1>2, <1>3, <2>1, <3>1 DEF Descends
  <2>3. CASE ~(pc' = "attempt" \/ pc' = "return")
    <3>1. phase = "tx" /\ pc' = "write" /\ phase' = "rx" /\ cmd' = 1
      BY <1>10, <2>3 DEF Close, StartReceive
    <3>2. PhaseLeft' = 21 /\ InAttempt'
      BY <3>1 DEF PhaseLeft, InAttempt
    <3>3. QED BY <1>2, <1>3, <1>4, <2>1, <3>1, <3>2 DEF Descends
  <2>4. QED BY <2>2, <2>3
<1>11. QED BY <1>5, <1>6, <1>7, <1>8, <1>9, <1>10

\* A step of the FSM uses up a command, or what is left of one.
LEMMA BusShortens ==
    ASSUME IInv, Controller
    PROVE  BusLeft \in 0 .. 4 * FIFO_DEPTH + 3 /\ BusLeft' \in 0 .. BusLeft - 1
<1>1. txfifo \in Seq(Command) /\ Len(txfifo) \in 0 .. FIFO_DEPTH /\ FIFO_DEPTH \in Nat
  BY I2cAssumption DEF IInv, TypeOK, BusTypeOK
<1>2. txfifo # << >> => /\ Len(txfifo) >= 1
                        /\ Len(Tail(txfifo)) = Len(txfifo) - 1
  BY <1>1
<1>3. CASE Pop
  <2>1. /\ mst \in {"preStart", "hold"} /\ mst' = "shift"
        /\ txfifo # << >> /\ txfifo' = Tail(txfifo)
    BY <1>3 DEF Pop
  <2>2. QED BY <1>1, <1>2, <2>1 DEF BusLeft
<1>4. CASE SendByte \/ ReceiveByte
  <2>1. mst = "shift" /\ Proceed
    BY <1>4 DEF SendByte, ReceiveByte, Sending
  <2>2. \/ mst' \in {"stop", "hold"} /\ txfifo' = txfifo
        \/ mst' = "shift" /\ txfifo # << >> /\ txfifo' = Tail(txfifo)
    BY <2>1 DEF Proceed
  <2>3. QED BY <1>1, <1>2, <2>1, <2>2 DEF BusLeft
<1>5. CASE Refused \/ AckLost \/ ArbLost
  <2>1. mst = "shift" /\ mst' \in {"stop", "preIdle"} /\ txfifo' = << >>
    BY <1>5 DEF Refused, AckLost, ArbLost, Sending, Fault, FlushFifos
  <2>2. QED BY <1>1, <2>1 DEF BusLeft
<1>6. CASE Stop
  <2>1. mst = "stop" /\ mst' \in {"preStart", "preIdle"} /\ txfifo' = txfifo
    BY <1>6 DEF Stop
  <2>2. QED BY <1>1, <2>1 DEF BusLeft
<1>7. QED BY <1>3, <1>4, <1>5, <1>6 DEF Controller, Progress

\* The program makes only finitely many accesses, for every script and every
\* number of attempts: each starts or ends a call, uses up an attempt, or is
\* one of at most 41 of an attempt.  Between two of them the controller takes
\* at most 4 * FIFO_DEPTH + 3 steps.
THEOREM SetupRunsOut == Spec => SetupProgress
<1>1. ASSUME IInv, [Next]_vars
      PROVE  [\/ call' = call + 1 /\ call <= Len(Script)
              \/ call' = call /\ pc = "call" /\ pc' = "attempt"
              \/ call' = call /\ Descends
              \/ /\ UNCHANGED program
                 /\ BusLeft \in 0 .. 4 * FIFO_DEPTH + 3
                 /\ BusLeft' \in 0 .. BusLeft - 1
              \/ UNCHANGED program /\ ~stuck /\ stuck' /\ BusLeft' = BusLeft]_vars
  <2>1. CASE Call
    BY <2>1 DEF Call
  <2>2. CASE Return
    <3>1. CASE status = "SUCCESS"
      <4>1. call <= Len(Script)
        BY <1>1, <2>2 DEF Return, IInv, Control, Places
      <4>2. QED BY <2>2, <3>1, <4>1 DEF Return
    <3>2. CASE status # "SUCCESS"
      <4>1. pc = "return" /\ pc' = "hung" /\ call' = call /\ retry' = retry
        BY <2>2, <3>2 DEF Return
      <4>2. AttemptLeft = 1 /\ AttemptLeft' = 0
        BY <4>1 DEF AttemptLeft, InAttempt
      <4>3. QED BY <4>1, <4>2 DEF Descends
    <3>3. QED BY <3>1, <3>2
  <2>3. CASE Attempt
    <3>1. call' = call /\ retry \in Nat
      BY <1>1, <2>3, ScriptAssumption DEF Attempt, IInv, TypeOK
    <3>2. CASE retry = 0
      <4>1. pc = "attempt" /\ pc' = "return" /\ retry' = retry
        BY <2>3, <3>2 DEF Attempt, NoAttemptLeft
      <4>2. AttemptLeft = 2 /\ AttemptLeft' = 1
        BY <4>1 DEF AttemptLeft, InAttempt
      <4>3. QED BY <3>1, <4>1, <4>2 DEF Descends
    <3>3. CASE retry # 0
      <4>1. retry' = retry - 1
        BY <2>3, <3>3 DEF Attempt, NoAttemptLeft
      <4>2. QED BY <3>1, <3>3, <4>1 DEF Descends
    <3>4. QED BY <3>2, <3>3
  <2>4. CASE \/ WriteCommand \/ WriteTimesOut \/ CheckFails \/ NextCommand
             \/ LastCommand \/ ReadAvailable \/ ReadByte \/ ReadGivesUp
             \/ AwaitIdle \/ IdleTimesOut \/ Close
    BY <1>1, <2>4, AccessShortens
  <2>5. CASE Bus
    <3>1. CASE Controller
      BY <1>1, <2>5, <3>1, BusShortens DEF Bus
    <3>2. CASE BusSticks
      <4>1. ~stuck /\ stuck' /\ UNCHANGED <<txfifo, mst>>
        BY <3>2 DEF BusSticks, controller
      <4>2. QED BY <2>5, <4>1 DEF Bus, BusLeft
    <3>3. QED BY <2>5, <3>1, <3>2 DEF Bus
  <2>6. CASE UNCHANGED vars
    BY <2>6
  <2>7. QED BY <1>1, <2>1, <2>2, <2>3, <2>4, <2>5, <2>6 DEF Next, Program
<1>2. QED BY <1>1, Invariance, PTL DEF Spec, SetupProgress
=============================================================================
