--------------------------- MODULE UsbPipe_proofs ---------------------------
(***************************************************************************)
(* Proofs about UsbPipe, for interrupt endpoints whose reports fit one     *)
(* packet and end their transfer: polls then deliver every report once and *)
(* in order, for any number of reports and any losses on the bus.  Then    *)
(* about UsbEndpoints: the same beside control requests, and whole answers *)
(* to these.                                                               *)
(***************************************************************************)
EXTENDS UsbEndpoints, TLAPS

\* One packet carries a report, and XferInTransfer returns after it.
SinglePacket == /\ Kind = "interrupt"
                /\ TransferSize <= MaxPktSize
                /\ TransferEnds(TransferSize, TransferSize)

\* A report is one packet of TransferSize bytes (the loop of XferInTransfer
\* runs once).
LEMMA OnePacket ==
    ASSUME SinglePacket
    PROVE  /\ PktsPerTransfer = 1
           /\ \A p \in Nat : Size(p) = TransferSize
<1> USE PipeAssumption DEF SinglePacket
<1>1. PktsPerTransfer = 1
  <2>1. (TransferSize + MaxPktSize - 1) \div MaxPktSize = 1
    OBVIOUS
  <2>2. QED BY <2>1 DEF PktsPerTransfer
<1>2. \A p \in Nat : Place(p) = 0
  BY <1>1 DEF Place
<1>3. QED BY <1>1, <1>2 DEF Size


\* Every packet of a single-packet report ends its transfer.
LEMMA OnePacketEnds ==
    ASSUME SinglePacket, NEW p \in Nat
    PROVE  /\ Size(p) \in 0 .. nbytes
           /\ TransferEnds(Size(p), Size(p))
<1>1. Size(p) = TransferSize
  BY OnePacket
<1>2. TransferSize \in 0 .. nbytes
  BY PipeAssumption
<1>3. TransferEnds(TransferSize, TransferSize)
  BY DEF SinglePacket
<1>4. QED BY <1>1, <1>2, <1>3

\* The device sends the packet after the last one received, or repeats that
\* one because its acknowledgement was lost; the toggles tell which.
Sync == /\ log \in Seq(Nat)
        /\ \A i \in 1 .. Len(log) : log[i] = i
        /\ \/ devNext = Len(log) + 1 /\ rcvToggle = devToggle
           \/ devNext = Len(log) /\ rcvToggle = Flip(devToggle)
        /\ Len(log) <= made
        /\ devNext > 0

\* A call that has received something has returned.
InCall == /\ pc \in {"idle", "in"}
          /\ pc = "in" => /\ hctlToggle = rcvToggle
                          /\ xfrlen = 0
                          /\ data = << >>

IInv == TypeOK /\ Sync /\ InCall

\* The initial state satisfies the invariant.
LEMMA InitInv == ASSUME SinglePacket PROVE Init => IInv
<1>1. ASSUME Init PROVE TypeOK
  <2>1. made = 0
    BY <1>1 DEF SinglePacket, Init
  <2>2. datastage \in BOOLEAN
    BY <1>1 DEF Init
  <2>3. /\ pc = "idle" /\ xfrlen = 0 /\ devNext = 1 /\ rcode = hrSUCCESS
        /\ rcvToggle = 0 /\ hctlToggle = 0 /\ devToggle = 0
    BY <1>1 DEF Init
  <2>4. data \in Seq(Nat) /\ log \in Seq(Nat)
    BY <1>1 DEF Init
  <2>5. xfrlen \in 0 .. nbytes
    BY <2>3, PipeAssumption
  <2>6. QED BY <2>1, <2>2, <2>3, <2>4, <2>5 DEF TypeOK
<1>2. ASSUME Init PROVE Sync
  BY <1>2 DEF SinglePacket, Init, Sync
<1>3. ASSUME Init PROVE InCall
  BY <1>3 DEF Init, InCall
<1>4. QED BY <1>1, <1>2, <1>3 DEF IInv

\* What a step that takes a packet does when reports fit one packet: the poll
\* returns 0, the report is appended and the toggle saved.
Delivers == /\ pc = "in" /\ devNext <= made
            /\ devToggle = rcvToggle
            /\ hctlToggle' = Flip(rcvToggle)
            /\ rcvToggle' = Flip(rcvToggle)
            /\ data' = <<devNext>>
            /\ xfrlen' = Size(devNext)
            /\ pc' = "idle" /\ rcode' = hrSUCCESS
            /\ log' = Append(log, devNext)
            /\ datastage' = datastage

LEMMA InPacketDelivers ==
    ASSUME SinglePacket, IInv, InPacket PROVE Delivers
<1>1. /\ pc = "in" /\ devNext <= made
      /\ devToggle = hctlToggle
      /\ hctlToggle' = Flip(hctlToggle)
      /\ data' = Append(data, devNext)
      /\ xfrlen' = xfrlen + Size(devNext)
      /\ datastage' = datastage
  BY DEF InPacket, DeviceSends
<1>2. hctlToggle = rcvToggle /\ xfrlen = 0 /\ data = << >>
  BY <1>1 DEF IInv, InCall
<1>3. devNext \in Nat /\ log \in Seq(Nat)
  BY DEF IInv, TypeOK
<1>4. data' = <<devNext>>
  BY <1>1, <1>2, <1>3
<1>5. Size(devNext) \in 0 .. nbytes /\ TransferEnds(Size(devNext), Size(devNext))
  BY <1>3, OnePacketEnds
<1>6. xfrlen' = Size(devNext)
  BY <1>1, <1>2, <1>5
<1>7. TransferEnds(Size(devNext), xfrlen')
  BY <1>5, <1>6
<1>8. Kind # "control"
  BY DEF SinglePacket
<1>9. SaveToggle /\ Return(hrSUCCESS) /\ log' = log \o data'
  BY <1>7, <1>8 DEF InPacket
<1>10. log' = Append(log, devNext)
  BY <1>9, <1>4, <1>3
<1>11. QED
  BY <1>1, <1>2, <1>4, <1>6, <1>9, <1>10 DEF Delivers, SaveToggle, Return

\* A packet is taken exactly when it is the next one.
LEMMA TakenIsNext ==
    ASSUME IInv, pc = "in", devToggle = rcvToggle
    PROVE  devNext = Len(log) + 1
  BY DEF IInv, Sync, TypeOK, Flip

LEMMA DroppedIsRepeat ==
    ASSUME IInv, pc = "in", devToggle # hctlToggle
    PROVE  devNext = Len(log) /\ rcvToggle = Flip(devToggle)
  BY DEF IInv, Sync, InCall, TypeOK, Flip

\* Delivering the next report keeps the invariant, whether or not the
\* acknowledgement reaches the device.
LEMMA DeliverInv ==
    ASSUME SinglePacket, IInv, Delivers, Acknowledged \/ UNCHANGED device
    PROVE  IInv'
<1>1. devNext = Len(log) + 1
  BY TakenIsNext DEF Delivers
<1>2. /\ devNext \in Nat /\ log \in Seq(Nat) /\ made \in Nat
      /\ devToggle \in {0, 1} /\ rcvToggle \in {0, 1}
      /\ datastage \in BOOLEAN
  BY DEF IInv, TypeOK
<1>3. Size(devNext) \in 0 .. nbytes
  BY <1>2, OnePacketEnds
<1>4. /\ log' \in Seq(Nat)
      /\ Len(log') = Len(log) + 1
      /\ \A i \in 1 .. Len(log') : log'[i] = i
  BY <1>1, <1>2 DEF IInv, Sync, Delivers
<1>5. /\ made' = made
      /\ \/ devToggle' = Flip(devToggle) /\ devNext' = devNext + 1
         \/ devToggle' = devToggle /\ devNext' = devNext
  BY DEF Acknowledged, device
<1>6. TypeOK'
  <2>1. datastage' \in BOOLEAN /\ pc' = "idle" /\ rcode' = hrSUCCESS
    BY <1>2 DEF Delivers
  <2>2. {rcvToggle', hctlToggle', devToggle'} \subseteq {0, 1}
    BY <1>2, <1>5 DEF Delivers, Flip
  <2>3. xfrlen' \in 0 .. nbytes /\ devNext' \in Nat /\ made' \in Nat
    BY <1>2, <1>3, <1>5 DEF Delivers
  <2>4. data' \in Seq(Nat)
    BY <1>2 DEF Delivers
  <2>5. QED BY <2>1, <2>2, <2>3, <2>4, <1>4 DEF TypeOK
<1>7. Sync'
  <2>1. \/ devNext' = Len(log') + 1 /\ rcvToggle' = devToggle'
        \/ devNext' = Len(log') /\ rcvToggle' = Flip(devToggle')
    BY <1>1, <1>2, <1>4, <1>5 DEF Delivers, Flip
  <2>2. Len(log') <= made' /\ devNext' > 0
    BY <1>1, <1>2, <1>4, <1>5 DEF Delivers
  <2>3. QED BY <1>4, <2>1, <2>2 DEF Sync
<1>8. InCall'
  BY DEF Delivers, InCall
<1>9. QED BY <1>6, <1>7, <1>8 DEF IInv

\* Dropping a repeat keeps the invariant: the device moves on to the report
\* the host expects, or repeats itself again.
LEMMA DropInv ==
    ASSUME IInv, InToggleError, Acknowledged \/ UNCHANGED device
    PROVE  IInv'
<1>1. /\ pc = "in" /\ devNext <= made /\ devToggle # hctlToggle
      /\ pc' = "idle" /\ rcode' \in {hrTOGERR, NoRcvDav}
      /\ UNCHANGED <<rcvToggle, datastage, hctlToggle, xfrlen, data, log>>
  BY DEF InToggleError, DeviceSends, Fail, Return
<1>2. devNext = Len(log) /\ rcvToggle = Flip(devToggle)
  BY <1>1, DroppedIsRepeat
<1>3. /\ made' = made
      /\ \/ devToggle' = Flip(devToggle) /\ devNext' = devNext + 1
         \/ devToggle' = devToggle /\ devNext' = devNext
  BY DEF Acknowledged, device
<1>4. TypeOK'
  <2>1. rcode' \in Failures \cup {hrSUCCESS, hrTOGERR, NoRcvDav}
    BY <1>1
  <2>2. devToggle' \in {0, 1} /\ devNext' \in Nat /\ made' \in Nat
    BY <1>3 DEF IInv, TypeOK, Flip
  <2>3. QED BY <1>1, <2>1, <2>2 DEF IInv, TypeOK
<1>5. Sync'
  BY <1>1, <1>2, <1>3 DEF IInv, Sync, TypeOK, Flip
<1>6. InCall'
  BY <1>1 DEF InCall
<1>7. QED BY <1>4, <1>5, <1>6 DEF IInv

\* Every step of the specification keeps the invariant.
LEMMA NextInv == ASSUME SinglePacket, IInv, [Next]_vars PROVE IInv'
<1>1. CASE UNCHANGED vars
  BY <1>1 DEF vars, IInv, TypeOK, Sync, InCall
<1>2. CASE Poll
  <2>1. /\ pc' = "in" /\ hctlToggle' = rcvToggle
        /\ xfrlen' = 0 /\ data' = << >>
        /\ UNCHANGED <<datastage, rcvToggle, rcode, log,
                       devToggle, devNext, made>>
    BY <1>2 DEF Poll, StartIn, SetToggle, device
  <2>2. TypeOK'
    BY <2>1, PipeAssumption DEF IInv, TypeOK
  <2>3. Sync'
    BY <2>1 DEF IInv, Sync
  <2>4. InCall'
    BY <2>1 DEF InCall
  <2>5. QED BY <2>2, <2>3, <2>4 DEF IInv
<1>3. CASE InAcked \/ InAckLost
  <2>1. InPacket /\ (Acknowledged \/ UNCHANGED device)
    BY <1>3 DEF InAcked, InAckLost
  <2>2. Delivers
    BY <2>1, InPacketDelivers
  <2>3. QED BY <2>1, <2>2, DeliverInv
<1>4. CASE DropAcked \/ DropAckLost
  BY <1>4, DropInv DEF DropAcked, DropAckLost
<1>5. CASE InFails
  <2>1. /\ pc' = "idle" /\ rcode' \in Failures
        /\ UNCHANGED <<datastage, rcvToggle, hctlToggle, xfrlen, data, log,
                       devToggle, devNext, made>>
    BY <1>5 DEF InFails, Fail, Return, device
  <2>2. TypeOK'
    BY <2>1 DEF IInv, TypeOK
  <2>3. Sync'
    BY <2>1 DEF IInv, Sync
  <2>4. InCall'
    BY <2>1 DEF InCall
  <2>5. QED BY <2>2, <2>3, <2>4 DEF IInv
<1>6. CASE Make
  <2>1. /\ made' = made + 1
        /\ UNCHANGED <<pc, datastage, rcvToggle, hctlToggle, xfrlen, data,
                       rcode, log, devToggle, devNext>>
    BY <1>6, OnePacket DEF Make, host
  <2>2. TypeOK'
    BY <2>1 DEF IInv, TypeOK
  <2>3. Sync'
    BY <2>1 DEF IInv, Sync, TypeOK
  <2>4. InCall'
    BY <2>1 DEF IInv, InCall
  <2>5. QED BY <2>2, <2>3, <2>4 DEF IInv
<1>7. CASE CtrlReq \/ SetupData \/ SetupNoData \/ SetupFails
           \/ StatusDone \/ StatusFails
  BY <1>7 DEF SinglePacket, IInv, InCall, CtrlReq, SetupData, SetupNoData,
              SetupFails, StatusDone, StatusFails
<1>8. CASE OtherTransfer
  <2>1. /\ pc = "idle" /\ hctlToggle' \in {0, 1}
        /\ UNCHANGED <<pc, datastage, rcvToggle, xfrlen, data, rcode, log,
                       devToggle, devNext, made>>
    BY <1>8 DEF OtherTransfer, device
  <2>2. TypeOK'
    BY <2>1 DEF IInv, TypeOK
  <2>3. Sync'
    BY <2>1 DEF IInv, Sync
  <2>4. InCall'
    BY <2>1 DEF InCall
  <2>5. QED BY <2>2, <2>3, <2>4 DEF IInv
<1>9. QED
  BY <1>1, <1>2, <1>3, <1>4, <1>5, <1>6, <1>7, <1>8 DEF Next, InStep

\* The invariant holds in every reachable state.
LEMMA Invariance == ASSUME SinglePacket PROVE Spec => []IInv
<1>1. Init => IInv
  BY InitInv
<1>2. IInv /\ [Next]_vars => IInv'
  BY NextInv
<1>3. QED BY <1>1, <1>2, PTL DEF Spec

\* The toggle saved by mousePoll and kbdPoll tells a repeated report from a
\* new one, for any number of reports, losses and repeats.
THEOREM TogglesInStep == ASSUME SinglePacket PROVE Spec => []TogglesTellRepeats
<1>1. IInv => TogglesTellRepeats
  <2>1. SUFFICES ASSUME IInv
                 PROVE  rcvToggle # devToggle
                          <=> devNext \in {log[i] : i \in DOMAIN log}
    BY DEF TogglesTellRepeats
  <2>2. {log[i] : i \in DOMAIN log} = 1 .. Len(log)
    BY <2>1 DEF IInv, Sync
  <2>3. rcvToggle # devToggle <=> devNext = Len(log)
    BY <2>1 DEF IInv, Sync, TypeOK, Flip
  <2>4. devNext \in 1 .. Len(log) <=> devNext = Len(log)
    BY <2>1 DEF IInv, Sync, TypeOK
  <2>5. QED BY <2>2, <2>3, <2>4
<1>2. QED BY <1>1, Invariance, PTL

\* Polling an endpoint whose reports fit one packet implements ReportStream:
\* no report is lost, repeated or out of order.
THEOREM StreamRefined == ASSUME SinglePacket PROVE Spec => StreamSpec
<1>1. Init => Stream!Init
  BY DEF Init, Stream!Init, SinglePacket
<1>2. ASSUME IInv, [Next]_vars
      PROVE  [Stream!Next]_<<made, log>>
  <2>1. CASE InAcked \/ InAckLost
    <3>1. InPacket /\ (Acknowledged \/ UNCHANGED device)
      BY <2>1 DEF InAcked, InAckLost
    <3>2. Delivers
      BY <1>2, <3>1, InPacketDelivers
    <3>3. devNext = Len(log) + 1
      BY <1>2, <3>2, TakenIsNext DEF Delivers
    <3>4. made' = made
      BY <3>1 DEF Acknowledged, device
    <3>5. Len(log) < made /\ log' = Append(log, Len(log) + 1)
      BY <1>2, <3>2, <3>3 DEF Delivers, IInv, TypeOK
    <3>6. Stream!Receive
      BY <3>4, <3>5 DEF Stream!Receive
    <3>7. QED BY <3>6 DEF Stream!Next
  <2>2. CASE Make
    <3>1. Stream!Make
      BY <2>2, OnePacket DEF Make, host, Stream!Make
    <3>2. QED BY <3>1 DEF Stream!Next
  <2>3. CASE UNCHANGED vars \/ Poll \/ DropAcked \/ DropAckLost \/ InFails
             \/ OtherTransfer
    BY <2>3 DEF vars, Poll, StartIn, DropAcked, DropAckLost, InFails,
                InToggleError, OtherTransfer, Acknowledged, device
  <2>4. CASE CtrlReq \/ SetupData \/ SetupNoData \/ SetupFails
             \/ StatusDone \/ StatusFails
    BY <1>2, <2>4 DEF SinglePacket, IInv, InCall, CtrlReq, SetupData,
              SetupNoData, SetupFails, StatusDone, StatusFails
  <2>5. QED
    BY <1>2, <2>1, <2>2, <2>3, <2>4 DEF Next, InStep
<1>3. QED
  BY <1>1, <1>2, Invariance, PTL DEF Spec, StreamSpec, Stream!Spec

-----------------------------------------------------------------------------
(* Endpoint 0, with answers of any size.                                   *)

Answer == [i \in 1 .. Requests!PktsPerTransfer |-> i]

\* Only the last packet of an answer ends the transfer, whether it is short or
\* completes the bytes asked for.
LEMMA AnswerPackets ==
    /\ Requests!PktsPerTransfer \in Nat \ {0}
    /\ \A p \in 1 .. Requests!PktsPerTransfer - 1 :
          /\ Requests!Size(p) = MaxPktSize0
          /\ ~Requests!TransferEnds(MaxPktSize0, MaxPktSize0 * p)
    /\ Requests!Size(Requests!PktsPerTransfer) \in Int
<1> DEFINE N == Requests!PktsPerTransfer
<1> USE EndpointsAssumption
<1>1. N \in Nat \ {0} /\ MaxPktSize0 * (N - 1) <= AnswerSize
                     /\ (AnswerSize = AnswerAsked => MaxPktSize0 * (N - 1) < AnswerSize)
  <2>1. CASE AnswerSize < AnswerAsked
    <3>1. N = AnswerSize \div MaxPktSize0 + 1
      BY <2>1 DEF Requests!PktsPerTransfer
    <3>2. QED BY <2>1, <3>1
  <2>2. CASE AnswerSize = AnswerAsked
    <3>1. N = (AnswerSize + MaxPktSize0 - 1) \div MaxPktSize0
      BY <2>2 DEF Requests!PktsPerTransfer
    <3>2. QED BY <2>2, <3>1
  <2>3. QED BY <2>1, <2>2
<1>2. \A p \in 1 .. N : Requests!Place(p) = p - 1
  BY <1>1 DEF Requests!Place
<1>3. ASSUME NEW p \in 1 .. N - 1
      PROVE  /\ Requests!Size(p) = MaxPktSize0
             /\ ~Requests!TransferEnds(MaxPktSize0, MaxPktSize0 * p)
  <2>1. Requests!Size(p) = MaxPktSize0
    BY <1>1, <1>2 DEF Requests!Size
  <2>2. MaxPktSize0 * p < AnswerAsked
    <3>1. p <= N - 1 /\ p \in Nat /\ N - 1 \in Nat /\ MaxPktSize0 \in Nat
      BY <1>1
    <3>2. MaxPktSize0 * p <= MaxPktSize0 * (N - 1)
      BY <3>1
    <3>3. MaxPktSize0 * p \in Nat /\ MaxPktSize0 * (N - 1) \in Nat
      BY <3>1
    <3>4. QED BY <1>1, <3>2, <3>3
  <2>3. QED BY <2>1, <2>2 DEF Requests!TransferEnds
<1>4. Requests!Size(N) \in Int
  BY <1>1, <1>2 DEF Requests!Size
<1>5. QED BY <1>1, <1>3, <1>4

\* The last packet of an answer ends its transfer: it is short, possibly empty,
\* or makes up the bytes asked for.
LEMMA LastPacketEnds ==
    LET N == Requests!PktsPerTransfer
        size == Requests!Size(N)
    IN  Requests!TransferEnds(size, MaxPktSize0 * (N - 1) + size)
<1> DEFINE N == Requests!PktsPerTransfer
<1> USE EndpointsAssumption
<1>1. N \in Nat \ {0}
  BY AnswerPackets
<1>2. Requests!Place(N) = N - 1
  BY <1>1 DEF Requests!Place
<1>3. Requests!Size(N) = AnswerSize - MaxPktSize0 * (N - 1)
  BY <1>2 DEF Requests!Size
<1>4. MaxPktSize0 * (N - 1) \in Int
  BY <1>1
<1>5. CASE AnswerSize < AnswerAsked
  <2>1. N - 1 = AnswerSize \div MaxPktSize0
    BY <1>5 DEF Requests!PktsPerTransfer
  <2>2. AnswerSize - MaxPktSize0 * (AnswerSize \div MaxPktSize0) < MaxPktSize0
    <3>1. ASSUME NEW a \in Nat, NEW b \in Nat \ {0}
          PROVE  a - b * (a \div b) < b
      <4>1. a % b < b /\ a = b * (a \div b) + (a % b)
        OBVIOUS
      <4>2. QED BY <4>1
    <3>2. AnswerSize \in Nat /\ MaxPktSize0 \in Nat \ {0}
      OBVIOUS
    <3>3. QED BY <3>1, <3>2
  <2>3. Requests!Size(N) < MaxPktSize0
    BY <1>3, <2>1, <2>2
  <2>4. QED BY <2>3 DEF Requests!TransferEnds
<1>6. CASE AnswerSize = AnswerAsked
  <2>1. MaxPktSize0 * (N - 1) + Requests!Size(N) >= AnswerAsked
    BY <1>3, <1>4, <1>6
  <2>2. QED BY <2>1 DEF Requests!TransferEnds
<1>7. QED BY <1>5, <1>6

\* A request collects the packets of its answer from 1 on: the device sends
\* the one after the last, or repeats the last, and the toggles tell which.
Collecting == /\ pc0 = "in" => /\ datastage0
                               /\ data0 \in Seq(Nat)
                               /\ \A i \in 1 .. Len(data0) : data0[i] = i
                               /\ Len(data0) < Requests!PktsPerTransfer
                               /\ xfrlen0 = MaxPktSize0 * Len(data0)
                               /\ \/ /\ devNext0 = Len(data0) + 1
                                     /\ devToggle0 = hctlToggle
                                  \/ /\ devNext0 = Len(data0)
                                     /\ devToggle0 = Flip(hctlToggle)
              /\ pc0 = "status" => data0 = IF datastage0 THEN Answer ELSE << >>

RequestInv == /\ datastage0 \in BOOLEAN
              /\ hctlToggle \in {0, 1} /\ devToggle0 \in {0, 1}
              /\ devNext0 \in Nat
              /\ made0 = Requests!PktsPerTransfer
              /\ Collecting
              /\ WholeAnswers

\* Initially nothing has been asked for.
LEMMA RequestInit == ASSUME Requests!Init PROVE RequestInv
<1>1. /\ pc0 = "idle" /\ hctlToggle = 0 /\ devToggle0 = 0 /\ devNext0 = 1
      /\ made0 = Requests!PktsPerTransfer /\ log0 = << >>
  BY DEF Requests!Init
<1>2. datastage0 = FALSE
  BY DEF Requests!Init
<1>3. WholeAnswers
  BY <1>1, <1>2 DEF WholeAnswers, Requests!WholeAnswer
<1>4. QED BY <1>1, <1>2, <1>3 DEF RequestInv, Collecting

\* A packet stored during a request is the next of its answer, and it is the
\* last one when it ends the transfer.
LEMMA RequestPacket ==
    ASSUME RequestInv, Requests!InPacket,
           Requests!Acknowledged \/ UNCHANGED Requests!device
    PROVE  RequestInv'
<1> DEFINE N == Requests!PktsPerTransfer
           k == Len(data0)
           Last == Requests!TransferEnds(Requests!Size(devNext0), xfrlen0')
<1>1. /\ pc0 = "in" /\ devNext0 <= made0
      /\ devToggle0 = hctlToggle
      /\ hctlToggle' = Flip(hctlToggle)
      /\ data0' = Append(data0, devNext0)
      /\ xfrlen0' = xfrlen0 + Requests!Size(devNext0)
      /\ datastage0' = datastage0
  BY DEF Requests!InPacket, Requests!DeviceSends, Requests!Flip, Flip
<1>2. /\ datastage0 /\ data0 \in Seq(Nat) /\ k < N
      /\ \A i \in 1 .. k : data0[i] = i
      /\ xfrlen0 = MaxPktSize0 * k
  BY <1>1 DEF RequestInv, Collecting
<1>3. devNext0 = k + 1
  BY <1>1 DEF RequestInv, Collecting, Flip
<1>4. /\ data0' \in Seq(Nat) /\ Len(data0') = k + 1
      /\ \A i \in 1 .. k + 1 : data0'[i] = i
  BY <1>1, <1>2, <1>3
<1>5. made0' = N
      /\ \/ devToggle0' = Flip(devToggle0) /\ devNext0' = devNext0 + 1
         \/ devToggle0' = devToggle0 /\ devNext0' = devNext0
  BY DEF RequestInv, Requests!Acknowledged, Requests!device, Requests!Flip, Flip
<1>6. /\ datastage0' \in BOOLEAN /\ hctlToggle' \in {0, 1}
      /\ devToggle0' \in {0, 1} /\ devNext0' \in Nat
  BY <1>1, <1>2, <1>3, <1>5 DEF RequestInv, Flip
<1>7. N \in Nat \ {0} /\ MaxPktSize0 \in Nat /\ k \in Nat
  BY <1>2, AnswerPackets, EndpointsAssumption
<1>8. CASE ~Last
  <2>1. UNCHANGED <<pc0, rcvToggle0, rcode0, log0>>
    BY <1>8 DEF Requests!InPacket
  <2>2. k + 1 # N
    <3>1. SUFFICES ASSUME k + 1 = N PROVE Last
      BY <1>8
    <3>2. k = N - 1
      BY <3>1, <1>7
    <3>3. QED BY <3>1, <3>2, <1>1, <1>2, <1>3, LastPacketEnds
  <2>3. Requests!Size(devNext0) = MaxPktSize0
    BY <1>2, <1>3, <1>7, <2>2, AnswerPackets
  <2>4. xfrlen0' = MaxPktSize0 * (k + 1)
    BY <1>1, <1>2, <1>7, <2>3
  <2>5. QED
    BY <1>1, <1>2, <1>3, <1>4, <1>5, <1>6, <1>7, <2>1, <2>2, <2>4
       DEF RequestInv, Collecting, WholeAnswers, Requests!WholeAnswer, Flip
<1>9. CASE Last
  <2>1. k + 1 = N
    <3>1. SUFFICES ASSUME k + 1 # N PROVE FALSE
      OBVIOUS
    <3>2. devNext0 \in 1 .. N - 1
      BY <3>1, <1>2, <1>3, <1>7
    <3>3. Requests!Size(devNext0) = MaxPktSize0
      BY <3>2, AnswerPackets
    <3>4. xfrlen0' = MaxPktSize0 * devNext0
      BY <1>1, <1>2, <1>3, <1>7, <3>3
    <3>5. QED BY <1>9, <3>2, <3>3, <3>4, AnswerPackets
  <2>2. pc0' = "status" /\ UNCHANGED <<rcode0, log0>>
    BY <1>9 DEF Requests!InPacket
  <2>3. data0' = Answer
    BY <1>4, <2>1 DEF Answer
  <2>4. Collecting'
    BY <1>1, <1>2, <2>2, <2>3 DEF Collecting, Answer
  <2>5. WholeAnswers'
    BY <2>2 DEF WholeAnswers, Requests!WholeAnswer
  <2>6. QED BY <1>5, <1>6, <2>4, <2>5 DEF RequestInv
<1>10. QED BY <1>8, <1>9

\* Every step of a request keeps the invariant.
LEMMA RequestNextInv ==
    ASSUME RequestInv, [Requests!Next]_(Requests!vars)
    PROVE  RequestInv'
<1> USE DEF Collecting, WholeAnswers, Requests!WholeAnswer
<1>1. CASE UNCHANGED Requests!vars
  BY <1>1 DEF Requests!vars, RequestInv
<1>2. CASE Requests!InAcked \/ Requests!InAckLost
  BY <1>2, RequestPacket DEF Requests!InAcked, Requests!InAckLost
<1>3. CASE Requests!DropAcked \/ Requests!DropAckLost
  <2>1. /\ pc0 = "in" /\ pc0' = "idle"
        /\ rcode0' \in {Requests!hrTOGERR, Requests!NoRcvDav}
        /\ UNCHANGED <<datastage0, hctlToggle, xfrlen0, data0, log0>>
    BY <1>3 DEF Requests!DropAcked, Requests!DropAckLost,
                Requests!InToggleError, Requests!DeviceSends, Requests!Fail,
                Requests!Return
  <2>2. /\ made0' = made0
        /\ devToggle0' \in {0, 1} /\ devNext0' \in Nat
    BY <1>3 DEF RequestInv, Requests!DropAcked, Requests!DropAckLost,
                Requests!Acknowledged, Requests!device, Requests!Flip
  <2>3. rcode0' # Requests!hrSUCCESS
    BY <2>1 DEF Requests!hrTOGERR, Requests!NoRcvDav, Requests!hrSUCCESS
  <2>4. QED BY <2>1, <2>2, <2>3 DEF RequestInv
<1>4. CASE Requests!InFails \/ Requests!StatusFails \/ Requests!SetupFails
  <2>1. /\ pc0' = "idle" /\ rcode0' \in Requests!Failures
        /\ UNCHANGED <<datastage0, hctlToggle, xfrlen0, data0, log0>>
    BY <1>4 DEF Requests!InFails, Requests!StatusFails, Requests!SetupFails,
                Requests!Fail, Requests!Return
  <2>2. /\ made0' = made0
        /\ devToggle0' \in {0, 1} /\ devNext0' \in Nat
    BY <1>4 DEF RequestInv, Requests!InFails, Requests!StatusFails,
                Requests!SetupFails, Requests!DeviceSetup, Requests!device
  <2>3. rcode0' # Requests!hrSUCCESS
    BY <2>1 DEF Requests!Failures, Requests!hrNAK, Requests!hrTIMEOUT,
                Requests!XferTimedOut, Requests!hrSUCCESS
  <2>4. QED BY <2>1, <2>2, <2>3 DEF RequestInv
<1>5. CASE Requests!CtrlReq
  BY <1>5 DEF RequestInv, Requests!CtrlReq, Requests!device
<1>6. CASE Requests!SetupData
  <2>1. /\ pc0' = "in" /\ hctlToggle' = 1 /\ xfrlen0' = 0 /\ data0' = << >>
        /\ datastage0 /\ UNCHANGED <<datastage0, rcode0, log0, made0>>
        /\ devToggle0' = 1 /\ devNext0' = 1
    BY <1>6 DEF Requests!SetupData, Requests!DeviceSetup, Requests!StartIn,
                Requests!SetToggle
  <2>2. 0 = MaxPktSize0 * 0
    BY EndpointsAssumption
  <2>3. QED BY <2>1, <2>2, AnswerPackets DEF RequestInv
<1>7. CASE Requests!SetupNoData
  BY <1>7 DEF RequestInv, Requests!SetupNoData, Requests!DeviceSetup
<1>8. CASE Requests!StatusDone
  BY <1>8 DEF RequestInv, Requests!StatusDone, Requests!Return,
              Requests!device, Answer
<1>9. CASE Requests!OtherTransfer
  BY <1>9 DEF RequestInv, Requests!OtherTransfer, Requests!device
<1>10. CASE Requests!Poll \/ Requests!Make
  BY <1>10 DEF Requests!Poll, Requests!Make
<1>11. QED
  BY <1>1, <1>2, <1>3, <1>4, <1>5, <1>6, <1>7, <1>8, <1>9, <1>10
     DEF Requests!Next, Requests!InStep

-----------------------------------------------------------------------------
(* The two endpoints together.                                             *)

\* The one toggle bit of the controller and the copies saved of it; calls for
\* the two endpoints do not overlap.
Bits == /\ {hctlToggle, rcvToggle, rcvToggle0} \subseteq {0, 1}
        /\ pc = "idle" \/ pc0 = "idle"

LEMMA BitsInvariant == EndpointsSpec => []Bits
<1>1. EndpointsInit => Bits
  BY DEF EndpointsInit, Init, Requests!Init, Bits
<1>2. ASSUME Bits, [EndpointsNext]_endpoints PROVE Bits'
  <2>1. CASE Request
    BY <1>2, <2>1
       DEF Bits, Request, endpoint1, Requests!CtrlReq, Requests!SetupData,
           Requests!SetupNoData, Requests!SetupFails, Requests!StartIn,
           Requests!SetToggle, Requests!InStep, Requests!InAcked,
           Requests!InAckLost, Requests!InPacket, Requests!SaveToggle,
           Requests!Return, Requests!DropAcked, Requests!DropAckLost,
           Requests!InToggleError, Requests!InFails, Requests!Fail,
           Requests!StatusDone, Requests!StatusFails, Requests!Flip
  <2>2. CASE PollTurn
    BY <1>2, <2>2 DEF Bits, PollTurn, Poll, StartIn, SetToggle, endpoint0
  <2>3. CASE PollStep
    <3>1. pc = "in"
      BY <2>3 DEF PollStep, InStep, InAcked, InAckLost, InPacket, DropAcked,
                  DropAckLost, InToggleError, DeviceSends, InFails
    <3>2. pc0 = "idle" /\ pc0' = "idle" /\ rcvToggle0' = rcvToggle0
      BY <1>2, <2>3, <3>1 DEF Bits, PollStep, endpoint0
    <3>3. hctlToggle' \in {hctlToggle, Flip(hctlToggle)}
          /\ rcvToggle' \in {rcvToggle, hctlToggle'}
      BY <2>3 DEF PollStep, InStep, InAcked, InAckLost, InPacket, SaveToggle,
                  DropAcked, DropAckLost, InToggleError, InFails, Fail
    <3>4. QED BY <1>2, <3>2, <3>3 DEF Bits, Flip
  <2>4. CASE Report
    BY <1>2, <2>4 DEF Bits, Report, Make, host, endpoint0
  <2>5. CASE UNCHANGED endpoints
    BY <1>2, <2>5 DEF Bits, endpoints, endpoint0, endpoint1
  <2>6. QED BY <1>2, <2>1, <2>2, <2>3, <2>4, <2>5 DEF EndpointsNext
<1>3. QED BY <1>1, <1>2, PTL DEF EndpointsSpec

\* To the polled endpoint the requests in between are transfers of another
\* endpoint: the composition implements UsbPipe.
LEMMA PollsAreAPipe == EndpointsSpec => Spec
<1>1. ASSUME Bits', [EndpointsNext]_endpoints PROVE [Next]_vars
  <2>1. hctlToggle' \in {0, 1}
    BY <1>1 DEF Bits
  <2>2. CASE Request
    BY <2>1, <2>2 DEF Request, endpoint1, Next, OtherTransfer, device, vars
  <2>3. CASE PollTurn \/ PollStep \/ Report
    BY <2>3 DEF PollTurn, PollStep, Report, Next
  <2>4. CASE UNCHANGED endpoints
    BY <2>4 DEF endpoints, endpoint1, vars
  <2>5. QED BY <1>1, <2>2, <2>3, <2>4 DEF EndpointsNext
<1>2. EndpointsInit => Init
  BY DEF EndpointsInit
<1>3. QED BY <1>1, <1>2, BitsInvariant, PTL DEF EndpointsSpec, Spec

\* To endpoint 0 the polls in between are.
LEMMA RequestsAreAPipe == EndpointsSpec => Requests!Spec
<1>1. ASSUME Bits, Bits', [EndpointsNext]_endpoints
      PROVE  [Requests!Next]_(Requests!vars)
  <2>1. hctlToggle' \in {0, 1}
    BY <1>1 DEF Bits
  <2>2. CASE Request
    BY <2>2 DEF Request, Requests!Next
  <2>3. CASE PollTurn \/ PollStep
    <3>1. pc0 = "idle"
      BY <1>1, <2>3 DEF Bits, PollTurn, PollStep, InStep, InAcked, InAckLost,
                        InPacket, DropAcked, DropAckLost, InToggleError,
                        DeviceSends, InFails
    <3>2. QED
      BY <2>1, <2>3, <3>1 DEF PollTurn, PollStep, endpoint0, Requests!Next,
                              Requests!OtherTransfer, Requests!device
  <2>4. CASE Report \/ UNCHANGED endpoints
    BY <2>4 DEF Report, Make, host, endpoints, endpoint0, Requests!vars
  <2>5. QED BY <1>1, <2>2, <2>3, <2>4 DEF EndpointsNext
<1>2. EndpointsInit => Requests!Init
  BY DEF EndpointsInit
<1>3. QED BY <1>1, <1>2, BitsInvariant, PTL DEF EndpointsSpec, Requests!Spec

\* Between two polls, whatever control requests were made and failed there and
\* whatever toggle they left in HCTL, the saved toggle tells a repeated report
\* from a new one.
THEOREM TogglesBesideRequests ==
    ASSUME SinglePacket PROVE EndpointsSpec => []TogglesTellRepeats
  BY PollsAreAPipe, TogglesInStep, PTL

\* The poll's variables keep their types: the toggles stay one bit, also the
\* one that the requests share, and no call overruns the bytes asked for.
THEOREM PollTypes == ASSUME SinglePacket PROVE EndpointsSpec => []TypeOK
<1>1. IInv => TypeOK
  BY DEF IInv
<1>2. QED BY <1>1, Invariance, PollsAreAPipe, PTL

\* Polling beside control requests implements ReportStream.
THEOREM StreamBesideRequests ==
    ASSUME SinglePacket PROVE EndpointsSpec => StreamSpec
  BY PollsAreAPipe, StreamRefined, PTL

\* A control request that returns 0 hands over its whole answer, in order, for
\* every size of answer, request and packet, and with polls in between.
THEOREM AnswersAreWhole == EndpointsSpec => []WholeAnswers
<1>1. EndpointsInit => RequestInv
  BY RequestInit DEF EndpointsInit
<1>2. RequestInv /\ [Requests!Next]_(Requests!vars) => RequestInv'
  BY RequestNextInv
<1>3. RequestInv => WholeAnswers
  BY DEF RequestInv
<1>4. QED
  BY <1>1, <1>2, <1>3, RequestsAreAPipe, PTL DEF EndpointsSpec, Requests!Spec
=============================================================================
