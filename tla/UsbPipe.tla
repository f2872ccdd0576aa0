------------------------------ MODULE UsbPipe -------------------------------
(***************************************************************************)
(* Transfers of usb_kb/transfer.c and the polls of HID.c over one pipe:    *)
(* XferInTransfer collects the packets of an IN transfer under data        *)
(* toggles, XferCtrlReq runs it between a SETUP and a status stage, and    *)
(* mousePoll/kbdPoll run it alone, once per turn of the main loop.  One    *)
(* call of XferDispatchPkt is one step here, with every outcome it can     *)
(* have on a bus that loses packets and acknowledgements.                  *)
(*                                                                         *)
(* The device numbers the packets it has to send 1, 2, ...; each transfer  *)
(* (a report, or the answer to a control request) is PktsPerTransfer       *)
(* consecutive packets.                                                    *)
(***************************************************************************)
EXTENDS Integers, Sequences

CONSTANTS Kind,          \* "interrupt" (HID.c) or "control" (XferCtrlReq)
          nbytes,        \* bytes the host asks for
          MaxPktSize,    \* of the endpoint, as in its descriptor
          TransferSize,  \* bytes the device has to send
          MaxPackets     \* bound on the packets a device makes

ASSUME PipeAssumption ==
    /\ Kind \in {"interrupt", "control"}
    /\ nbytes \in Nat \ {0}
    /\ MaxPktSize \in Nat \ {0}
    /\ TransferSize \in 1 .. nbytes
    /\ MaxPackets \in Nat

VARIABLES
    pc,         \* "idle", or the packet to dispatch: "setup", "in", "status"
    datastage,  \* the request being made has a data stage
    rcvToggle,  \* devtable[addr].epinfo[ep].rcvToggle
    hctlToggle, \* the toggle the controller expects next
    xfrlen,     \* bytes received by this call
    data,       \* packets stored by this call
    rcode,      \* what the last call returned
    log,        \* packets handed over by calls that returned 0
    devToggle,  \* the device's toggle for its next packet
    devNext,    \* the packet the device sends next
    made        \* packets the device has made so far

host == <<pc, datastage, rcvToggle, hctlToggle, xfrlen, data, rcode, log>>
device == <<devToggle, devNext, made>>
vars == <<pc, datastage, rcvToggle, hctlToggle, xfrlen, data, rcode, log,
          devToggle, devNext, made>>

hrSUCCESS == 0
hrNAK     == 4
hrTOGERR  == 6
hrTIMEOUT == 14
NoRcvDav  == 240     \* 0xf0
XferTimedOut == 255  \* 0xff
Failures  == {hrNAK, hrTIMEOUT, XferTimedOut}

Flip(t) == 1 - t

\* A device ends a control answer shorter than asked for with a short packet,
\* empty if need be; a report has no such end.
PktsPerTransfer ==
    IF Kind = "control" /\ TransferSize < nbytes
    THEN TransferSize \div MaxPktSize + 1
    ELSE (TransferSize + MaxPktSize - 1) \div MaxPktSize

\* Place of packet p in its transfer, from 0, and its size in bytes.
Place(p) == (p - 1) % PktsPerTransfer
Size(p) == IF Place(p) = PktsPerTransfer - 1
           THEN TransferSize - MaxPktSize * Place(p)
           ELSE MaxPktSize

Init == /\ pc = "idle"
        /\ datastage = FALSE
        /\ rcvToggle = 0 /\ hctlToggle = 0
        /\ xfrlen = 0 /\ data = << >>
        /\ rcode = hrSUCCESS /\ log = << >>
        /\ devToggle = 0 /\ devNext = 1
        /\ made = IF Kind = "control" THEN PktsPerTransfer ELSE 0

-----------------------------------------------------------------------------
(* The host.  An operator marked "mutant" is a plausible bug in the        *)
(* definition that follows it, kept to show that a property can fail.      *)

\* mutant: the endpoint finds the toggle another endpoint left
LeaveToggle(t) == hctlToggle' = hctlToggle

SetToggle(t) == hctlToggle' = t

StartIn(t) == /\ pc' = "in"
              /\ SetToggle(t)
              /\ xfrlen' = 0
              /\ data' = << >>

Return(code) == /\ pc' = "idle"
                /\ rcode' = code

Poll == /\ Kind = "interrupt"
        /\ pc = "idle"
        /\ StartIn(rcvToggle)
        /\ UNCHANGED <<datastage, rcvToggle, rcode, log, device>>

\* dataptr = NULL selects the transfer without a data stage.
CtrlReq == /\ Kind = "control"
           /\ pc = "idle"
           /\ pc' = "setup"
           /\ datastage' \in BOOLEAN
           /\ UNCHANGED <<rcvToggle, hctlToggle, xfrlen, data, rcode, log,
                          device>>

\* A SETUP the device receives makes it answer from the start, with DATA1.
DeviceSetup == /\ devToggle' = 1
               /\ devNext' = 1
               /\ UNCHANGED made

SetupData == /\ pc = "setup" /\ datastage
             /\ DeviceSetup
             /\ rcvToggle' = 1
             /\ StartIn(1)
             /\ UNCHANGED <<datastage, rcode, log>>

SetupNoData == /\ pc = "setup" /\ ~datastage
               /\ DeviceSetup
               /\ pc' = "status"
               /\ xfrlen' = 0 /\ data' = << >>
               /\ UNCHANGED <<datastage, rcvToggle, hctlToggle, rcode, log>>

SetupFails == /\ pc = "setup"
              /\ \E c \in Failures : Return(c)
              /\ DeviceSetup \/ UNCHANGED device
              /\ UNCHANGED <<datastage, rcvToggle, hctlToggle, xfrlen, data, log>>

\* mutant: only a short packet ends a transfer
ShortPacket(size, total) == size < MaxPktSize

\* mutant: a transfer that has all its bytes asks for one more packet
PastTheCount(size, total) == size < MaxPktSize \/ total > nbytes

\* mutant: a full packet passes for a short one
FullPacketToo(size, total) == size <= MaxPktSize \/ total >= nbytes

TransferEnds(size, total) == size < MaxPktSize \/ total >= nbytes

\* The device learns that its packet arrived, or the acknowledgement is lost.
Acknowledged == /\ devToggle' = Flip(devToggle)
                /\ devNext' = devNext + 1
                /\ UNCHANGED made

DeviceSends == pc = "in" /\ devNext <= made

SaveToggle == rcvToggle' = hctlToggle'

\* A packet with the expected toggle is stored; the last one ends the
\* transfer and saves the toggle the controller expects next.
InPacket == /\ DeviceSends
            /\ devToggle = hctlToggle
            /\ hctlToggle' = Flip(hctlToggle)
            /\ data' = Append(data, devNext)
            /\ xfrlen' = xfrlen + Size(devNext)
            /\ IF TransferEnds(Size(devNext), xfrlen')
               THEN /\ SaveToggle
                    /\ IF Kind = "control"
                       THEN pc' = "status" /\ UNCHANGED <<rcode, log>>
                       ELSE Return(hrSUCCESS) /\ log' = log \o data'
               ELSE UNCHANGED <<pc, rcvToggle, rcode, log>>
            /\ UNCHANGED datastage

InAcked == InPacket /\ Acknowledged
InAckLost == InPacket /\ UNCHANGED device

\* mutant: a packet with the wrong toggle saves the controller's toggle
FailSaving(code) == Return(code) /\ rcvToggle' = Flip(hctlToggle)

\* An error leaves the toggle saved by the last transfer that completed.
Fail(code) == Return(code) /\ UNCHANGED rcvToggle

\* A packet with the other toggle is dropped by the controller, which leaves
\* no received data.
InToggleError == /\ DeviceSends
                 /\ devToggle # hctlToggle
                 /\ \E c \in {hrTOGERR, NoRcvDav} : Fail(c)
                 /\ UNCHANGED <<datastage, hctlToggle, xfrlen, data, log>>

DropAcked == InToggleError /\ Acknowledged
DropAckLost == InToggleError /\ UNCHANGED device

InFails == /\ pc = "in"
           /\ \E c \in Failures : Fail(c)
           /\ UNCHANGED <<datastage, hctlToggle, xfrlen, data, log, device>>

InStep == InAcked \/ InAckLost \/ DropAcked \/ DropAckLost \/ InFails

StatusDone == /\ pc = "status"
              /\ Return(hrSUCCESS)
              /\ log' = data
              /\ UNCHANGED <<datastage, rcvToggle, hctlToggle, xfrlen, data, device>>

StatusFails == /\ pc = "status"
               /\ \E c \in Failures : Return(c)
               /\ UNCHANGED <<datastage, rcvToggle, hctlToggle, xfrlen, data,
                              log, device>>

-----------------------------------------------------------------------------
(* The device makes another report; other endpoints use the controller.    *)

Make == /\ Kind = "interrupt"
        /\ made + PktsPerTransfer <= MaxPackets
        /\ made' = made + PktsPerTransfer
        /\ UNCHANGED <<host, devToggle, devNext>>

\* Between two calls the program may use other endpoints, whose transfers set
\* and flip the one toggle bit the controller has for IN packets.
OtherTransfer == /\ pc = "idle"
                 /\ hctlToggle' \in {0, 1}
                 /\ UNCHANGED <<pc, datastage, rcvToggle, xfrlen, data, rcode,
                                log, device>>

Next == \/ Poll \/ CtrlReq \/ SetupData \/ SetupNoData \/ SetupFails
        \/ InStep
        \/ StatusDone \/ StatusFails
        \/ Make \/ OtherTransfer

Spec == Init /\ [][Next]_vars
-----------------------------------------------------------------------------
(* Properties.                                                             *)

\* The types of the variables: toggles are 0 or 1, codes are those of
\* XferInTransfer and XferDispatchPkt, and from a device that sends no more
\* than asked a call never stores more, which is what its buffer holds.
TypeOK == /\ pc \in {"idle", "setup", "in", "status"}
          /\ datastage \in BOOLEAN
          /\ {rcvToggle, hctlToggle, devToggle} \subseteq {0, 1}
          /\ xfrlen \in 0 .. nbytes
          /\ data \in Seq(Nat)
          /\ rcode \in Failures \cup {hrSUCCESS, hrTOGERR, NoRcvDav}
          /\ log \in Seq(Nat)
          /\ devNext \in Nat
          /\ made \in Nat

\* What a control request hands over with code 0 is the whole answer, in
\* order, whatever was lost or repeated on the bus.
WholeAnswer == Kind = "control" /\ pc = "idle" /\ rcode = hrSUCCESS
                  => log = IF datastage THEN [i \in 1 .. PktsPerTransfer |-> i]
                           ELSE << >>

\* Between polls the saved toggle differs from the device's exactly when the
\* device is still sending a packet the host already has, so that the next
\* poll drops repeats (its acknowledgement was lost) and nothing else.
TogglesTellRepeats ==
    pc = "idle" => (rcvToggle # devToggle <=> devNext \in {log[i] : i \in DOMAIN log})

\* The polls of an endpoint whose reports fit one packet deliver every report
\* of the device once and in order.
Stream == INSTANCE ReportStream WITH received <- log

StreamSpec == Stream!Spec

\* A report the device made is delivered in the end by the polls of the main
\* loop, however often packets and acknowledgements are lost.
ReportsArrive == \A p \in 1 .. MaxPackets : made >= p ~> Len(log) >= p
=============================================================================
