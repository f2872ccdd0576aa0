---------------------------- MODULE UsbEndpoints ----------------------------
(***************************************************************************)
(* Two endpoints of a device behind one MAX3421E: the interrupt endpoint   *)
(* that mousePoll or kbdPoll polls (the variables of UsbPipe) and endpoint *)
(* 0 with its control requests (Requests).  The program is one thread, so  *)
(* calls do not overlap, but each leaves the toggle of its last packet in  *)
(* the one register HCTL of the controller that the other finds there.     *)
(***************************************************************************)
EXTENDS UsbPipe

CONSTANTS AnswerAsked,   \* bytes a control request asks for
          MaxPktSize0,   \* of endpoint 0
          AnswerSize     \* bytes the device answers

ASSUME EndpointsAssumption ==
    /\ Kind = "interrupt"
    /\ {AnswerAsked, MaxPktSize0, AnswerSize} \subseteq Nat \ {0}
    /\ AnswerSize <= AnswerAsked

VARIABLES pc0, datastage0, rcvToggle0, xfrlen0, data0, rcode0, log0,
          devToggle0, devNext0, made0

Requests == INSTANCE UsbPipe WITH
    Kind <- "control", nbytes <- AnswerAsked, MaxPktSize <- MaxPktSize0,
    TransferSize <- AnswerSize, MaxPackets <- 0,
    pc <- pc0, datastage <- datastage0, rcvToggle <- rcvToggle0,
    xfrlen <- xfrlen0, data <- data0, rcode <- rcode0, log <- log0,
    devToggle <- devToggle0, devNext <- devNext0, made <- made0

endpoint0 == <<pc0, datastage0, rcvToggle0, xfrlen0, data0, rcode0, log0,
               devToggle0, devNext0, made0>>
endpoint1 == <<pc, datastage, rcvToggle, xfrlen, data, rcode, log,
               devToggle, devNext, made>>
endpoints == <<hctlToggle, endpoint0, endpoint1>>

EndpointsInit == Init /\ Requests!Init

Request == /\ pc = "idle"
           /\ \/ Requests!CtrlReq
              \/ Requests!SetupData \/ Requests!SetupNoData \/ Requests!SetupFails
              \/ Requests!InStep
              \/ Requests!StatusDone \/ Requests!StatusFails
           /\ UNCHANGED endpoint1

PollTurn == pc0 = "idle" /\ Poll /\ UNCHANGED endpoint0
PollStep == InStep /\ UNCHANGED endpoint0
Report == Make /\ UNCHANGED endpoint0

EndpointsNext == Request \/ PollTurn \/ PollStep \/ Report

EndpointsSpec == EndpointsInit /\ [][EndpointsNext]_endpoints

\* A request returns, the main loop comes back to its poll whatever requests
\* it makes, and a bus that keeps being tried lets a packet and its
\* acknowledgement through now and then.
EndpointsFairSpec ==
    /\ EndpointsSpec
    /\ WF_endpoints(pc0 # "idle" /\ Request)
    /\ SF_endpoints(PollTurn)
    /\ WF_endpoints(PollStep)
    /\ SF_endpoints(InAcked /\ UNCHANGED endpoint0)
    /\ SF_endpoints(DropAcked /\ UNCHANGED endpoint0)
-----------------------------------------------------------------------------
(* Properties, beside those of UsbPipe for the interrupt endpoint.         *)

\* What a control request hands over with code 0 is the whole answer, in
\* order, whatever was lost or repeated on the bus and whatever the polls
\* between the requests left in HCTL.
WholeAnswers == Requests!WholeAnswer
=============================================================================
