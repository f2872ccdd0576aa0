---------------------------- MODULE UsbDispatch -----------------------------
(***************************************************************************)
(* XferDispatchPkt of usb_kb/transfer.c: launch one packet on the MAX3421E *)
(* host controller, poll for its completion until a deadline computed once *)
(* per call, and send it again on NAK and on bus timeout, each up to a     *)
(* limit.  The controller completes a packet whenever it likes, or never;  *)
(* its "transfer done" interrupt flag stays set until the driver clears it.*)
(***************************************************************************)
EXTENDS UsbClock

CONSTANTS NAK_LIMIT,      \* USB_NAK_LIMIT
          RETRY_LIMIT,    \* USB_RETRY_LIMIT
          XFER_TIMEOUT,   \* USB_XFER_TIMEOUT, in milliseconds
          Results,        \* the HRSL codes a finished packet can leave
          ClockWraps      \* FALSE: no call spans a wrap of the ms clock

hrSUCCESS == 0
hrBUSY    == 1
hrNAK     == 4
hrTIMEOUT == 14
XferTimedOut == 255       \* 0xff

ASSUME DispatchAssumption ==
    /\ NAK_LIMIT \in Nat \ {0}
    /\ RETRY_LIMIT \in Nat \ {0}
    /\ XFER_TIMEOUT \in Nat
    /\ Results \subseteq 0 .. 15
    /\ {hrSUCCESS, hrNAK, hrTIMEOUT} \subseteq Results
    /\ hrBUSY \notin Results
    /\ ClockWraps \in BOOLEAN

VARIABLES
    \* the driver, inside one call of XferDispatchPkt
    pc,           \* "idle" between calls, else the statement about to run
    timeout,      \* the deadline, in milliseconds
    nak_count, retry_count,
    rcode,        \* what the last call returned
    \* the controller
    flight,       \* the packet being transferred
    hxfrdn,       \* bmHXFRDNIRQ of register HIRQ
    hrsl,         \* result code bits of register HRSL: code, and whose it is
    nticks,       \* alt_nticks()
    \* history
    sent,         \* launches of the current or last call
    answered,     \* whose result the last call returned
    late          \* some call has given up at its deadline

driver == <<timeout, nak_count, retry_count, rcode, sent, answered, late>>
chip   == <<flight, hxfrdn, hrsl>>
vars   == <<pc, timeout, nak_count, retry_count, rcode, flight, hxfrdn, hrsl,
            nticks, sent, answered, late>>

\* A packet is the one launched last ("own") or an earlier one ("old").
Packets == {"own", "old"}
Owner   == Packets \cup {"none"}
Aged(p) == IF p = "own" THEN "old" ELSE p

Now == MsAt(nticks)

Init == /\ pc = "idle"
        /\ timeout = 0 /\ nak_count = 0 /\ retry_count = 0
        /\ rcode = hrSUCCESS
        /\ flight = "none" /\ hxfrdn = FALSE
        /\ hrsl = [code |-> hrSUCCESS, of |-> "old"]
        /\ nticks \in Dword
        /\ sent = 0 /\ answered = "own" /\ late = FALSE

-----------------------------------------------------------------------------
(* The driver.  An operator marked "mutant" is a plausible bug in the       *)
(* definition that follows it, kept to show that a property can fail.      *)

\* mutant: the NAK counter of the previous call is kept
ResetRetriesOnly == nak_count' = nak_count /\ retry_count' = 0

ResetCounts == nak_count' = 0 /\ retry_count' = 0

\* mutant: one NAK too many
NakLimitPassed(n) == n > NAK_LIMIT

NakLimitReached(n) == n = NAK_LIMIT

\* mutant: one bus timeout too few
RetryLimitNear(n) == n >= RETRY_LIMIT - 1

RetryLimitReached(n) == n = RETRY_LIMIT

\* mutant: the deadline is tested for equality
NotAtDeadline == Now # timeout

BeforeDeadline == Now < timeout

\* mutant: the completion flag is not cleared
KeepDone == hxfrdn' = hxfrdn

ClearDone == hxfrdn' = FALSE

Call == /\ pc = "idle"
        /\ ClockWraps \/ Now + XFER_TIMEOUT < LastMs
        /\ pc' = "launch"
        /\ timeout' = DeadlineFrom(nticks, XFER_TIMEOUT)
        /\ ResetCounts
        /\ sent' = 0
        /\ UNCHANGED <<rcode, answered, late, chip, nticks>>

\* Write HXFR.  Nothing clears a flag left over from an earlier packet.  What
\* a controller that is still busy does with the write is not visible here:
\* it may drop the old packet or ignore the new one.
Launch == /\ pc = "launch"
          /\ pc' = "poll"
          /\ flight' \in IF flight = "none" THEN {"own"} ELSE Packets
          /\ hrsl' = [hrsl EXCEPT !.of = Aged(@)]
          /\ sent' = sent + 1
          /\ UNCHANGED <<hxfrdn, timeout, nak_count, retry_count, rcode,
                         answered, late, nticks>>

SeeDone == /\ pc = "poll"
           /\ BeforeDeadline
           /\ hxfrdn
           /\ ClearDone
           /\ pc' = "result"
           /\ UNCHANGED <<driver, flight, hrsl, nticks>>

Return(code, of) == /\ pc' = "idle"
                    /\ rcode' = code
                    /\ answered' = of

GiveUp == /\ pc = "poll"
          /\ ~ BeforeDeadline
          /\ Return(XferTimedOut, "none")
          /\ late' = TRUE
          /\ UNCHANGED <<timeout, nak_count, retry_count, sent, chip, nticks>>

\* HRSL reads hrBUSY while a packet is in flight.
ResultCode  == IF flight = "none" THEN hrsl.code ELSE hrBUSY
ResultOwner == IF flight = "none" THEN hrsl.of ELSE "none"

ReadNak == /\ pc = "result"
           /\ ResultCode = hrNAK
           /\ nak_count' = nak_count + 1
           /\ IF NakLimitReached(nak_count')
              THEN Return(hrNAK, ResultOwner)
              ELSE /\ pc' = "launch"
                   /\ UNCHANGED <<rcode, answered>>
           /\ UNCHANGED <<timeout, retry_count, sent, late, chip, nticks>>

ReadBusTimeout == /\ pc = "result"
                  /\ ResultCode = hrTIMEOUT
                  /\ retry_count' = retry_count + 1
                  /\ IF RetryLimitReached(retry_count')
                     THEN Return(hrTIMEOUT, ResultOwner)
                     ELSE /\ pc' = "launch"
                          /\ UNCHANGED <<rcode, answered>>
                  /\ UNCHANGED <<timeout, nak_count, sent, late, chip, nticks>>

ReadFinal == /\ pc = "result"
             /\ ResultCode \notin {hrNAK, hrTIMEOUT}
             /\ Return(ResultCode, ResultOwner)
             /\ UNCHANGED <<timeout, nak_count, retry_count, sent, late, chip,
                            nticks>>

Host == Launch \/ SeeDone \/ GiveUp \/ ReadNak \/ ReadBusTimeout \/ ReadFinal

-----------------------------------------------------------------------------
(* The controller and the system timer.                                    *)

Complete == /\ flight # "none"
            /\ flight' = "none"
            /\ hxfrdn' = TRUE
            /\ \E c \in Results : hrsl' = [code |-> c, of |-> flight]
            /\ UNCHANGED <<pc, driver, nticks>>

Tick == /\ nticks' = NextTick(nticks)
        /\ ClockWraps \/ pc = "idle" \/ MsAt(nticks') >= Now
        /\ UNCHANGED <<pc, driver, chip>>

Next == Call \/ Host \/ Complete \/ Tick

Spec == Init /\ [][Next]_vars

\* The driver is the only task of its processor and the timer never stops;
\* nothing obliges the controller to complete, or an application to call.
\* The poll loop reads the clock many times a millisecond, so it does not
\* miss a deadline that the clock shows again and again.
Fairness == WF_vars(Host) /\ WF_vars(Tick) /\ SF_vars(GiveUp)

FairSpec == Spec /\ Fairness
-----------------------------------------------------------------------------
TypeOK == /\ pc \in {"idle", "launch", "poll", "result"}
          /\ timeout \in Dword
          /\ nak_count \in 0 .. NAK_LIMIT
          /\ retry_count \in 0 .. RETRY_LIMIT
          /\ rcode \in 0 .. 15 \cup {XferTimedOut}
          /\ flight \in Owner
          /\ hxfrdn \in BOOLEAN
          /\ hrsl \in [code : Results, of : Packets]
          /\ nticks \in Dword
          /\ sent \in 0 .. NAK_LIMIT + RETRY_LIMIT - 1
          /\ answered \in Owner
          /\ late \in BOOLEAN

-----------------------------------------------------------------------------
(* Properties.                                                             *)

\* The re-sends of a call are bounded by the two limits together: every
\* launch but the last was answered by a counted NAK or a counted timeout.
LaunchesBounded ==
    /\ pc = "launch" => sent = nak_count + retry_count
    /\ pc \in {"poll", "result"} => sent = nak_count + retry_count + 1
    /\ pc # "idle" => nak_count < NAK_LIMIT /\ retry_count < RETRY_LIMIT

\* As long as no call has given up at its deadline, the code a call returns
\* is the result of the packet it launched last, and it leaves the controller
\* idle with no completion flag for the next call to mistake for its own.
\* After such a call neither holds: nothing clears the flag of its packet.
SoundUntilTimeout ==
    ~ late /\ pc = "idle" => /\ answered = "own"
                             /\ flight = "none"
                             /\ ~ hxfrdn

\* A call always returns, whatever the controller does or fails to do.
CallsReturn == pc # "idle" ~> pc = "idle"

\* XferDispatchPkt implements the bounded retry its callers rely on.
Retry == INSTANCE BoundedRetry
         WITH NakLimit <- NAK_LIMIT, RetryLimit <- RETRY_LIMIT,
              Answers <- 0 .. 15 \cup {XferTimedOut},
              NakAnswer <- hrNAK, BusTimeoutAnswer <- hrTIMEOUT,
              busy <- pc # "idle", tried <- sent, answer <- rcode

RetrySpec == Retry!Spec
=============================================================================
