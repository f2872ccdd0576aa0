------------------------- MODULE UsbDispatch_proofs -------------------------
(***************************************************************************)
(* Proofs about XferDispatchPkt for every NAK limit, retry limit, timeout, *)
(* set of result codes and word size.                                      *)
(***************************************************************************)
EXTENDS UsbDispatch, TLAPS

USE DispatchAssumption, ClockAssumption
USE DEF hrSUCCESS, hrBUSY, hrNAK, hrTIMEOUT, XferTimedOut
USE DEF ResetCounts, ClearDone, NakLimitReached, RetryLimitReached

(***************************************************************************)
(* A deadline and a tick count stay inside a DWORD.                        *)
(***************************************************************************)
LEMMA DwordMod ==
    ASSUME NEW n \in Nat
    PROVE  n % Word \in Dword
BY DEF Dword

LEMMA MsNat ==
    ASSUME NEW n \in Dword
    PROVE  MsAt(n) \in Nat
<1>1. n * TicksPerSec \in Nat
    BY DEF Dword
<1>2. (n * TicksPerSec) % Word \in Nat
    BY <1>1, DwordMod DEF Dword
<1> QED
    BY <1>2 DEF MsAt

LEMMA DeadlineDword ==
    ASSUME NEW n \in Dword
    PROVE  DeadlineFrom(n, XFER_TIMEOUT) \in Dword
<1>1. MsAt(n) + XFER_TIMEOUT \in Nat
    BY MsNat
<1> QED
    BY <1>1, DwordMod DEF DeadlineFrom

LEMMA TickDword ==
    ASSUME NEW n \in Dword
    PROVE  NextTick(n) \in Dword
<1>1. n + 1 \in Nat
    BY DEF Dword
<1> QED
    BY <1>1, DwordMod DEF NextTick

(***************************************************************************)
(* The inductive invariant: the launches of a call are accounted for by    *)
(* its two counters.                                                       *)
(***************************************************************************)
IInv == TypeOK /\ LaunchesBounded

LEMMA InitIInv == Init => IInv
<1> SUFFICES ASSUME Init PROVE IInv
    OBVIOUS
<1>1. 0 \in Dword
    BY DEF Dword
<1>2. 0 \in 0 .. NAK_LIMIT + RETRY_LIMIT - 1
    OBVIOUS
<1>3. hrsl \in [code : Results, of : Packets]
    BY DEF Init, Packets
<1>4. TypeOK
    <2>1. nak_count \in 0 .. NAK_LIMIT /\ retry_count \in 0 .. RETRY_LIMIT
        BY DEF Init
    <2>2. timeout \in Dword /\ sent \in 0 .. NAK_LIMIT + RETRY_LIMIT - 1
        BY <1>1, <1>2 DEF Init
    <2>3. pc \in {"idle", "launch", "poll", "result"} /\ rcode \in 0 .. 15
        BY DEF Init
    <2>4. /\ flight \in Owner /\ answered \in Owner
          /\ hxfrdn \in BOOLEAN /\ late \in BOOLEAN /\ nticks \in Dword
        BY DEF Init, Owner, Packets
    <2> QED
        BY <1>3, <2>1, <2>2, <2>3, <2>4 DEF TypeOK
<1> QED
    BY <1>4 DEF Init, IInv, LaunchesBounded

LEMMA NextIInv == IInv /\ [Next]_vars => IInv'
<1> SUFFICES ASSUME IInv, [Next]_vars PROVE IInv'
    OBVIOUS
<1> USE DEF IInv, TypeOK, LaunchesBounded, Owner, Packets
<1>1. CASE Call
    <2>1. timeout' \in Dword
        BY <1>1, DeadlineDword DEF Call
    <2> QED
        BY <1>1, <2>1 DEF Call, chip
<1>2. CASE Launch
    <2>1. sent' = nak_count' + retry_count' + 1
        BY <1>2 DEF Launch
    <2>2. hrsl' \in [code : Results, of : Packets]
        BY <1>2 DEF Launch, Aged
    <2>3. flight' \in Owner
        BY <1>2 DEF Launch
    <2> QED
        BY <1>2, <2>1, <2>2, <2>3 DEF Launch
<1>3. CASE SeeDone
    BY <1>3 DEF SeeDone, driver
<1>4. CASE GiveUp
    BY <1>4 DEF GiveUp, Return, chip
<1>5. CASE ReadNak
    <2>1. ResultOwner \in Owner
        BY DEF ResultOwner
    <2> QED
        BY <1>5, <2>1 DEF ReadNak, Return, chip
<1>6. CASE ReadBusTimeout
    <2>1. ResultOwner \in Owner
        BY DEF ResultOwner
    <2> QED
        BY <1>6, <2>1 DEF ReadBusTimeout, Return, chip
<1>7. CASE ReadFinal
    <2>1. ResultOwner \in Owner
        BY DEF ResultOwner
    <2>2. hrsl.code \in Results
        OBVIOUS
    <2>3. ResultCode \in 0 .. 15
        <3>1. hrsl.code \in 0 .. 15
            BY <2>2
        <3> QED
            BY <3>1 DEF ResultCode
    <2> QED
        BY <1>7, <2>1, <2>3 DEF ReadFinal, Return, chip
<1>8. CASE Complete
    BY <1>8 DEF Complete, driver
<1>9. CASE Tick
    BY <1>9, TickDword DEF Tick, driver, chip
<1>10. CASE UNCHANGED vars
    BY <1>10 DEF vars
<1> QED
    BY <1>1, <1>2, <1>3, <1>4, <1>5, <1>6, <1>7, <1>8, <1>9, <1>10
    DEF Next, Host

(***************************************************************************)
(* Every variable keeps its type; in particular the two BYTE counters stay *)
(* within their limits and a call launches at most NAK_LIMIT + RETRY_LIMIT *)
(* - 1 packets.                                                            *)
(***************************************************************************)
THEOREM TypeCorrect == Spec => []TypeOK
<1>1. IInv => TypeOK
    BY DEF IInv
<1> QED
    BY InitIInv, NextIInv, <1>1, PTL DEF Spec

(***************************************************************************)
(* Every launch but the last of a call was answered by a counted NAK or a  *)
(* counted bus timeout.                                                    *)
(***************************************************************************)
THEOREM LaunchesAreBounded == Spec => []LaunchesBounded
<1>1. IInv => LaunchesBounded
    BY DEF IInv
<1> QED
    BY InitIInv, NextIInv, <1>1, PTL DEF Spec

(***************************************************************************)
(* Until a call gives up, a packet is in flight only while its own call    *)
(* polls for it, and the completion flag is up only when that packet has   *)
(* completed: so no call ever sees a flag that is not its own.             *)
(***************************************************************************)
QuietUntilTimeout ==
    ~ late =>
        /\ pc # "poll" => flight = "none" /\ ~ hxfrdn
        /\ pc = "poll" => \/ flight = "own" /\ ~ hxfrdn
                          \/ flight = "none" /\ hxfrdn /\ hrsl.of = "own"
        /\ pc = "result" => hrsl.of = "own"
        /\ pc = "idle" => answered = "own"

LEMMA NextQuiet ==
    TypeOK /\ QuietUntilTimeout /\ [Next]_vars => QuietUntilTimeout'
<1> SUFFICES ASSUME TypeOK, QuietUntilTimeout, [Next]_vars
             PROVE  QuietUntilTimeout'
    OBVIOUS
<1> USE DEF QuietUntilTimeout
<1>1. CASE Call
    BY <1>1 DEF Call, chip
<1>2. CASE Launch
    <2>1. pc = "launch" /\ pc' = "poll" /\ late' = late /\ hxfrdn' = hxfrdn
        BY <1>2 DEF Launch
    <2>2. flight = "none" => flight' = "own"
        BY <1>2 DEF Launch
    <2>3. ~ late => flight' = "own" /\ ~ hxfrdn'
        BY <2>1, <2>2
    <2> QED
        BY <2>1, <2>3
<1>3. CASE SeeDone
    BY <1>3 DEF SeeDone, driver
<1>4. CASE GiveUp
    BY <1>4 DEF GiveUp
<1>5. CASE ReadNak
    <2>1. late' = late /\ UNCHANGED chip /\ pc' \in {"launch", "idle"}
        BY <1>5 DEF ReadNak, Return
    <2>2. pc' = "idle" => answered' = ResultOwner
        BY <1>5 DEF ReadNak, Return
    <2> QED
        BY <1>5, <2>1, <2>2 DEF ReadNak, chip, ResultOwner
<1>6. CASE ReadBusTimeout
    <2>1. late' = late /\ UNCHANGED chip /\ pc' \in {"launch", "idle"}
        BY <1>6 DEF ReadBusTimeout, Return
    <2>2. pc' = "idle" => answered' = ResultOwner
        BY <1>6 DEF ReadBusTimeout, Return
    <2> QED
        BY <1>6, <2>1, <2>2 DEF ReadBusTimeout, chip, ResultOwner
<1>7. CASE ReadFinal
    BY <1>7 DEF ReadFinal, Return, chip, ResultOwner
<1>8. CASE Complete
    <2>1. /\ flight # "none" /\ flight' = "none" /\ hxfrdn' = TRUE
          /\ UNCHANGED <<pc, late, answered>>
        BY <1>8 DEF Complete, driver
    <2>2. hrsl'.of = flight
        BY <1>8 DEF Complete
    <2> QED
        BY <2>1, <2>2
<1>9. CASE Tick
    BY <1>9 DEF Tick, driver, chip
<1>10. CASE UNCHANGED vars
    BY <1>10 DEF vars
<1> QED
    BY <1>1, <1>2, <1>3, <1>4, <1>5, <1>6, <1>7, <1>8, <1>9, <1>10
    DEF Next, Host

(***************************************************************************)
(* As long as no call has given up at its deadline, every call returns the *)
(* result of its own packet and leaves the controller quiet.               *)
(***************************************************************************)
THEOREM SoundBeforeTimeout == Spec => []SoundUntilTimeout
<1>1. Init => QuietUntilTimeout
    BY DEF Init, QuietUntilTimeout
<1>2. QuietUntilTimeout => SoundUntilTimeout
    BY DEF QuietUntilTimeout, SoundUntilTimeout
<1> QED
    BY <1>1, NextQuiet, <1>2, TypeCorrect, PTL DEF Spec

(***************************************************************************)
(* XferDispatchPkt implements the bounded retry: calls are requests,       *)
(* launches are tries, returns are answers, and everything else stutters.  *)
(***************************************************************************)
THEOREM RetryRefined == Spec => RetrySpec
<1> USE DEF Retry!Request, Retry!Try, Retry!Answer
<1>1. Init => Retry!Init
    <2> SUFFICES ASSUME Init PROVE Retry!Init
        OBVIOUS
    <2>1. rcode \in 0 .. 15
        BY DEF Init
    <2> QED
        BY <2>1 DEF Init, Retry!Init
<1>2. IInv /\ [Next]_vars => [Retry!Next]_<<pc # "idle", sent, rcode>>
    <2> SUFFICES ASSUME IInv, [Next]_vars
                 PROVE  [Retry!Next]_<<pc # "idle", sent, rcode>>
        OBVIOUS
    <2> USE DEF IInv, TypeOK, LaunchesBounded
    <2>a. IInv'
        BY NextIInv
    <2>1. CASE Call
        <3>1. Retry!Request
            BY <2>1 DEF Call
        <3> QED
            BY <3>1 DEF Retry!Next
    <2>2. CASE Launch
        <3>1. Retry!Try
            BY <2>2, <2>a DEF Launch, Retry!Budget
        <3> QED
            BY <3>1 DEF Retry!Next
    <2>3. CASE SeeDone
        BY <2>3 DEF SeeDone, driver
    <2>4. CASE GiveUp
        <3>1. Retry!Answer
            BY <2>4 DEF GiveUp, Return
        <3> QED
            BY <3>1 DEF Retry!Next
    <2>5. CASE ReadNak
        <3>1. CASE pc' = "idle"
            <4>1. rcode' = hrNAK /\ sent' = sent /\ nak_count + 1 = NAK_LIMIT
                BY <2>5, <3>1 DEF ReadNak, Return
            <4>2. sent >= NAK_LIMIT
                BY <2>5, <4>1 DEF ReadNak
            <4>3. Retry!Answer
                BY <2>5, <3>1, <4>1, <4>2 DEF ReadNak
            <4> QED
                BY <4>3 DEF Retry!Next
        <3>2. CASE pc' # "idle"
            BY <2>5, <3>2 DEF ReadNak, Return
        <3> QED
            BY <3>1, <3>2
    <2>6. CASE ReadBusTimeout
        <3>1. CASE pc' = "idle"
            <4>1. /\ rcode' = hrTIMEOUT /\ sent' = sent
                  /\ retry_count + 1 = RETRY_LIMIT
                BY <2>6, <3>1 DEF ReadBusTimeout, Return
            <4>2. sent >= RETRY_LIMIT
                BY <2>6, <4>1 DEF ReadBusTimeout
            <4>3. Retry!Answer
                BY <2>6, <3>1, <4>1, <4>2 DEF ReadBusTimeout
            <4> QED
                BY <4>3 DEF Retry!Next
        <3>2. CASE pc' # "idle"
            BY <2>6, <3>2 DEF ReadBusTimeout, Return
        <3> QED
            BY <3>1, <3>2
    <2>7. CASE ReadFinal
        <3>1. rcode' \notin {hrNAK, hrTIMEOUT}
            BY <2>7 DEF ReadFinal, Return
        <3>2. rcode' \in 0 .. 15 \cup {XferTimedOut}
            BY <2>a
        <3>3. Retry!Answer
            BY <2>7, <3>1, <3>2 DEF ReadFinal, Return
        <3> QED
            BY <3>3 DEF Retry!Next
    <2>8. CASE Complete
        BY <2>8 DEF Complete, driver
    <2>9. CASE Tick
        BY <2>9 DEF Tick, driver
    <2>10. CASE UNCHANGED vars
        BY <2>10 DEF vars
    <2> QED
        BY <2>1, <2>2, <2>3, <2>4, <2>5, <2>6, <2>7, <2>8, <2>9, <2>10
        DEF Next, Host
<1> QED
    BY <1>1, <1>2, InitIInv, NextIInv, PTL DEF Spec, RetrySpec, Retry!Spec

(***************************************************************************)
(* What a call has left to do: the driver's own steps until it must have   *)
(* run out of re-sends, whatever the controller answers.                   *)
(***************************************************************************)
StepsLeft ==
    3 * (NAK_LIMIT + RETRY_LIMIT - nak_count - retry_count)
    + CASE pc = "launch" -> 2 [] pc = "poll" -> 1 [] OTHER -> 0

MostSteps == 3 * (NAK_LIMIT + RETRY_LIMIT) + 2

CallProgress ==
    [][pc # "idle" => \/ pc' = "idle"
                      \/ StepsLeft \in 0 .. MostSteps /\ StepsLeft' \in 0 .. StepsLeft - 1
                      \/ UNCHANGED <<pc, driver>>]_vars

\* No matter what the controller does, every step of the driver either ends
\* the call or uses up one of at most 3 * (NAK_LIMIT + RETRY_LIMIT) + 2, and
\* the steps of the controller and the clock give none back (transfer.c
\* 141-186).  A call that does not return is one whose poll waits.
THEOREM CallsRunOut == Spec => CallProgress
<1>1. ASSUME IInv, [Next]_vars
      PROVE  pc # "idle" => \/ pc' = "idle"
                            \/ StepsLeft \in 0 .. MostSteps /\ StepsLeft' \in 0 .. StepsLeft - 1
                            \/ UNCHANGED <<pc, driver>>
    <2> SUFFICES ASSUME pc # "idle", pc' # "idle", ~ UNCHANGED <<pc, driver>>
                 PROVE  StepsLeft \in 0 .. MostSteps /\ StepsLeft' \in 0 .. StepsLeft - 1
        OBVIOUS
    <2> DEFINE left == NAK_LIMIT + RETRY_LIMIT - nak_count - retry_count
    <2>1. left \in 2 .. NAK_LIMIT + RETRY_LIMIT
        BY <1>1 DEF IInv, TypeOK, LaunchesBounded
    <2>2. CASE Launch
        <3>1. pc = "launch" /\ pc' = "poll" /\ left' = left
            BY <2>2 DEF Launch
        <3>2. StepsLeft = 3 * left + 2 /\ StepsLeft' = 3 * left + 1
            BY <3>1 DEF StepsLeft
        <3> QED
            BY <2>1, <3>2 DEF MostSteps
    <2>3. CASE SeeDone
        <3>1. pc = "poll" /\ pc' = "result" /\ left' = left
            BY <2>3 DEF SeeDone, driver
        <3>2. StepsLeft = 3 * left + 1 /\ StepsLeft' = 3 * left
            BY <2>1, <3>1 DEF StepsLeft
        <3> QED
            BY <2>1, <3>2 DEF MostSteps
    <2>4. CASE ReadNak \/ ReadBusTimeout
        <3>1. pc = "result" /\ pc' = "launch"
            BY <2>4 DEF ReadNak, ReadBusTimeout, Return
        <3>2. left' = left - 1
            BY <2>4, <1>1 DEF ReadNak, ReadBusTimeout, IInv, TypeOK
        <3>3. StepsLeft = 3 * left /\ StepsLeft' = 3 * (left - 1) + 2
            BY <2>1, <3>1, <3>2 DEF StepsLeft
        <3> QED
            BY <2>1, <3>3 DEF MostSteps
    <2>5. ~ GiveUp /\ ~ ReadFinal /\ ~ Call
        BY DEF GiveUp, ReadFinal, Return, Call
    <2>6. ~ Complete /\ ~ Tick /\ ~ UNCHANGED vars
        BY DEF Complete, Tick, vars, driver
    <2> QED
        BY <1>1, <2>2, <2>3, <2>4, <2>5, <2>6 DEF Next, Host
<1> QED
    BY <1>1, InitIInv, NextIInv, PTL DEF Spec, CallProgress

(***************************************************************************)
(* The deadline.                                                           *)
(***************************************************************************)
DeadlineInReach == ~ ClockWraps /\ pc # "idle" => timeout < LastMs

\* Unless a call spans a wrap of the clock, its deadline is below the highest
\* value the clock takes: the addition of transfer.c 144 has not wrapped, and
\* no clock has to pass its end to reach it.
THEOREM DeadlineReachable == Spec => []DeadlineInReach
<1>1. Init => DeadlineInReach
    BY DEF Init, DeadlineInReach
<1>2. ASSUME TypeOK, DeadlineInReach, [Next]_vars
      PROVE  DeadlineInReach'
    <2>1. CASE Call
        <3>1. MsAt(nticks) + XFER_TIMEOUT \in Nat
            BY <1>2, MsNat DEF TypeOK
        <3>2. timeout' \in Dword /\ timeout' = (MsAt(nticks) + XFER_TIMEOUT) % Word
            BY <1>2, <2>1, DeadlineDword DEF TypeOK, Call, DeadlineFrom
        <3>3. ASSUME ~ ClockWraps PROVE timeout' < LastMs
            <4>1. MsAt(nticks) + XFER_TIMEOUT < LastMs
                BY <2>1, <3>3 DEF Call, Now
            <4>2. LastMs \in Nat /\ LastMs <= Word - 1
                BY DEF LastMs
            <4>3. MsAt(nticks) + XFER_TIMEOUT \in 0 .. Word - 1
                BY <3>1, <4>1, <4>2
            <4>4. timeout' = MsAt(nticks) + XFER_TIMEOUT
                BY <3>2, <4>3
            <4> QED
                BY <4>1, <4>4
        <3> QED
            BY <3>3 DEF DeadlineInReach, LastMs
    <2>2. CASE Host \/ Complete \/ Tick \/ UNCHANGED vars
        <3>1. timeout' = timeout /\ (pc' # "idle" => pc # "idle")
            BY <2>2 DEF Host, Launch, SeeDone, GiveUp, ReadNak, ReadBusTimeout,
                        ReadFinal, Complete, Tick, vars, driver, Return
        <3> QED
            BY <1>2, <3>1 DEF DeadlineInReach, LastMs
    <2> QED
        BY <1>2, <2>1, <2>2 DEF Next
<1> QED
    BY <1>1, <1>2, TypeCorrect, PTL DEF Spec

\* Once the deadline of a call has passed it stays passed until the call
\* returns, so the next poll gives up (transfer.c 161-164).
DeadlineStays ==
    [][~ ClockWraps /\ pc # "idle" /\ pc' # "idle" /\ ~ BeforeDeadline
           => ~ BeforeDeadline']_vars

THEOREM PassedForGood == Spec => DeadlineStays
<1>1. ASSUME TypeOK, [Next]_vars
      PROVE  ~ ClockWraps /\ pc # "idle" /\ pc' # "idle" /\ ~ BeforeDeadline
                 => ~ BeforeDeadline'
    <2> SUFFICES ASSUME ~ ClockWraps, pc # "idle", pc' # "idle", ~ BeforeDeadline
                 PROVE  ~ BeforeDeadline'
        OBVIOUS
    <2>1. nticks \in Dword /\ nticks' \in Dword
        <3>1. nticks' = nticks \/ nticks' = NextTick(nticks)
            BY <1>1 DEF Next, Host, Call, Launch, SeeDone, GiveUp, ReadNak,
                        ReadBusTimeout, ReadFinal, Complete, Tick, vars
        <3> QED
            BY <1>1, <3>1, TickDword DEF TypeOK
    <2>2. timeout' = timeout /\ MsAt(nticks') >= MsAt(nticks)
        <3>1. MsAt(nticks) \in Nat
            BY <2>1, MsNat
        <3>2. CASE Tick
            BY <3>2 DEF Tick, Now, driver
        <3>3. CASE ~ Tick
            <4>1. timeout' = timeout /\ nticks' = nticks
                BY <1>1, <3>3 DEF Next, Host, Call, Launch, SeeDone, GiveUp,
                        ReadNak, ReadBusTimeout, ReadFinal, Complete, vars, driver
            <4> QED
                BY <3>1, <4>1
        <3> QED
            BY <3>2, <3>3
    <2>3. MsAt(nticks) \in Nat /\ MsAt(nticks') \in Nat /\ timeout \in Nat
        BY <1>1, <2>1, MsNat DEF TypeOK, Dword
    <2> QED
        BY <2>2, <2>3 DEF BeforeDeadline, Now
<1> QED
    BY <1>1, TypeCorrect, PTL DEF Spec, DeadlineStays
=============================================================================
