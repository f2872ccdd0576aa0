---------------------------- MODULE BoundedRetry ----------------------------
(***************************************************************************)
(* What a caller of XferDispatchPkt is promised: a request is tried a      *)
(* bounded number of times and then answered once.  The answer "no data"   *)
(* (NAK) is only given after NakLimit tries, and "no response" (bus        *)
(* timeout) only after RetryLimit tries.                                   *)
(***************************************************************************)
EXTENDS Integers

CONSTANTS NakLimit, RetryLimit, Answers, NakAnswer, BusTimeoutAnswer

VARIABLES busy, tried, answer

Budget == NakLimit + RetryLimit - 1

Init == /\ busy = FALSE
        /\ tried = 0
        /\ answer \in Answers

Request == /\ ~busy
           /\ busy' = TRUE
           /\ tried' = 0
           /\ UNCHANGED answer

Try == /\ busy
       /\ tried < Budget
       /\ tried' = tried + 1
       /\ UNCHANGED <<busy, answer>>

Answer == /\ busy
          /\ busy' = FALSE
          /\ answer' \in Answers
          /\ answer' = NakAnswer => tried >= NakLimit
          /\ answer' = BusTimeoutAnswer => tried >= RetryLimit
          /\ UNCHANGED tried

Next == Request \/ Try \/ Answer

Spec == Init /\ [][Next]_<<busy, tried, answer>>
=============================================================================
