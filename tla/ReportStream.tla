---------------------------- MODULE ReportStream ----------------------------
(***************************************************************************)
(* What an application that polls an interrupt endpoint is promised: the   *)
(* reports of the device arrive in the order it made them, each one once.  *)
(* Reports are numbered from 1.                                            *)
(***************************************************************************)
EXTENDS Naturals, Sequences

VARIABLES made, received

Init == /\ made = 0
        /\ received = << >>

Make == /\ made' = made + 1
        /\ UNCHANGED received

Receive == /\ Len(received) < made
           /\ received' = Append(received, Len(received) + 1)
           /\ UNCHANGED made

Next == Make \/ Receive

Spec == Init /\ [][Next]_<<made, received>>
=============================================================================
