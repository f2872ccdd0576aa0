------------------------------ MODULE EchoLine ------------------------------
(***************************************************************************)
(* What the delay pedal promises for one channel: each sample leaves with  *)
(* a quarter of the sample that was stored so many samples before it, as   *)
(* the knob says.                                                          *)
(***************************************************************************)
EXTENDS Integers

CONSTANTS Words,            \* the samples that arrive
          Longest,          \* the longest echo, in samples
          Delays, Tap,      \* knob positions, and the samples each goes back
          Mix(_, _)         \* a sample and an echo, mixed

VARIABLES past,       \* past[k]: what was stored k samples ago
          sample,     \* the sample under way
          stored,     \* what is stored of it, at the end of its first half
          firstHalf,
          out,
          knob,
          steady      \* the knob has not moved since this sample arrived

vars == <<past, sample, stored, firstHalf, out, knob, steady>>

Init == /\ past = [k \in 1 .. Longest |-> 0]
        /\ sample = 0 /\ stored = 0 /\ firstHalf \in BOOLEAN
        /\ out = 0
        /\ knob \in Delays /\ steady = FALSE

\* A knob that moves during a sample may or may not count for it yet.
Echoes == {past[Tap[d]] : d \in IF steady THEN {knob} ELSE Delays}

Store == /\ firstHalf /\ ~firstHalf'
         /\ \/ stored' = sample
            \/ \E e \in Echoes : stored' = Mix(sample, e)
         /\ UNCHANGED <<past, sample, out, knob, steady>>

Arrive == /\ ~firstHalf /\ firstHalf'
          /\ \/ out' = sample
             \/ \E e \in Echoes : out' = Mix(sample, e)
          /\ past' = [k \in 1 .. Longest |-> IF k = 1 THEN stored ELSE past[k - 1]]
          /\ sample' \in Words
          /\ stored' = 0
          /\ steady' = TRUE
          /\ UNCHANGED knob

Turn == /\ knob' \in Delays \ {knob} /\ ~steady'
        /\ UNCHANGED <<past, sample, stored, firstHalf, out>>

Next == Store \/ Arrive \/ Turn

Spec == Init /\ [][Next]_vars
=============================================================================
