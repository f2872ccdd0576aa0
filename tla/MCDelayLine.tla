---------------------------- MODULE MCDelayLine ----------------------------
(* A ring of four cells, taps of one and two samples (the longest tap of   *)
(* delay.sv is half the ring, too), samples of three bits, of which        *)
(* silence, a positive and a negative one arrive.                          *)
EXTENDS DelayLine

MCDelays == {0, 1}
MCTap == [d \in MCDelays |-> 2 ^ d]
MCSamples == {0, 3, 5}
=============================================================================
