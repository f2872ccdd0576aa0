------------------------------ MODULE DelayLine ------------------------------
(***************************************************************************)
(* The delay pedal (delay.sv), one channel: a ring buffer in dual-port RAM *)
(* (Spoogus.v) whose ports run on the 50 MHz clock, while samples and the  *)
(* write address move on an edge of LRCLK.  The names are those of the     *)
(* left channel; the right one is the same with LRCLK inverted.            *)
(* A sample is the 16 bits of it that the pedal keeps.  Definitions that   *)
(* ControlPanel has, too, are named for the delay.                         *)
(***************************************************************************)
EXTENDS Integers

CONSTANTS N,          \* cells of the RAM: 2^15
          T,          \* number of words: 2^16
          Samples,    \* the words that arrive
          Delays,     \* values of DELAYTIME: 0 .. 7
          Tap         \* Tap[d], the samples that setting d goes back: 128 << d

Words == 0 .. T - 1
Addresses == 0 .. N - 1

ASSUME DelayAssumption == /\ N \in Nat /\ N > 1
                          /\ T \in Nat \ {0} /\ T % 4 = 0
                          /\ Samples \subseteq Words
                          /\ Delays # {}
                          /\ Tap \in [Delays -> 1 .. N - 1]

VARIABLES LRCLK, writeadd,
          data,       \* the sample that the overdrive pedal put out
          mem,
          raddr, q,   \* the RAM's address and output registers, q is dL
          DOUT, DELAYTIME,
          age,        \* clocks since LRCLK rose, up to Latency
          steady      \* history: DELAYTIME has not moved since LRCLK rose

delayVars ==
    <<LRCLK, writeadd, data, mem, raddr, q, DOUT, DELAYTIME, age, steady>>

\* An edge of LRCLK comes every 567 clocks (44.1 kHz); the model only asks for
\* the two register stages of the RAM and a write after them.
Latency == 3

DelayInit == /\ LRCLK \in BOOLEAN /\ writeadd = 0 /\ data = 0
             /\ mem = [a \in Addresses |-> 0]
             /\ raddr = 0 /\ q = 0 /\ DOUT = 0
             /\ DELAYTIME \in Delays
             /\ age = 0 /\ steady = FALSE

-----------------------------------------------------------------------------
(* An operator marked "mutant" is a plausible bug in the definition that   *)
(* follows it, kept to show that a property can fail.                      *)

\* {v[15], v[15], v[15:2]}
Quarter(v) == IF v < T \div 2 THEN v \div 4 ELSE v \div 4 + T - T \div 4

\* The sum in bits 30 to 15; its carry lands in the bit that i2s_out sends
\* where the codec expects none.
Mix(x, e) == LET sum == x + Quarter(e) IN IF sum < T THEN sum ELSE sum - T

\* mutant: the tap counts from the next address
MinusNext(a, k) == IF k <= a + 1 THEN a + 1 - k ELSE a + 1 + N - k

\* Subtraction of addresses, which wraps.
Minus(a, k) == IF k <= a THEN a - k ELSE a + N - k

\* mutant: the ring is left by one cell before it wraps
IncrementPastEnd(a) == IF a = N THEN 0 ELSE a + 1

Increment(a) == IF a = N - 1 THEN 0 ELSE a + 1

read == Minus(writeadd, Tap[DELAYTIME])

\* One clock of the RAM.  It reads and writes different cells (Tap is never 0
\* and less than N), so what mixed reads and writes return does not matter.
RamClock == /\ q' = mem[raddr]
            /\ raddr' = read
            /\ \E FEEDBACK \in BOOLEAN :
                   mem' = IF LRCLK
                          THEN [mem EXCEPT ![writeadd] =
                                    IF FEEDBACK THEN Mix(data, q) ELSE data]
                          ELSE mem
            /\ age' = IF age = Latency THEN age ELSE age + 1
            /\ UNCHANGED <<LRCLK, writeadd, data, DOUT, DELAYTIME, steady>>

\* mutant: the address moves with the falling edge, too
FallingCounts == /\ LRCLK /\ LRCLK' = FALSE
                 /\ age = Latency
                 /\ writeadd' = Increment(writeadd)
                 /\ UNCHANGED <<data, mem, raddr, q, DOUT, DELAYTIME, age, steady>>

Fall == /\ LRCLK /\ LRCLK' = FALSE
        /\ age = Latency
        /\ UNCHANGED <<writeadd, data, mem, raddr, q, DOUT, DELAYTIME, age, steady>>

\* The pedals are registers on LRCLK: each takes what the one before it put
\* out at the last edge.
Rise(x) == /\ ~LRCLK /\ LRCLK' = TRUE
           /\ age = Latency
           /\ \E ENABLE \in BOOLEAN :
                  DOUT' = IF ENABLE THEN Mix(data, q) ELSE data
           /\ writeadd' = Increment(writeadd)
           /\ data' = x
           /\ age' = 0 /\ steady' = TRUE
           /\ UNCHANGED <<mem, raddr, q, DELAYTIME>>

\* The control panel changes DELAYTIME.
Turn == /\ DELAYTIME' \in Delays \ {DELAYTIME}
        /\ steady' = FALSE
        /\ UNCHANGED <<LRCLK, writeadd, data, mem, raddr, q, DOUT, age>>

DelayNext == RamClock \/ Fall \/ (\E x \in Samples : Rise(x)) \/ Turn

DelaySpec == DelayInit /\ [][DelayNext]_delayVars
-----------------------------------------------------------------------------
(* Properties.                                                             *)

\* The types of the variables: no address leaves the ring, and what a sample and
\* a quarter of another make is a sample again.
DelayTypeOK == /\ LRCLK \in BOOLEAN /\ steady \in BOOLEAN
               /\ writeadd \in Addresses /\ raddr \in Addresses
               /\ data \in Words /\ q \in Words /\ DOUT \in Words
               /\ mem \in [Addresses -> Words]
               /\ DELAYTIME \in Delays
               /\ age \in 0 .. Latency

\* The cells the knob could have chosen.
Tapped == {Minus(writeadd, Tap[d]) :
               d \in IF steady THEN {DELAYTIME} ELSE Delays}

\* What the RAM's registers hold belongs to the sample under way as soon as
\* they have had the time, and what is left in its cell is that sample, alone
\* or with an echo.
Pipeline ==
    /\ age >= 1 => raddr \in Tapped
    /\ age >= 2 => q \in {mem[a] : a \in Tapped}
    /\ age = Latency /\ LRCLK =>
           mem[writeadd] \in {data} \cup {Mix(data, mem[a]) : a \in Tapped}

Echo == INSTANCE EchoLine WITH
    Longest <- N - 1,
    Words <- Samples,
    past <- [k \in 1 .. N - 1 |-> mem[Minus(writeadd, k)]],
    sample <- data,
    stored <- IF LRCLK THEN 0 ELSE mem[writeadd],
    firstHalf <- LRCLK,
    out <- DOUT,
    knob <- DELAYTIME

\* Every sample leaves with the echo of the sample as far back as the knob
\* says, through the wrap of the ring, the latency of the RAM and the repeated
\* writes of a cell; a moving knob picks one of its positions and never a
\* sample half written.
EchoSpec == Echo!Spec
=============================================================================
