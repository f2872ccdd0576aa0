------------------------------ MODULE UsbClock ------------------------------
(***************************************************************************)
(* The millisecond clock every wait of the USB host driver reads:          *)
(*                                                                         *)
(*     (alt_nticks()*1000)/alt_ticks_per_second()                          *)
(*                                                                         *)
(* alt_nticks() is an unsigned 32-bit tick counter, so the product wraps   *)
(* BEFORE the division: the result is a sawtooth that never exceeds        *)
(* (2^32-1)/alt_ticks_per_second(), not a counter that wraps at 2^32.      *)
(* Word stands for 2^32 and TicksPerSec for both the factor 1000 and the   *)
(* tick rate, which the board support package sets to 1000 as well.        *)
(***************************************************************************)
EXTENDS Integers

CONSTANTS Word,         \* number of values of a DWORD (2^32)
          TicksPerSec   \* alt_ticks_per_second() = 1000

ASSUME ClockAssumption == /\ Word \in Nat \ {0}
                          /\ TicksPerSec \in Nat \ {0}

Dword == 0 .. Word - 1

\* The value of (alt_nticks()*1000)/alt_ticks_per_second() at tick count n.
MsAt(n) == ((n * TicksPerSec) % Word) \div TicksPerSec

\* The largest value the expression ever takes; every tooth of the saw reaches
\* at least LastMs - 1.
LastMs == (Word - 1) \div TicksPerSec

\* A deadline ms milliseconds after tick n; the sum is a DWORD too.
DeadlineFrom(n, ms) == (MsAt(n) + ms) % Word

\* One interrupt of the system timer.
NextTick(n) == (n + 1) % Word
=============================================================================
