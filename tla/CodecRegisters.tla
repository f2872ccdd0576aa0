--------------------------- MODULE CodecRegisters ---------------------------
(***************************************************************************)
(* What a program that sets the codec up by a script of register reads and *)
(* writes is promised: the writes take effect in the script's order, each  *)
(* before its call returns, and nothing else changes a register.  A write  *)
(* may take effect more than once, and a call may never return.            *)
(***************************************************************************)
EXTENDS Integers, Sequences

CONSTANTS Script, ResetValue

VARIABLES done,  \* calls that have returned
          regs,  \* the registers
          lost   \* the bus was taken away in the middle of the call

Current == Script[done + 1]

Init == done = 0 /\ regs = ResetValue

WriteLands == /\ done < Len(Script)
              /\ Current.op = "Wr"
              /\ regs' = [regs EXCEPT ![Current.reg] = Current.val]
              /\ UNCHANGED done

CallReturns == /\ done < Len(Script)
               /\ Current.op = "Wr" => regs[Current.reg] = Current.val \/ lost
               /\ done' = done + 1
               /\ UNCHANGED regs

Next == WriteLands \/ CallReturns

Spec == Init /\ [][Next]_<<done, regs>>
=============================================================================
