---------------------------- MODULE ControlPanel ----------------------------
(***************************************************************************)
(* controlpanel.sv: two push buttons step the effect parameter that three  *)
(* switches select, or clear it when both are down.  One step is one edge  *)
(* of the 50 MHz clock; the user moves buttons and switches between edges. *)
(***************************************************************************)
EXTENDS Integers

CONSTANTS Top,      \* the largest level of each parameter, by SELECT value
          Selects   \* positions of the switches: parameters and unused ones

Params == DOMAIN Top

ASSUME PanelAssumption == /\ Top \in [Params -> Nat \ {0}]
                          /\ Params \subseteq Selects

VARIABLES up, down,    \* ~BUTTON[0], ~BUTTON[1]: the keys are held
          SELECT,
          up1, up2, down1, down2,
          level,       \* gain, bitdepth, clip, delaytime, trem, cutoff
          ups,         \* history: clocks with add since up was released
          downs        \* history: and with subtract since down was

user == <<up, down, SELECT>>
panel == <<up1, up2, down1, down2, level, ups, downs>>

Init == /\ up = FALSE /\ down = FALSE
        /\ SELECT \in Selects
        /\ up1 = FALSE /\ up2 = FALSE /\ down1 = FALSE /\ down2 = FALSE
        /\ level = [p \in Params |-> 0]
        /\ ups = 0 /\ downs = 0

\* An operator marked "mutant" is a plausible bug in the definition that
\* follows it, kept to show that a property can fail.

\* mutant: no edge detection
AddWhileUp == up1

add == up1 /\ ~up2
subtract == down1 /\ ~down2

\* mutant: the clearing assignment comes first, and counting overrides it
CountingWins(p) ==
    CASE subtract /\ level[p] # 0               -> level[p] - 1
      [] ~subtract /\ add /\ level[p] # Top[p] -> level[p] + 1
      [] OTHER -> IF up /\ down THEN 0 ELSE level[p]

\* Both keys clear the level; else the last assignment wins, which is that
\* of subtract.
NextLevel(p) ==
    CASE up /\ down                   -> 0
      [] ~(up /\ down) /\ subtract /\ level[p] # 0 -> level[p] - 1
      [] OTHER -> IF add /\ level[p] # Top[p] THEN level[p] + 1 ELSE level[p]

\* The count of a key's edges, to tell one from more.
Counted(held, edge, n) == IF ~held THEN 0
                          ELSE IF edge /\ n < 2 THEN n + 1 ELSE n

Clock == /\ up1' = up
         /\ up2' = (up /\ up1)
         /\ down1' = down
         /\ down2' = (down /\ down1)
         /\ level' = [p \in Params |-> IF p = SELECT THEN NextLevel(p)
                                       ELSE level[p]]
         /\ ups' = Counted(up, add, ups)
         /\ downs' = Counted(down, subtract, downs)
         /\ UNCHANGED user

Press0 == ~up /\ up' = TRUE /\ UNCHANGED <<down, SELECT, panel>>
Release0 == up /\ up' = FALSE /\ UNCHANGED <<down, SELECT, panel>>
Press1 == ~down /\ down' = TRUE /\ UNCHANGED <<up, SELECT, panel>>
Release1 == down /\ down' = FALSE /\ UNCHANGED <<up, SELECT, panel>>
Switch == SELECT' \in Selects /\ UNCHANGED <<up, down, panel>>

Next == Clock \/ Press0 \/ Release0 \/ Press1 \/ Release1 \/ Switch

vars == <<up, down, SELECT, up1, up2, down1, down2, level, ups, downs>>

Spec == Init /\ [][Next]_vars
-----------------------------------------------------------------------------
\* The types of the variables: a level is a value of its register.
TypeOK == /\ {up, down, up1, up2, down1, down2} \subseteq BOOLEAN
          /\ SELECT \in Selects
          /\ level \in [Params -> Nat]
          /\ \A p \in Params : level[p] <= Top[p]
          /\ ups \in 0 .. 2 /\ downs \in 0 .. 2

\* A key that is held counts once, however long it is held, and has counted
\* when it has been held for two clocks.
OneStepPerPress == /\ ups <= 1 /\ (up2 => ups = 1)
                   /\ downs <= 1 /\ (down2 => downs = 1)

\* Only the selected level changes, and it moves by one: no level wraps, and
\* moving the switches changes none.  While both keys are down it is not counted
\* but cleared, whatever edges the clock sees.
NoJumps == [][/\ \A p \in Params :
                     level'[p] = level[p] \/
                     /\ p = SELECT
                     /\ IF up /\ down THEN level'[p] = 0
                        ELSE level'[p] \in level[p] - 1 .. level[p] + 1
              /\ Clock /\ up /\ down /\ SELECT \in Params =>
                     level'[SELECT] = 0]_vars
=============================================================================
