---------------------------- MODULE PanelDisplay ----------------------------
(***************************************************************************)
(* The control panel with the program that draws its levels on the screen  *)
(* (textVGAColorScreenSaver).  The program does not read the levels: it    *)
(* polls the same keys and switches and counts for itself.  The keys read  *)
(* 0 while they are held, and the program counts when they read 1.         *)
(***************************************************************************)
EXTENDS ControlPanel

VARIABLES pc,            \* the program's next read of an input
          select,        \* the switches as last read
          key0_pressed, key1_pressed,
          screen,        \* gain_level, bitcrush_level, ...
          orderly        \* history: the user has held one key at a time, and
                        \* none while moving the switches, and made no move
                        \* before panel and program had seen the last

program == <<pc, select, key0_pressed, key1_pressed, screen>>
all == <<up, down, SELECT, up1, up2, down1, down2, level, ups, downs,
         pc, select, key0_pressed, key1_pressed, screen, orderly>>

DInit == /\ Init
         /\ pc = "switches"
         /\ select = SELECT
         /\ key0_pressed = FALSE /\ key1_pressed = FALSE
         /\ screen = [p \in Params |-> 0]
         /\ orderly = TRUE

Goto(next) == pc' = next /\ UNCHANGED <<user, panel, orderly>>

ReadSwitches == /\ pc = "switches"
                /\ select' = SELECT
                /\ Goto("key0")
                /\ UNCHANGED <<key0_pressed, key1_pressed, screen>>

\* mutant: the largest level is counted past
ShownPastTop == [p \in Params |-> IF p = select /\ screen[p] <= Top[p]
                                  THEN screen[p] + 1 ELSE screen[p]]

ShownUp == [p \in Params |-> IF p = select /\ screen[p] < Top[p]
                             THEN screen[p] + 1 ELSE screen[p]]

\* mutant: counting down is not guarded
ShownBelow == [p \in Params |-> IF p = select THEN screen[p] - 1
                                ELSE screen[p]]

ShownDown == [p \in Params |-> IF p = select /\ screen[p] > 0
                               THEN screen[p] - 1 ELSE screen[p]]

ReadKey0 == /\ pc = "key0"
            /\ IF ~up /\ ~key0_pressed
               THEN key0_pressed' = TRUE /\ screen' = ShownUp
               ELSE UNCHANGED <<key0_pressed, screen>>
            /\ Goto("key1")
            /\ UNCHANGED <<select, key1_pressed>>

ReadKey1 == /\ pc = "key1"
            /\ IF ~down /\ ~key1_pressed
               THEN key1_pressed' = TRUE /\ screen' = ShownDown
               ELSE UNCHANGED <<key1_pressed, screen>>
            /\ Goto("rearm0")
            /\ UNCHANGED <<select, key0_pressed>>

\* mutant: the flag is not cleared while the key reads 0
NotRearmed(held, pressed) == pressed

Rearmed(held, pressed) == pressed /\ ~held

Rearm0 == /\ pc = "rearm0"
          /\ key0_pressed' = Rearmed(up, key0_pressed)
          /\ Goto("rearm1")
          /\ UNCHANGED <<select, key1_pressed, screen>>

Rearm1 == /\ pc = "rearm1"
          /\ key1_pressed' = Rearmed(down, key1_pressed)
          /\ Goto("switches")
          /\ UNCHANGED <<select, key0_pressed, screen>>

Program == ReadSwitches \/ ReadKey0 \/ ReadKey1 \/ Rearm0 \/ Rearm1

\* Panel and program have both taken notice of the inputs.
Settled == /\ up1 = up /\ up2 = up /\ down1 = down /\ down2 = down
           /\ select = SELECT
           /\ key0_pressed = ~up /\ key1_pressed = ~down

Move(allowed, move) == /\ move
                       /\ orderly' = (orderly /\ Settled /\ allowed)
                       /\ UNCHANGED program

User == \/ Move(~down, Press0)
        \/ Move(TRUE, Release0)
        \/ Move(~up, Press1)
        \/ Move(TRUE, Release1)
        \/ Move(~up /\ ~down, Switch)

Tick == Clock /\ UNCHANGED <<program, orderly>>

DNext == Tick \/ Program \/ User

DSpec == DInit /\ [][DNext]_all

\* The clock runs, the loop polls for ever, and no key is held for ever once
\* panel and program have seen it.
Fairness == /\ WF_all(Tick)
            /\ WF_all(Program)
            /\ SF_all(Settled /\ User /\ Release0)
            /\ SF_all(Settled /\ User /\ Release1)

FairSpec == DSpec /\ Fairness
-----------------------------------------------------------------------------
\* The types of the program's variables.
DTypeOK == /\ TypeOK
           /\ pc \in {"switches", "key0", "key1", "rearm0", "rearm1"}
           /\ select \in Selects
           /\ key0_pressed \in BOOLEAN /\ key1_pressed \in BOOLEAN
           /\ screen \in [Params -> Nat]
           /\ \A p \in Params : screen[p] <= Top[p]
           /\ orderly \in BOOLEAN

\* With the keys at rest the screen shows the levels of the panel, as long as
\* the user has been orderly: both keys clear a level of the panel but not of
\* the screen, and a release counts under the switches of that moment.
ScreenAgrees == orderly /\ Settled /\ ~up /\ ~down => screen = level

\* The screen catches up with every press of an orderly user.
ScreenCatchesUp == []<>(orderly => screen = level)
=============================================================================
