-------------------------- MODULE Pedalboard_proofs --------------------------
(***************************************************************************)
(* Proofs about the hardware of the pedalboard, for any parameters: the    *)
(* panel and the program that shows its levels (ControlPanel,              *)
(* PanelDisplay), and the delay pedal, which implements EchoLine           *)
(* (DelayLine).                                                            *)
(***************************************************************************)
EXTENDS PanelDisplay, DelayLine, TLAPS

-----------------------------------------------------------------------------
(* The control panel.                                                      *)

\* The edge detector of a key: n counts a press once its first clock has passed,
\* and the second register is only set while the first is.
Edge(key1, key2, n) == /\ key2 => key1 /\ n = 1
                       /\ ~key1 => n = 0
                       /\ key1 /\ ~key2 => n = 0

Edges == Edge(up1, up2, ups) /\ Edge(down1, down2, downs)

IInv == TypeOK /\ Edges

\* A clock of the edge detector.
LEMMA EdgeStep ==
    ASSUME NEW key \in BOOLEAN, NEW key1 \in BOOLEAN, NEW key2 \in BOOLEAN,
           NEW n \in 0 .. 2, Edge(key1, key2, n)
    PROVE  /\ Counted(key, key1 /\ ~key2, n) \in 0 .. 2
           /\ Edge(key, key /\ key1, Counted(key, key1 /\ ~key2, n))
<1>1. CASE ~key
  BY <1>1 DEF Counted, Edge
<1>2. CASE key /\ ~key1
  BY <1>2 DEF Counted, Edge
<1>3. CASE key /\ key1
  BY <1>3 DEF Counted, Edge
<1>4. QED BY <1>1, <1>2, <1>3

\* The levels of a parameter stay in the range of its register; they move by
\* one or, when both keys are down, are cleared.
LEMMA NextLevelBounds ==
    ASSUME TypeOK, NEW p \in Params
    PROVE  /\ NextLevel(p) \in 0 .. Top[p]
           /\ IF up /\ down THEN NextLevel(p) = 0
              ELSE NextLevel(p) \in level[p] - 1 .. level[p] + 1
<1>1. level[p] \in Nat /\ Top[p] \in Nat /\ level[p] <= Top[p]
  BY PanelAssumption DEF TypeOK
<1>2. CASE up /\ down
  <2>1. NextLevel(p) = 0
    BY <1>2 DEF NextLevel
  <2>2. 0 \in 0 .. Top[p]
    BY <1>1
  <2>3. QED BY <1>2, <2>1, <2>2
<1>3. CASE ~(up /\ down) /\ subtract /\ level[p] # 0
  <2>1. NextLevel(p) = level[p] - 1
    BY <1>3 DEF NextLevel
  <2>2. QED BY <1>1, <1>3, <2>1
<1>4. CASE ~(up /\ down) /\ ~(subtract /\ level[p] # 0)
  <2>1. NextLevel(p) = IF add /\ level[p] # Top[p] THEN level[p] + 1
                       ELSE level[p]
    BY <1>4 DEF NextLevel
  <2>2. QED BY <1>1, <1>4, <2>1
<1>5. QED BY <1>2, <1>3, <1>4

LEMMA InitInv == Init => IInv
<1> SUFFICES ASSUME Init PROVE IInv
  OBVIOUS
<1>1. level \in [Params -> Nat] /\ \A p \in Params : level[p] <= Top[p]
  BY PanelAssumption DEF Init
<1>2. {up, down, up1, up2, down1, down2} \subseteq BOOLEAN
  BY DEF Init
<1>3. QED BY <1>1, <1>2 DEF Init, IInv, TypeOK, Edges, Edge

\* A clock edge keeps the invariant.
LEMMA ClockInv == ASSUME IInv, Clock PROVE IInv'
<1>1. /\ up1' = up /\ up2' = (up /\ up1)
      /\ down1' = down /\ down2' = (down /\ down1)
      /\ up' = up /\ down' = down /\ SELECT' = SELECT
      /\ level' = [p \in Params |-> IF p = SELECT THEN NextLevel(p)
                                    ELSE level[p]]
  BY DEF Clock, user
<1>2. {up, down, up1, up2, down1, down2}' \subseteq BOOLEAN
  BY <1>1 DEF IInv, TypeOK
<1>3. \A p \in Params : level'[p] \in Nat /\ level'[p] <= Top[p]
  <2> SUFFICES ASSUME NEW p \in Params
               PROVE  level'[p] \in Nat /\ level'[p] <= Top[p]
    OBVIOUS
  <2>1. level'[p] = IF p = SELECT THEN NextLevel(p) ELSE level[p]
    BY <1>1
  <2>2. level[p] \in Nat /\ level[p] <= Top[p] /\ Top[p] \in Nat
    BY PanelAssumption DEF IInv, TypeOK
  <2>3. NextLevel(p) \in 0 .. Top[p]
    BY NextLevelBounds DEF IInv
  <2>4. QED BY <2>1, <2>2, <2>3
<1>4. level' \in [Params -> Nat]
  BY <1>1, <1>3
<1>5. ups' \in 0 .. 2 /\ downs' \in 0 .. 2 /\ Edges'
  <2>1. /\ {up, up1, up2, down, down1, down2} \subseteq BOOLEAN
        /\ ups \in 0 .. 2 /\ downs \in 0 .. 2 /\ Edges
    BY DEF IInv, TypeOK
  <2>2. /\ ups' = Counted(up, up1 /\ ~up2, ups)
        /\ downs' = Counted(down, down1 /\ ~down2, downs)
    BY DEF Clock, add, subtract
  <2>3. ups' \in 0 .. 2 /\ Edge(up1', up2', ups')
    BY <1>1, <2>1, <2>2, EdgeStep DEF Edges
  <2>4. downs' \in 0 .. 2 /\ Edge(down1', down2', downs')
    BY <1>1, <2>1, <2>2, EdgeStep DEF Edges
  <2>5. QED BY <2>3, <2>4 DEF Edges
<1>6. SELECT' \in Selects
  BY <1>1 DEF IInv, TypeOK
<1>7. QED BY <1>2, <1>3, <1>4, <1>5, <1>6 DEF IInv, TypeOK

\* The user's moves keep the invariant.
LEMMA UserInv ==
    ASSUME IInv, Press0 \/ Release0 \/ Press1 \/ Release1 \/ Switch PROVE IInv'
<1>1. UNCHANGED panel
  BY DEF Press0, Release0, Press1, Release1, Switch
<1>2. up' \in BOOLEAN /\ down' \in BOOLEAN
  BY DEF Press0, Release0, Press1, Release1, Switch, IInv, TypeOK
<1>3. SELECT' \in Selects
  BY DEF Press0, Release0, Press1, Release1, Switch, IInv, TypeOK
<1>4. {up, down, up1, up2, down1, down2}' \subseteq BOOLEAN
  BY <1>1, <1>2 DEF panel, IInv, TypeOK
<1>5. QED BY <1>1, <1>3, <1>4 DEF panel, IInv, TypeOK, Edges

\* The invariant holds in every reachable state.
LEMMA Invariance == Spec => []IInv
<1>1. ASSUME IInv, [Next]_vars PROVE IInv'
  <2>1. CASE UNCHANGED vars
    BY <1>1, <2>1 DEF vars, IInv, TypeOK, Edges
  <2>2. QED BY <1>1, <2>1, ClockInv, UserInv DEF Next
<1>2. IInv /\ [Next]_vars => IInv'
  BY <1>1
<1>3. QED BY <1>2, InitInv, PTL DEF Spec

\* Every register keeps its type: no level leaves its range.
THEOREM TypeCorrect == Spec => []TypeOK
<1>1. IInv => TypeOK
  BY DEF IInv
<1>2. QED BY <1>1, Invariance, PTL

\* However long a key is held, the panel counts the press once, within two
\* clocks.
THEOREM PressCountsOnce == Spec => []OneStepPerPress
<1>1. IInv => OneStepPerPress
  BY DEF IInv, Edges, Edge, TypeOK, OneStepPerPress
<1>2. QED BY <1>1, Invariance, PTL

\* No level wraps around or moves while another parameter is selected, and
\* both keys clear the one that is, whatever edges come at the same clock.
THEOREM LevelsDoNotJump == Spec => NoJumps
<1> DEFINE Step == /\ \A p \in Params :
                          level'[p] = level[p] \/
                          /\ p = SELECT
                          /\ IF up /\ down THEN level'[p] = 0
                             ELSE level'[p] \in level[p] - 1 .. level[p] + 1
                   /\ Clock /\ up /\ down /\ SELECT \in Params =>
                          level'[SELECT] = 0
<1>1. ASSUME IInv, Next PROVE Step
  <2>1. CASE Clock
    <3>1. \A p \in Params :
              level'[p] = IF p = SELECT THEN NextLevel(p) ELSE level[p]
      BY <2>1 DEF Clock
    <3>2. \A p \in Params :
              IF up /\ down THEN NextLevel(p) = 0
              ELSE NextLevel(p) \in level[p] - 1 .. level[p] + 1
      BY <1>1, NextLevelBounds DEF IInv
    <3>3. QED BY <3>1, <3>2
  <2>2. CASE ~Clock
    <3>1. level' = level
      BY <1>1, <2>2 DEF Next, Press0, Release0, Press1, Release1, Switch, panel
    <3>2. QED BY <2>2, <3>1
  <2>3. QED BY <2>1, <2>2
<1>2. IInv /\ [Next]_vars => [Step]_vars
  BY <1>1
<1>3. QED BY <1>2, Invariance, PTL DEF Spec, NoJumps
-----------------------------------------------------------------------------
(* The screen of PanelDisplay.  The panel counts a press when it has been  *)
(* held for two clocks, the program when it is released: in between the    *)
(* program owes the screen a step.                                         *)

Stepped(l) == [p \in Params |-> IF p = SELECT /\ l[p] < Top[p] THEN l[p] + 1 ELSE l[p]]
Lowered(l) == [p \in Params |-> IF p = SELECT /\ l[p] > 0 THEN l[p] - 1 ELSE l[p]]

UpAtRest == ~up /\ ~up1 /\ ~up2 /\ key0_pressed
DownAtRest == ~down /\ ~down1 /\ ~down2 /\ key1_pressed

UpOwed == (up /\ up2) \/ (~up /\ ~key0_pressed)
DownOwed == (down /\ down2) \/ (~down /\ ~key1_pressed)

\* Neither key reads as held when the program starts: it counts up and then
\* down again.
Started == /\ ~up /\ ~up1 /\ ~up2 /\ ~down /\ ~down1 /\ ~down2
           /\ select = SELECT /\ ~key1_pressed
           /\ level = [p \in Params |-> 0]
           /\ \/ pc \in {"switches", "key0"} /\ ~key0_pressed /\ screen = level
              \/ pc = "key1" /\ key0_pressed /\ screen = Stepped(level)

\* One key at most is on its way through panel and program.
Working == /\ UpAtRest \/ DownAtRest
           /\ select # SELECT => UpAtRest /\ DownAtRest
           /\ (up2 => up1) /\ (~up => up1 = up2)
           /\ (down2 => down1) /\ (~down => down1 = down2)
           /\ level = IF UpOwed THEN Stepped(screen)
                      ELSE IF DownOwed THEN Lowered(screen) ELSE screen

DIInv == DTypeOK /\ IInv /\ (orderly => Started \/ Working)

\* Counting up or down keeps the screen within the levels' ranges.
LEMMA ShownTypes ==
    ASSUME DTypeOK
    PROVE  \A s \in {ShownUp, ShownDown} :
              s \in [Params -> Nat] /\ \A p \in Params : s[p] <= Top[p]
<1>1. \A p \in Params : screen[p] \in Nat /\ Top[p] \in Nat /\ screen[p] <= Top[p]
  BY PanelAssumption DEF DTypeOK
<1>2. ShownUp \in [Params -> Nat] /\ \A p \in Params : ShownUp[p] <= Top[p]
  BY <1>1 DEF ShownUp
<1>3. ShownDown \in [Params -> Nat] /\ \A p \in Params : ShownDown[p] <= Top[p]
  BY <1>1 DEF ShownDown
<1>4. QED BY <1>2, <1>3

\* The program's count is that of the panel under the same switches.
LEMMA ShownSteps ==
    ASSUME select = SELECT
    PROVE  ShownUp = Stepped(screen) /\ ShownDown = Lowered(screen)
  BY DEF ShownUp, ShownDown, Stepped, Lowered

\* From level 0, a count up and a count down cancel.
LEMMA StartCancels ==
    ASSUME select = SELECT, level = [p \in Params |-> 0], screen = Stepped(level)
    PROVE  ShownDown = level
<1>1. \A p \in Params : Top[p] \in Nat /\ Top[p] > 0
  BY PanelAssumption
<1>2. \A p \in Params : screen[p] = IF p = SELECT THEN 1 ELSE 0
  BY <1>1 DEF Stepped
<1>3. \A p \in Params : ShownDown[p] = 0
  BY <1>2 DEF ShownDown
<1>4. QED BY <1>3 DEF ShownDown

LEMMA DInitInv == DInit => DIInv
<1> SUFFICES ASSUME DInit PROVE DIInv
  OBVIOUS
<1>1. IInv
  BY InitInv DEF DInit
<1>2. \A p \in Params : Top[p] \in Nat
  BY PanelAssumption
<1>3. DTypeOK
  <2>1. TypeOK /\ select \in Selects
    BY <1>1 DEF IInv, TypeOK, DInit
  <2>2. screen \in [Params -> Nat] /\ \A p \in Params : screen[p] <= Top[p]
    BY <1>2 DEF DInit
  <2>3. QED BY <2>1, <2>2 DEF DInit, DTypeOK
<1>4. Started
  BY DEF DInit, Init, Started
<1>5. QED BY <1>1, <1>3, <1>4 DEF DIInv

\* The program's steps leave the panel alone.
LEMMA ProgramInv == ASSUME DIInv, Program PROVE DIInv'
<1>1. /\ UNCHANGED <<up, down, SELECT, up1, up2, down1, down2, level, ups, downs, orderly>>
      /\ pc' \in {"switches", "key0", "key1", "rearm0", "rearm1"}
  BY DEF Program, ReadSwitches, ReadKey0, ReadKey1, Rearm0, Rearm1, Goto, user, panel
<1>2. IInv' /\ TypeOK'
  BY <1>1 DEF DIInv, IInv, TypeOK, Edges
<1>3. DTypeOK /\ select' \in Selects
  BY DEF Program, ReadSwitches, ReadKey0, ReadKey1, Rearm0, Rearm1, DIInv, DTypeOK, TypeOK
<1>4. key0_pressed' \in BOOLEAN /\ key1_pressed' \in BOOLEAN
  BY <1>3 DEF Program, ReadSwitches, ReadKey0, ReadKey1, Rearm0, Rearm1, Rearmed, DTypeOK
<1>5. screen' \in [Params -> Nat] /\ \A p \in Params : screen'[p] <= Top[p]
  <2>1. screen' \in {screen, ShownUp, ShownDown}
    BY DEF Program, ReadSwitches, ReadKey0, ReadKey1, Rearm0, Rearm1
  <2>2. QED BY <1>3, <2>1, ShownTypes DEF DTypeOK
<1>6. DTypeOK'
  BY <1>1, <1>2, <1>3, <1>4, <1>5 DEF DTypeOK
<1>7. ASSUME orderly, Started PROVE (Started \/ Working)'
  <2>1. CASE ReadSwitches
    BY <1>1, <1>7, <2>1 DEF ReadSwitches, Goto, Started
  <2>2. CASE ReadKey0
    <3>1. ~key0_pressed /\ screen = level /\ select = SELECT /\ ~up
      BY <1>7, <2>2 DEF ReadKey0, Started
    <3>2. key0_pressed' = TRUE /\ screen' = Stepped(level) /\ pc' = "key1"
      BY <2>2, <3>1, ShownSteps DEF ReadKey0, Goto
    <3>3. Stepped(level)' = Stepped(level)
      BY <1>1 DEF Stepped
    <3>4. /\ ~up' /\ ~up1' /\ ~up2' /\ ~down' /\ ~down1' /\ ~down2'
          /\ select' = SELECT' /\ ~key1_pressed' /\ level' = [p \in Params |-> 0]
      BY <1>1, <1>7, <2>2 DEF ReadKey0, Started
    <3>5. pc' = "key1" /\ key0_pressed' /\ screen' = Stepped(level)'
      BY <3>2, <3>3
    <3>6. Started'
      BY <3>4, <3>5 DEF Started
    <3>7. QED BY <3>6
  <2>3. CASE ReadKey1
    <3>1. key0_pressed /\ screen = Stepped(level) /\ select = SELECT /\ ~down /\ ~key1_pressed
      BY <1>7, <2>3 DEF ReadKey1, Started
    <3>2. key1_pressed' = TRUE /\ screen' = level /\ key0_pressed' = key0_pressed
      BY <1>7, <2>3, <3>1, StartCancels DEF ReadKey1, Started
    <3>3. UpAtRest' /\ DownAtRest' /\ ~UpOwed' /\ ~DownOwed'
      BY <1>1, <1>7, <3>1, <3>2 DEF Started, UpAtRest, DownAtRest, UpOwed, DownOwed
    <3>4. /\ ~up' /\ ~up1' /\ ~up2' /\ ~down' /\ ~down1' /\ ~down2'
          /\ select' = SELECT' /\ level' = screen'
      BY <1>1, <1>7, <2>3, <3>2 DEF ReadKey1, Started
    <3>5. up1' = up2' /\ down1' = down2'
      BY <1>2, <3>4 DEF TypeOK
    <3>6. Working'
      BY <3>3, <3>4, <3>5, Zenon DEF Working
    <3>7. QED BY <3>6
  <2>4. QED BY <1>7, <2>1, <2>2, <2>3 DEF Program, Rearm0, Rearm1, Started
<1>8. ASSUME orderly, Working PROVE Working'
  <2>1. Stepped(screen)' = [p \in Params |-> IF p = SELECT /\ screen'[p] < Top[p]
                                              THEN screen'[p] + 1 ELSE screen'[p]]
    BY <1>1 DEF Stepped
  <2>2. screen' = screen => /\ Stepped(screen)' = Stepped(screen)
                            /\ Lowered(screen)' = Lowered(screen)
    BY <1>1 DEF Stepped, Lowered
  <2>3. CASE ReadSwitches
    BY <1>1, <1>8, <2>2, <2>3
       DEF ReadSwitches, Working, UpAtRest, DownAtRest, UpOwed, DownOwed
  <2>4. CASE ReadKey0
    <3>1. CASE ~up /\ ~key0_pressed
      <4>1. UpOwed /\ DownAtRest /\ select = SELECT
        BY <1>8, <3>1 DEF Working, UpOwed, UpAtRest
      <4>2. level = Stepped(screen) /\ screen' = Stepped(screen)
        BY <1>8, <2>4, <3>1, <4>1, ShownSteps DEF Working, ReadKey0
      <4>3. key0_pressed' = TRUE /\ key1_pressed' = key1_pressed /\ select' = select
        BY <2>4, <3>1 DEF ReadKey0
      <4>4. ~UpOwed' /\ ~DownOwed' /\ DownAtRest'
        BY <1>1, <3>1, <4>1, <4>3 DEF UpOwed, DownOwed, DownAtRest
      <4>5. QED BY <1>1, <1>8, <4>1, <4>2, <4>3, <4>4 DEF Working
    <3>2. CASE ~(~up /\ ~key0_pressed)
      BY <1>1, <1>8, <2>2, <2>4, <3>2
         DEF ReadKey0, Working, UpAtRest, DownAtRest, UpOwed, DownOwed
    <3>3. QED BY <3>1, <3>2
  <2>5. CASE ReadKey1
    <3>1. CASE ~down /\ ~key1_pressed
      <4>1. DownOwed /\ UpAtRest /\ ~UpOwed /\ select = SELECT
        BY <1>8, <3>1 DEF Working, DownOwed, UpOwed, UpAtRest, DownAtRest
      <4>2. level = Lowered(screen) /\ screen' = Lowered(screen)
        BY <1>8, <2>5, <3>1, <4>1, ShownSteps DEF Working, ReadKey1
      <4>3. key1_pressed' = TRUE /\ key0_pressed' = key0_pressed /\ select' = select
        BY <2>5, <3>1 DEF ReadKey1
      <4>4. ~UpOwed' /\ ~DownOwed' /\ UpAtRest'
        BY <1>1, <3>1, <4>1, <4>3 DEF UpOwed, DownOwed, UpAtRest
      <4>5. QED BY <1>1, <1>8, <4>1, <4>2, <4>3, <4>4 DEF Working
    <3>2. CASE ~(~down /\ ~key1_pressed)
      BY <1>1, <1>8, <2>2, <2>5, <3>2
         DEF ReadKey1, Working, UpAtRest, DownAtRest, UpOwed, DownOwed
    <3>3. QED BY <3>1, <3>2
  <2>6. CASE Rearm0
    <3>1. /\ key0_pressed' = (key0_pressed /\ ~up) /\ screen' = screen
          /\ key1_pressed' = key1_pressed /\ select' = select
      BY <2>6 DEF Rearm0, Rearmed
    <3>2. UpOwed' = UpOwed /\ DownOwed' = DownOwed
      BY <1>1, <3>1 DEF UpOwed, DownOwed
    <3>3. (UpAtRest => UpAtRest') /\ (DownAtRest => DownAtRest')
      BY <1>1, <3>1 DEF UpAtRest, DownAtRest
    <3>4. QED BY <1>1, <1>8, <2>2, <3>1, <3>2, <3>3 DEF Working
  <2>7. CASE Rearm1
    <3>1. /\ key1_pressed' = (key1_pressed /\ ~down) /\ screen' = screen
          /\ key0_pressed' = key0_pressed /\ select' = select
      BY <2>7 DEF Rearm1, Rearmed
    <3>2. UpOwed' = UpOwed /\ DownOwed' = DownOwed
      BY <1>1, <3>1 DEF UpOwed, DownOwed
    <3>3. (UpAtRest => UpAtRest') /\ (DownAtRest => DownAtRest')
      BY <1>1, <3>1 DEF UpAtRest, DownAtRest
    <3>4. QED BY <1>1, <1>8, <2>2, <3>1, <3>2, <3>3 DEF Working
  <2>8. QED BY <2>3, <2>4, <2>5, <2>6, <2>7 DEF Program
<1>9. QED BY <1>1, <1>2, <1>6, <1>7, <1>8 DEF DIInv

\* A clock edge counts the press the program will count.
LEMMA TickInv == ASSUME DIInv, Tick PROVE DIInv'
<1>1. /\ Clock /\ UNCHANGED <<pc, select, key0_pressed, key1_pressed, screen, orderly>>
      /\ UNCHANGED <<up, down, SELECT>>
      /\ up1' = up /\ up2' = (up /\ up1) /\ down1' = down /\ down2' = (down /\ down1)
      /\ level' = [p \in Params |-> IF p = SELECT THEN NextLevel(p) ELSE level[p]]
  BY DEF Tick, program, Clock, user
<1>2. IInv' /\ TypeOK'
  BY <1>1, ClockInv DEF DIInv, IInv
<1>3. DTypeOK'
  BY <1>1, <1>2 DEF DIInv, DTypeOK
<1>4. level \in [Params -> Nat] /\ \A p \in Params : Top[p] \in Nat /\ level[p] <= Top[p]
  BY PanelAssumption DEF DIInv, IInv, TypeOK
<1>5. up \in BOOLEAN /\ up1 \in BOOLEAN /\ down \in BOOLEAN /\ down1 \in BOOLEAN
  BY DEF DIInv, IInv, TypeOK
<1>6. ~add /\ ~subtract /\ ~(up /\ down) => level' = level
  <2>1. ASSUME ~add, ~subtract, ~(up /\ down), NEW p \in Params PROVE NextLevel(p) = level[p]
    BY <2>1 DEF NextLevel
  <2>2. QED BY <1>1, <1>4, <2>1
<1>7. ASSUME orderly, Started PROVE Started'
  <2>1. level' = level
    BY <1>6, <1>7 DEF Started, add, subtract
  <2>2. Stepped(level)' = Stepped(level)
    BY <1>1, <2>1 DEF Stepped
  <2>3. QED BY <1>1, <1>7, <2>1, <2>2 DEF Started
<1>8. ASSUME orderly, Working PROVE Working'
  <2>1. Stepped(screen)' = Stepped(screen) /\ Lowered(screen)' = Lowered(screen)
    BY <1>1 DEF Stepped, Lowered
  <2>2. ~(up /\ down) /\ ~(add /\ subtract)
    BY <1>8 DEF Working, UpAtRest, DownAtRest, add, subtract
  <2>3. CASE add
    <3>1. up /\ DownAtRest /\ select = SELECT /\ ~UpOwed /\ ~DownOwed /\ ~subtract
      BY <1>8, <2>3
         DEF Working, UpAtRest, DownAtRest, UpOwed, DownOwed, add, subtract
    <3>2. level = screen
      BY <1>8, <3>1 DEF Working
    <3>3. level' = Stepped(screen)
      <4>1. ASSUME NEW p \in Params
            PROVE  NextLevel(p) = IF level[p] # Top[p] THEN level[p] + 1 ELSE level[p]
        BY <2>2, <2>3, <3>1 DEF NextLevel
      <4>2. QED BY <1>1, <1>4, <3>2, <4>1 DEF Stepped
    <3>4. up1 /\ up1' /\ up2' /\ UpOwed' /\ DownAtRest'
      BY <1>1, <2>3, <3>1 DEF add, UpOwed, DownAtRest
    <3>5. level' = Stepped(screen)' /\ select' = SELECT'
      BY <1>1, <2>1, <3>1, <3>3
    <3>6. /\ (up2' => up1') /\ (~up' => up1' = up2')
          /\ (down2' => down1') /\ (~down' => down1' = down2')
      BY <1>1, <1>5
    <3>7. QED BY <3>4, <3>5, <3>6, Zenon DEF Working
  <2>4. CASE subtract
    <3>1. down /\ UpAtRest /\ select = SELECT /\ ~UpOwed /\ ~DownOwed /\ ~add
      BY <1>8, <2>4
         DEF Working, UpAtRest, DownAtRest, UpOwed, DownOwed, add, subtract
    <3>2. level = screen
      BY <1>8, <3>1 DEF Working
    <3>3. level' = Lowered(screen)
      <4>1. ASSUME NEW p \in Params
            PROVE  NextLevel(p) = IF level[p] # 0 THEN level[p] - 1 ELSE level[p]
        BY <2>2, <2>4, <3>1 DEF NextLevel
      <4>2. QED BY <1>1, <1>4, <3>2, <4>1 DEF Lowered
    <3>4. down1 /\ down1' /\ down2' /\ ~UpOwed' /\ DownOwed' /\ UpAtRest'
      BY <1>1, <2>4, <3>1 DEF subtract, UpOwed, DownOwed, UpAtRest
    <3>5. level' = Lowered(screen)' /\ select' = SELECT'
      BY <1>1, <2>1, <3>1, <3>3
    <3>6. /\ (up2' => up1') /\ (~up' => up1' = up2')
          /\ (down2' => down1') /\ (~down' => down1' = down2')
      BY <1>1, <1>5
    <3>7. QED BY <3>4, <3>5, <3>6, Zenon DEF Working
  <2>5. CASE ~add /\ ~subtract
    <3>1. level' = level
      BY <1>6, <2>2, <2>5
    <3>2. (up /\ up2') <=> (up /\ up2)
      BY <1>1, <1>8, <2>5 DEF Working, add
    <3>3. (down /\ down2') <=> (down /\ down2)
      BY <1>1, <1>8, <2>5 DEF Working, subtract
    <3>4. (UpOwed' <=> UpOwed) /\ (DownOwed' <=> DownOwed)
      BY <1>1, <3>2, <3>3 DEF UpOwed, DownOwed
    <3>5. (UpAtRest => UpAtRest') /\ (DownAtRest => DownAtRest')
      BY <1>1 DEF UpAtRest, DownAtRest
    <3>6. level' = IF UpOwed' THEN Stepped(screen)'
                   ELSE IF DownOwed' THEN Lowered(screen)' ELSE screen'
      BY <1>1, <1>8, <2>1, <3>1, <3>4 DEF Working
    <3>7. (UpAtRest' \/ DownAtRest') /\ (select' # SELECT' => UpAtRest' /\ DownAtRest')
      BY <1>1, <1>8, <3>5 DEF Working
    <3>8. /\ (up2' => up1') /\ (~up' => up1' = up2')
          /\ (down2' => down1') /\ (~down' => down1' = down2')
      BY <1>1, <1>5
    <3>9. QED BY <3>6, <3>7, <3>8, Zenon DEF Working
  <2>6. QED BY <2>3, <2>4, <2>5
<1>9. QED BY <1>1, <1>2, <1>3, <1>7, <1>8 DEF DIInv

\* An orderly move starts when panel and program have settled.
LEMMA MoveInv == ASSUME DIInv, User PROVE DIInv'
<1>1. /\ UNCHANGED <<pc, select, key0_pressed, key1_pressed, screen>>
      /\ Press0 \/ Release0 \/ Press1 \/ Release1 \/ Switch
      /\ UNCHANGED <<up1, up2, down1, down2, level, ups, downs>>
      /\ orderly' \in BOOLEAN
  BY DEF User, Move, program, Press0, Release0, Press1, Release1, Switch, panel,
         DIInv, DTypeOK
<1>2. IInv' /\ TypeOK'
  BY <1>1, UserInv DEF DIInv, IInv
<1>3. DTypeOK'
  BY <1>1, <1>2 DEF DIInv, DTypeOK
<1>4. ASSUME orderly' PROVE Working'
  <2>1. orderly /\ Settled
    BY <1>4 DEF User, Move, DIInv, DTypeOK
  <2>2. Working /\ select = SELECT
    BY <2>1 DEF DIInv, Started, Settled
  <2>3. /\ up1 = up /\ up2 = up /\ down1 = down /\ down2 = down
        /\ key0_pressed = ~up /\ key1_pressed = ~down
    BY <2>1 DEF Settled
  <2>4. SELECT' = SELECT => /\ Stepped(screen)' = Stepped(screen)
                            /\ Lowered(screen)' = Lowered(screen)
    BY <1>1 DEF Stepped, Lowered
  <2>5. CASE Press0 /\ ~down
    BY <1>1, <2>2, <2>3, <2>4, <2>5
       DEF Press0, Working, UpAtRest, DownAtRest, UpOwed, DownOwed
  <2>6. CASE Release0
    BY <1>1, <2>2, <2>3, <2>4, <2>6
       DEF Release0, Working, UpAtRest, DownAtRest, UpOwed, DownOwed
  <2>7. CASE Press1 /\ ~up
    BY <1>1, <2>2, <2>3, <2>4, <2>7
       DEF Press1, Working, UpAtRest, DownAtRest, UpOwed, DownOwed
  <2>8. CASE Release1
    BY <1>1, <2>2, <2>3, <2>4, <2>8
       DEF Release1, Working, UpAtRest, DownAtRest, UpOwed, DownOwed
  <2>9. CASE Switch /\ ~up /\ ~down
    BY <1>1, <2>2, <2>3, <2>9
       DEF Switch, Working, UpAtRest, DownAtRest, UpOwed, DownOwed
  <2>10. QED BY <1>4, <2>5, <2>6, <2>7, <2>8, <2>9 DEF User, Move
<1>5. QED BY <1>2, <1>3, <1>4 DEF DIInv

LEMMA DInvariance == DSpec => []DIInv
<1>1. ASSUME DIInv, [DNext]_all PROVE DIInv'
  <2>1. CASE UNCHANGED all
    BY <1>1, <2>1
       DEF all, DIInv, DTypeOK, IInv, TypeOK, Edges, Started, Working, Stepped, Lowered,
           UpAtRest, DownAtRest, UpOwed, DownOwed
  <2>2. QED BY <1>1, <2>1, ProgramInv, TickInv, MoveInv DEF DNext
<1>2. DIInv /\ [DNext]_all => DIInv'
  BY <1>1
<1>3. QED BY <1>2, DInitInv, PTL DEF DSpec

\* However the user plays with the keys, no level on the screen leaves the
\* range of its parameter.
THEOREM ScreenInRange == DSpec => []DTypeOK
<1>1. DIInv => DTypeOK
  BY DEF DIInv
<1>2. QED BY <1>1, DInvariance, PTL

\* For every set of parameters and every pace of clock and program, an
\* orderly user who lets go of the keys sees the levels of the panel.
THEOREM ScreenShowsLevels == DSpec => []ScreenAgrees
<1>1. DIInv => ScreenAgrees
  BY DEF DIInv, ScreenAgrees, Settled, Started, Working, UpOwed, DownOwed
<1>2. QED BY <1>1, DInvariance, PTL

-----------------------------------------------------------------------------
(* The delay pedal, for rings of any size, any set of taps shorter than    *)
(* the ring and words of any width.                                        *)

DelayIInv == DelayTypeOK /\ Pipeline

-----------------------------------------------------------------------------
(* Addresses and words.                                                    *)

\* Going back less than the whole ring stays in the ring and leaves the cell.
LEMMA MinusAddress ==
    ASSUME NEW a \in Addresses, NEW k \in 1 .. N - 1
    PROVE  Minus(a, k) \in Addresses /\ Minus(a, k) # a
BY DelayAssumption DEF Minus, Addresses

\* One step ahead and k back is k - 1 back.
LEMMA MinusIncrement ==
    ASSUME NEW a \in Addresses
    PROVE  /\ Increment(a) \in Addresses
           /\ Minus(Increment(a), 1) = a
           /\ \A k \in 2 .. N - 1 : Minus(Increment(a), k) = Minus(a, k - 1)
<1>1. CASE a = N - 1
  BY <1>1, DelayAssumption DEF Minus, Increment, Addresses
<1>2. CASE a # N - 1
  BY <1>2, DelayAssumption DEF Minus, Increment, Addresses
<1>3. QED BY <1>1, <1>2

\* A mixed sample is a word.
LEMMA MixedWord ==
    ASSUME NEW x \in Words, NEW e \in Words
    PROVE  Mix(x, e) \in Words
<1>1. x \in 0 .. T - 1 /\ e \in 0 .. T - 1 /\ T \in Nat \ {0} /\ T % 4 = 0
  BY DelayAssumption DEF Words
<1>2. Quarter(e) \in 0 .. T - 1
  BY <1>1 DEF Quarter
<1>3. QED BY <1>1, <1>2 DEF Mix, Words

\* The cells the knob may choose are others than the one being written.
LEMMA TappedCells ==
    ASSUME DelayTypeOK, NEW a \in Tapped
    PROVE  a \in Addresses /\ a # writeadd
<1>1. PICK d \in Delays : a = Minus(writeadd, Tap[d])
  BY DEF Tapped, DelayTypeOK
<1>2. Tap[d] \in 1 .. N - 1
  BY DelayAssumption
<1>3. QED BY <1>1, <1>2, MinusAddress DEF DelayTypeOK

LEMMA ReadIsTapped ==
    ASSUME DelayTypeOK PROVE read \in Tapped
BY DEF read, Tapped, DelayTypeOK

-----------------------------------------------------------------------------
(* The invariant.                                                          *)

LEMMA DelayInitInv == DelayInit => DelayIInv
<1> SUFFICES ASSUME DelayInit PROVE DelayIInv
  OBVIOUS
<1>1. 0 \in Addresses /\ 0 \in Words
  BY DelayAssumption DEF Addresses, Words
<1>2. mem \in [Addresses -> Words]
  BY <1>1 DEF DelayInit
<1>3. DelayTypeOK
  <2>1. writeadd \in Addresses /\ raddr \in Addresses
    BY <1>1 DEF DelayInit
  <2>2. data \in Words /\ q \in Words /\ DOUT \in Words
    BY <1>1 DEF DelayInit
  <2>3. age \in 0 .. Latency
    BY DEF DelayInit, Latency
  <2>4. QED BY <1>2, <2>1, <2>2, <2>3 DEF DelayInit, DelayTypeOK
<1>4. Pipeline
  BY DEF DelayInit, Pipeline, Latency
<1>5. QED BY <1>3, <1>4 DEF DelayIInv

\* A clock of the RAM leaves every cell alone but the one being written.
LEMMA OtherCells ==
    ASSUME DelayTypeOK, RamClock, NEW a \in Addresses, a # writeadd
    PROVE  mem'[a] = mem[a]
BY DEF DelayTypeOK, RamClock

LEMMA RamClockInv ==
    ASSUME DelayIInv, RamClock PROVE DelayIInv'
<1> USE DEF Latency
<1>1. DelayTypeOK
  BY DEF DelayIInv
<1>2. /\ Tapped' = Tapped
      /\ writeadd' = writeadd /\ data' = data /\ LRCLK' = LRCLK
  BY DEF RamClock, Tapped
<1>3. \A a \in Tapped : a \in Addresses /\ mem'[a] = mem[a]
  BY <1>1, TappedCells, OtherCells
<1>4. PICK FEEDBACK \in BOOLEAN :
          mem' = IF LRCLK
                 THEN [mem EXCEPT ![writeadd] =
                           IF FEEDBACK THEN Mix(data, q) ELSE data]
                 ELSE mem
  BY DEF RamClock
<1>5. age \in 0 .. 3 /\ age' = IF age = 3 THEN age ELSE age + 1
  BY <1>1 DEF DelayTypeOK, RamClock
<1>6. DelayTypeOK'
  <2>1. Mix(data, q) \in Words
    BY <1>1, MixedWord DEF DelayTypeOK
  <2>2. mem' \in [Addresses -> Words]
    BY <1>1, <1>4, <2>1 DEF DelayTypeOK
  <2>3. q' \in Words
    BY <1>1 DEF DelayTypeOK, RamClock
  <2>4. raddr' \in Addresses
    BY <1>1, ReadIsTapped, TappedCells DEF RamClock
  <2>5. age' \in 0 .. 3
    BY <1>5
  <2>6. QED BY <1>1, <2>2, <2>3, <2>4, <2>5 DEF DelayTypeOK, RamClock
<1>7. raddr' \in Tapped'
  BY <1>1, <1>2, ReadIsTapped DEF RamClock
<1>8. age' >= 2 => q' \in {mem'[a] : a \in Tapped'}
  <2> SUFFICES ASSUME age' >= 2 PROVE q' \in {mem'[a] : a \in Tapped'}
    OBVIOUS
  <2>1. age >= 1
    BY <1>5
  <2>2. raddr \in Tapped /\ q' = mem[raddr]
    BY <2>1 DEF DelayIInv, Pipeline, RamClock
  <2>3. QED BY <1>2, <1>3, <2>2
<1>9. age' = 3 /\ LRCLK' =>
          mem'[writeadd'] \in
              {data'} \cup {Mix(data', mem'[a]) : a \in Tapped'}
  <2> SUFFICES ASSUME age' = 3, LRCLK'
               PROVE  mem'[writeadd'] \in
                          {data'} \cup {Mix(data', mem'[a]) : a \in Tapped'}
    OBVIOUS
  <2>1. age >= 2
    BY <1>5
  <2>2. PICK a \in Tapped : q = mem[a]
    BY <2>1 DEF DelayIInv, Pipeline
  <2>3. mem'[writeadd] \in {Mix(data, q), data}
    BY <1>1, <1>2, <1>4 DEF DelayTypeOK
  <2>4. q = mem'[a]
    BY <1>3, <2>2
  <2>5. QED BY <1>2, <2>2, <2>3, <2>4
<1>10. QED BY <1>6, <1>7, <1>8, <1>9 DEF DelayIInv, Pipeline

LEMMA FallInv ==
    ASSUME DelayIInv, Fall PROVE DelayIInv'
<1>1. DelayTypeOK'
  BY DEF DelayIInv, DelayTypeOK, Fall
<1>2. Tapped' = Tapped
  BY DEF Tapped, Fall
<1>3. Pipeline'
  BY <1>2 DEF DelayIInv, Pipeline, Fall
<1>4. QED BY <1>1, <1>3 DEF DelayIInv

LEMMA RiseInv ==
    ASSUME DelayIInv, NEW x \in Samples, Rise(x) PROVE DelayIInv'
<1>1. DelayTypeOK
  BY DEF DelayIInv
<1>2. x \in Words
  BY DelayAssumption
<1>3. DOUT' \in Words
  BY <1>1, MixedWord DEF DelayTypeOK, Rise
<1>4. writeadd' \in Addresses
  BY <1>1, MinusIncrement DEF DelayTypeOK, Rise
<1>5. DelayTypeOK'
  BY <1>1, <1>2, <1>3, <1>4 DEF DelayTypeOK, Rise, Latency
<1>6. Pipeline'
  BY DEF Rise, Pipeline, Latency
<1>7. QED BY <1>5, <1>6 DEF DelayIInv

LEMMA TurnInv ==
    ASSUME DelayIInv, Turn PROVE DelayIInv'
<1>1. DelayTypeOK'
  BY DEF DelayIInv, DelayTypeOK, Turn
<1>2. Tapped \subseteq Tapped'
  BY DEF DelayIInv, DelayTypeOK, Tapped, Turn
<1>3. /\ age' = age /\ raddr' = raddr /\ q' = q /\ mem' = mem
      /\ LRCLK' = LRCLK /\ writeadd' = writeadd /\ data' = data
  BY DEF Turn
<1>4. Pipeline'
  BY <1>2, <1>3 DEF DelayIInv, Pipeline
<1>5. QED BY <1>1, <1>4 DEF DelayIInv

LEMMA DelayNextInv == DelayIInv /\ [DelayNext]_delayVars => DelayIInv'
<1> SUFFICES ASSUME DelayIInv, [DelayNext]_delayVars PROVE DelayIInv'
  OBVIOUS
<1>1. CASE UNCHANGED delayVars
  BY <1>1 DEF delayVars, DelayIInv, DelayTypeOK, Pipeline, Tapped
<1>2. QED BY <1>1, RamClockInv, FallInv, RiseInv, TurnInv DEF DelayNext

LEMMA DelayInvariant == DelaySpec => []DelayIInv
BY DelayInitInv, DelayNextInv, PTL DEF DelaySpec

\* The variables have their types.
THEOREM DelayTypes == DelaySpec => []DelayTypeOK
<1>1. DelayIInv => DelayTypeOK
  BY DEF DelayIInv
<1>2. QED BY DelayInvariant, <1>1, PTL

\* Whatever the size of the ring and the taps, the RAM's registers and the cell
\* being written hold what belongs to the sample under way (delay.sv 11-46,
\* Spoogus.v 68-111).
THEOREM DelayPipeline == DelaySpec => []Pipeline
<1>1. DelayIInv => Pipeline
  BY DEF DelayIInv
<1>2. QED BY DelayInvariant, <1>1, PTL

-----------------------------------------------------------------------------
(* Refinement.                                                             *)

\* The samples stored so far, as EchoLine sees them.
Past == [k \in 1 .. N - 1 |-> mem[Minus(writeadd, k)]]

\* The knob's choices are the same for both.
LEMMA SameEchoes ==
    ASSUME DelayTypeOK PROVE Echo!Echoes = {mem[a] : a \in Tapped}
<1> DEFINE D == IF steady THEN {DELAYTIME} ELSE Delays
<1>1. D \subseteq Delays
  BY DEF DelayTypeOK
<1>2. \A d \in D : Tap[d] \in 1 .. N - 1
  BY <1>1, DelayAssumption
<1>3. \A d \in D : Past[Tap[d]] = mem[Minus(writeadd, Tap[d])]
  BY <1>2 DEF Past
<1>4. Echo!Echoes = {Past[Tap[d]] : d \in D}
  BY DEF Echo!Echoes, Past
<1>5. Tapped = {Minus(writeadd, Tap[d]) : d \in D}
  BY DEF Tapped
<1> HIDE DEF D
<1>6. {Past[Tap[d]] : d \in D} = {mem[Minus(writeadd, Tap[d])] : d \in D}
  BY <1>3
<1>7. {mem[Minus(writeadd, Tap[d])] : d \in D} = {mem[a] : a \in Tapped}
  BY <1>5
<1>8. QED BY <1>4, <1>6, <1>7

LEMMA DelayInitRefined == DelayInit => Echo!Init
<1> SUFFICES ASSUME DelayInit PROVE Echo!Init
  OBVIOUS
<1>1. \A k \in 1 .. N - 1 : Minus(writeadd, k) \in Addresses
  <2>1. writeadd \in Addresses
    BY DelayAssumption DEF DelayInit, Addresses
  <2>2. QED BY <2>1, MinusAddress
<1>2. Past = [k \in 1 .. N - 1 |-> 0]
  BY <1>1 DEF Past, DelayInit
<1>3. mem[writeadd] = 0
  BY DelayAssumption DEF DelayInit, Addresses
<1>4. QED BY <1>2, <1>3 DEF DelayInit, Echo!Init, Past

LEMMA RamClockRefined ==
    ASSUME DelayIInv, RamClock PROVE UNCHANGED Echo!vars
<1>1. DelayTypeOK /\ writeadd \in Addresses
  BY DEF DelayIInv, DelayTypeOK
<1>2. /\ writeadd' = writeadd /\ LRCLK' = LRCLK /\ data' = data
      /\ DOUT' = DOUT /\ DELAYTIME' = DELAYTIME /\ steady' = steady
  BY DEF RamClock
<1>3. \A k \in 1 .. N - 1 : mem'[Minus(writeadd, k)] = mem[Minus(writeadd, k)]
  BY <1>1, MinusAddress, OtherCells
<1>4. Past' = Past
  BY <1>2, <1>3 DEF Past
<1>5. ~LRCLK => mem'[writeadd] = mem[writeadd]
  BY DEF RamClock
<1>6. QED BY <1>2, <1>4, <1>5 DEF Echo!vars, Past

LEMMA FallRefined ==
    ASSUME DelayIInv, Fall PROVE Echo!Store
<1>1. DelayTypeOK
  BY DEF DelayIInv
<1>2. LRCLK /\ age = Latency /\ LRCLK' = FALSE
  BY DEF Fall
<1>3. mem[writeadd] \in {data} \cup {Mix(data, mem[a]) : a \in Tapped}
  BY <1>2 DEF DelayIInv, Pipeline
<1>4. mem' = mem /\ writeadd' = writeadd /\ data' = data /\ DOUT' = DOUT
      /\ DELAYTIME' = DELAYTIME /\ steady' = steady
  BY DEF Fall
<1>5. Past' = Past
  BY <1>4 DEF Past
<1>6. CASE mem[writeadd] = data
  BY <1>2, <1>4, <1>5, <1>6 DEF Echo!Store, Past
<1>7. CASE mem[writeadd] # data
  <2>1. PICK a \in Tapped : mem[writeadd] = Mix(data, mem[a])
    BY <1>3, <1>7
  <2>2. mem[a] \in Echo!Echoes
    BY <1>1, SameEchoes
  <2>3. QED BY <1>2, <1>4, <1>5, <2>1, <2>2 DEF Echo!Store, Past
<1>8. QED BY <1>6, <1>7

LEMMA RiseRefined ==
    ASSUME DelayIInv, NEW x \in Samples, Rise(x) PROVE Echo!Arrive
<1>1. DelayTypeOK /\ writeadd \in Addresses
  BY DEF DelayIInv, DelayTypeOK
<1>2. /\ ~LRCLK /\ LRCLK' = TRUE /\ age = Latency
      /\ writeadd' = Increment(writeadd)
      /\ mem' = mem /\ data' = x /\ steady' = TRUE /\ DELAYTIME' = DELAYTIME
  BY DEF Rise
<1>3. q \in Echo!Echoes
  <2>1. q \in {mem[a] : a \in Tapped}
    BY <1>2 DEF DelayIInv, Pipeline, Latency
  <2>2. QED BY <1>1, <2>1, SameEchoes
<1>4. DOUT' = data \/ \E e \in Echo!Echoes : DOUT' = Mix(data, e)
  BY <1>3 DEF Rise
<1>5. Past' = [k \in 1 .. N - 1 |->
                   IF k = 1 THEN mem[writeadd] ELSE Past[k - 1]]
  <2>1. ASSUME NEW k \in 1 .. N - 1
        PROVE  mem'[Minus(writeadd', k)] =
                   IF k = 1 THEN mem[writeadd] ELSE Past[k - 1]
    <3>1. CASE k = 1
      BY <1>1, <1>2, <3>1, MinusIncrement
    <3>2. CASE k # 1
      <4>1. k \in 2 .. N - 1 /\ k - 1 \in 1 .. N - 1
        BY <3>2, DelayAssumption
      <4>2. Minus(writeadd', k) = Minus(writeadd, k - 1)
        BY <1>1, <1>2, <4>1, MinusIncrement
      <4>3. Past[k - 1] = mem[Minus(writeadd, k - 1)]
        BY <4>1 DEF Past
      <4>4. QED BY <1>2, <3>2, <4>2, <4>3
    <3>3. QED BY <3>1, <3>2
  <2>2. QED BY <2>1 DEF Past
<1>6. QED BY <1>2, <1>4, <1>5 DEF Echo!Arrive, Past

LEMMA TurnRefined ==
    ASSUME Turn PROVE Echo!Turn
BY DEF Turn, Echo!Turn

LEMMA DelayStepRefined == DelayIInv /\ [DelayNext]_delayVars => [Echo!Next]_(Echo!vars)
<1> SUFFICES ASSUME DelayIInv, [DelayNext]_delayVars
             PROVE  [Echo!Next]_(Echo!vars)
  OBVIOUS
<1>1. CASE RamClock
  BY <1>1, RamClockRefined
<1>2. CASE Fall
  BY <1>2, FallRefined DEF Echo!Next
<1>3. ASSUME NEW x \in Samples, Rise(x)
      PROVE  [Echo!Next]_(Echo!vars)
  BY <1>3, RiseRefined DEF Echo!Next
<1>4. CASE Turn
  BY <1>4, TurnRefined DEF Echo!Next
<1>5. CASE UNCHANGED delayVars
  BY <1>5 DEF delayVars, Echo!vars
<1>6. QED BY <1>1, <1>2, <1>3, <1>4, <1>5 DEF DelayNext

\* Whatever the size of the ring, the taps and the width of the samples, the
\* delay pedal implements EchoLine.
THEOREM DelayImplementsEcho == DelaySpec => EchoSpec
BY DelayInvariant, DelayInitRefined, DelayStepRefined, PTL
   DEF DelaySpec, EchoSpec, Echo!Spec
=============================================================================
