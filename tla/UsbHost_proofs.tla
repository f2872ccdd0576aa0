--------------------------- MODULE UsbHost_proofs ---------------------------
(***************************************************************************)
(* Proofs about UsbHost, for every number of slots and every set of        *)
(* devices.                                                                *)
(***************************************************************************)
EXTENDS UsbHost, TLAPS

\* The slots in use are 1 .. k.
Prefix == \E k \in Nat : \A i \in Slots : epinfo[i] # "NULL" <=> i <= k

\* Slot a is the one allocated last.
Newest(a) == /\ a \in Slots
             /\ epinfo[a] # "NULL"
             /\ \A i \in Slots : i > a => epinfo[i] = "NULL"

\* The device being configured has the newest slot.
ConfiguresNewest == usb_task_state = CONFIGURING => Newest(tmp_addr)

\* MAX3421E_init leaves no enumeration that could finish.
NothingRuns == pc = "resetAck" =>
                   usb_task_state \in {INITIALIZE, WAIT_FOR_DEVICE, ILLEGAL,
                                       ATTACHED, WAIT_RESET}

\* runningdebugflag survives a disconnection until the end of the turn, which
\* no enumeration reaches the end of.
FlagTells ==
    /\ pc \in {"reset", "resetAck"} => ~runningdebugflag
    /\ runningdebugflag =>
          \/ usb_task_state = RUNNING
          \/ /\ pc \in {"ack", "usb"}
             /\ usb_task_state \in {INITIALIZE, 2, ILLEGAL, 5, ATTACHED, SETTLE}
          \/ /\ pc = "app"
             /\ usb_task_state \in {2, WAIT_FOR_DEVICE, ILLEGAL, 5, SETTLE,
                                    RESET_DEVICE}
    /\ pc = "task" /\ usb_task_state = RUNNING => runningdebugflag
    /\ led9 <=> runningdebugflag

\* TypeOK in the two parts that the steps change separately.
HostTypes ==
    /\ pc \in {"task", "ack", "usb", "app", "reset", "resetAck"}
    /\ usb_task_state \in Acting \cup {2, WAIT_FOR_DEVICE, ILLEGAL, 5, RUNNING,
                                       ERROR}
    /\ epinfo \in [Slots -> {"NULL", "dev0ep", "hid_ep"}]
    /\ devclass \in [Slots -> {0, HID_K, HID_M}]
    /\ hidAddr \in Slots \cup {0}
    /\ tmp_addr \in Slots \cup {0}
    /\ runningdebugflag \in BOOLEAN /\ led9 \in BOOLEAN
    /\ driver \in {0, HID_K, HID_M, NoDriver}

IInv == /\ HostTypes
        /\ Prefix /\ ConfiguresNewest /\ PollsTheNewest
        /\ NothingRuns /\ FlagTells /\ DriverMatches

hostVars == <<pc, usb_task_state, epinfo, devclass, hidAddr, tmp_addr,
              runningdebugflag, driver, led9>>

Table == <<epinfo, devclass, hidAddr, tmp_addr>>
Flags == <<runningdebugflag, driver, led9>>

USE DEF INITIALIZE, WAIT_FOR_DEVICE, ILLEGAL, ATTACHED, SETTLE, RESET_DEVICE,
        WAIT_RESET, WAIT_SOF, GET_DESCR, ADDRESSING, CONFIGURING, RUNNING,
        ERROR, Acting

\* The initial state satisfies the invariant: nothing is allocated.
LEMMA InitInv == Init => IInv
<1> SUFFICES ASSUME Init PROVE IInv
  OBVIOUS
<1>1. HostTypes
  <2>1. runningdebugflag \in BOOLEAN /\ led9 \in BOOLEAN
    BY DEF Init
  <2>2. /\ epinfo \in [Slots -> {"NULL", "dev0ep", "hid_ep"}]
        /\ devclass \in [Slots -> {0, HID_K, HID_M}]
    BY DEF Init
  <2>3. QED BY <2>1, <2>2 DEF Init, HostTypes
<1>2. Prefix
  <2>1. \A i \in Slots : epinfo[i] # "NULL" <=> i <= 0
    BY HostAssumption DEF Init, Slots
  <2>2. QED BY <2>1 DEF Prefix
<1>3. ConfiguresNewest /\ PollsTheNewest /\ NothingRuns
  BY DEF Init, ConfiguresNewest, PollsTheNewest, NothingRuns
<1>4. FlagTells /\ DriverMatches
  BY DEF Init, FlagTells, DriverMatches
<1>5. QED BY <1>1, <1>2, <1>3, <1>4 DEF IInv

\* USB_init leaves every slot free.
LEMMA CleanTable ==
    ASSUME USB_init
    PROVE  /\ epinfo' \in [Slots -> {"NULL", "dev0ep", "hid_ep"}]
           /\ devclass' \in [Slots -> {0, HID_K, HID_M}]
           /\ Prefix'
<1>1. /\ epinfo' \in [Slots -> {"NULL", "dev0ep", "hid_ep"}]
      /\ devclass' \in [Slots -> {0, HID_K, HID_M}]
  BY DEF USB_init
<1>2. \A i \in Slots : epinfo'[i] # "NULL" <=> i <= 0
  BY HostAssumption DEF USB_init, Slots
<1>3. Prefix'
  BY <1>2 DEF Prefix
<1>4. QED BY <1>1, <1>3

\* A step that leaves the table alone and goes to no state in which the table
\* is used keeps what the invariant says of the table.
LEMMA TableKept ==
    ASSUME IInv, UNCHANGED Table,
           \/ usb_task_state' \notin {CONFIGURING, RUNNING}
           \/ usb_task_state' = usb_task_state
    PROVE  /\ epinfo' \in [Slots -> {"NULL", "dev0ep", "hid_ep"}]
           /\ devclass' \in [Slots -> {0, HID_K, HID_M}]
           /\ hidAddr' \in Slots \cup {0} /\ tmp_addr' \in Slots \cup {0}
           /\ Prefix' /\ ConfiguresNewest' /\ PollsTheNewest'
<1>1. /\ epinfo' = epinfo /\ devclass' = devclass
      /\ hidAddr' = hidAddr /\ tmp_addr' = tmp_addr
  BY DEF Table
<1>2. Prefix'
  BY <1>1 DEF IInv, Prefix
<1>3. ConfiguresNewest'
  BY <1>1 DEF IInv, ConfiguresNewest, Newest
<1>4. PollsTheNewest'
  BY <1>1 DEF IInv, PollsTheNewest
<1>5. QED BY <1>1, <1>2, <1>3, <1>4 DEF IInv, HostTypes

\* Nothing the invariant reads changes.
LEMMA StutterInv == ASSUME IInv, UNCHANGED hostVars PROVE IInv'
<1>1. /\ pc' = pc /\ usb_task_state' = usb_task_state
      /\ runningdebugflag' = runningdebugflag /\ driver' = driver
      /\ led9' = led9 /\ devclass' = devclass /\ hidAddr' = hidAddr
      /\ UNCHANGED Table
  BY DEF hostVars, Table
<1>2. HostTypes' /\ Prefix' /\ ConfiguresNewest' /\ PollsTheNewest'
  BY <1>1, TableKept DEF IInv, HostTypes
<1>3. NothingRuns' /\ FlagTells'
  BY <1>1 DEF IInv, NothingRuns, FlagTells
<1>4. DriverMatches'
  BY <1>1 DEF IInv, DriverMatches
<1>5. QED BY <1>2, <1>3, <1>4 DEF IInv

\* Where MAX_busprobe leads.
LEMMA ProbeLeads ==
    ASSUME NEW speed, NEW advance \in {0, 1}, HostTypes,
           MAX_busprobe(speed, advance)
    PROVE  /\ usb_task_state' \in {INITIALIZE, 2, WAIT_FOR_DEVICE, ILLEGAL, 5,
                                   ATTACHED, SETTLE, WAIT_RESET, WAIT_SOF}
           /\ advance = 0 =>
                 usb_task_state' \in {INITIALIZE, WAIT_FOR_DEVICE, ILLEGAL,
                                      ATTACHED, WAIT_RESET}
           /\ usb_task_state = RUNNING =>
                 usb_task_state' \in {INITIALIZE, 2, ILLEGAL, 5, ATTACHED,
                                      SETTLE}
<1>1. Sample(speed) \in {"SE0", "SE1", "J", "K"}
  BY DEF Sample
<1>2. /\ Probed(Sample(speed)) \in {INITIALIZE, WAIT_FOR_DEVICE, ILLEGAL,
                                    ATTACHED, WAIT_RESET}
      /\ usb_task_state = RUNNING =>
            Probed(Sample(speed)) \in {INITIALIZE, ILLEGAL, ATTACHED}
  BY <1>1 DEF Probed, Detached
<1>3. usb_task_state' = (Probed(Sample(speed)) + advance) % 256
  BY DEF MAX_busprobe
<1>4. usb_task_state' = Probed(Sample(speed)) + advance
  BY <1>2, <1>3
<1>5. QED BY <1>2, <1>4

\* MAX3421E_Task keeps the invariant.
LEMMA ChipTaskInv ==
    ASSUME IInv, NoInterrupt \/ MaxIntHandler \/ IntHandlerAck PROVE IInv'
<1>1. UNCHANGED Table /\ UNCHANGED Flags
  BY DEF NoInterrupt, MaxIntHandler, IntHandlerAck, devtable, main, Table, Flags
<1>2. CASE NoInterrupt \/ IntHandlerAck
  <2>1. /\ pc \in {"task", "ack"} /\ pc' = "usb"
        /\ usb_task_state' = usb_task_state
    BY <1>2 DEF NoInterrupt, IntHandlerAck
  <2>2. HostTypes' /\ Prefix' /\ ConfiguresNewest' /\ PollsTheNewest'
    BY <1>1, <2>1, TableKept DEF IInv, HostTypes, Flags
  <2>3. NothingRuns' /\ FlagTells'
    BY <1>1, <2>1 DEF IInv, NothingRuns, FlagTells, Flags
  <2>4. DriverMatches'
    BY <1>1, <2>1 DEF IInv, DriverMatches, Flags, Table
  <2>5. QED BY <2>2, <2>3, <2>4 DEF IInv
<1>3. CASE MaxIntHandler
  <2>1. \E a \in {0, 1} : MAX_busprobe(mode, a)
    BY <1>3 DEF MaxIntHandler
  <2>2. /\ usb_task_state' \in {INITIALIZE, 2, WAIT_FOR_DEVICE, ILLEGAL, 5,
                                ATTACHED, SETTLE, WAIT_RESET, WAIT_SOF}
        /\ usb_task_state = RUNNING =>
              usb_task_state' \in {INITIALIZE, 2, ILLEGAL, 5, ATTACHED, SETTLE}
    BY <2>1, ProbeLeads DEF IInv
  <2>3. pc = "task" /\ pc' = "ack"
    BY <1>3 DEF MaxIntHandler
  <2>4. HostTypes' /\ Prefix' /\ ConfiguresNewest' /\ PollsTheNewest'
    BY <1>1, <2>2, <2>3, TableKept DEF IInv, HostTypes, Flags
  <2>5. NothingRuns' /\ DriverMatches'
    BY <2>2, <2>3 DEF NothingRuns, DriverMatches
  <2>6. FlagTells'
    BY <1>1, <2>2, <2>3 DEF IInv, FlagTells, Flags
  <2>7. QED BY <2>4, <2>5, <2>6 DEF IInv
<1>4. QED BY <1>2, <1>3

\* MAX3421E_init followed by USB_init keeps the invariant.
LEMMA ResetInv == ASSUME IInv, MAX3421E_init \/ InitAck PROVE IInv'
<1>1. UNCHANGED Flags /\ ~runningdebugflag
  BY DEF MAX3421E_init, InitAck, main, Flags, IInv, FlagTells
<1>2. CASE MAX3421E_init
  <2>1. usb_task_state' \in {INITIALIZE, WAIT_FOR_DEVICE, ILLEGAL, ATTACHED,
                             WAIT_RESET}
    BY <1>2, ProbeLeads DEF MAX3421E_init, IInv
  <2>2. pc' = "resetAck" /\ UNCHANGED Table
    BY <1>2 DEF MAX3421E_init, devtable, Table
  <2>3. HostTypes' /\ Prefix' /\ ConfiguresNewest' /\ PollsTheNewest'
    BY <1>1, <2>1, <2>2, TableKept DEF IInv, HostTypes, Flags
  <2>4. NothingRuns' /\ DriverMatches'
    BY <2>1 DEF NothingRuns, DriverMatches
  <2>5. FlagTells'
    BY <1>1, <2>2 DEF IInv, FlagTells, Flags
  <2>6. QED BY <2>3, <2>4, <2>5 DEF IInv
<1>3. CASE InitAck
  <2>1. /\ usb_task_state' = usb_task_state
        /\ usb_task_state \in {INITIALIZE, WAIT_FOR_DEVICE, ILLEGAL, ATTACHED,
                               WAIT_RESET}
        /\ pc' = "task" /\ hidAddr' = hidAddr /\ tmp_addr' = tmp_addr
    BY <1>3 DEF InitAck, IInv, NothingRuns
  <2>2. USB_init
    BY <1>3 DEF InitAck
  <2>3. HostTypes' /\ Prefix'
    BY <1>1, <2>1, <2>2, CleanTable DEF IInv, HostTypes, Flags
  <2>4. ConfiguresNewest' /\ PollsTheNewest' /\ NothingRuns' /\ DriverMatches'
    BY <2>1 DEF ConfiguresNewest, PollsTheNewest, NothingRuns, DriverMatches
  <2>5. FlagTells'
    BY <1>1, <2>1 DEF IInv, FlagTells, Flags
  <2>6. QED BY <2>3, <2>4, <2>5 DEF IInv
<1>4. QED BY <1>2, <1>3

\* The states of USB_Task in which no slot is allocated or configured.
LEMMA EarlyTaskInv ==
    ASSUME IInv, Attached \/ Settle \/ ResetDevice \/ WaitReset \/ WaitSof
                 \/ GetDescriptor
    PROVE  IInv'
<1>1. UNCHANGED Table /\ UNCHANGED Flags
  BY DEF Attached, Settle, ResetDevice, WaitReset, WaitSof, GetDescriptor,
         InTask, Enumeration, devtable, main, Table, Flags
<1>2. pc = "usb" /\ pc' = "app"
  BY DEF Attached, Settle, ResetDevice, WaitReset, WaitSof, GetDescriptor,
         InTask
<1>3. \/ /\ usb_task_state \in {ATTACHED, SETTLE}
         /\ usb_task_state' \in {SETTLE, RESET_DEVICE}
      \/ /\ usb_task_state \in {RESET_DEVICE, WAIT_RESET, WAIT_SOF, GET_DESCR}
         /\ usb_task_state' \in {WAIT_RESET, WAIT_SOF, GET_DESCR, ADDRESSING,
                                 ERROR}
  BY DEF Attached, Settle, ResetDevice, WaitReset, WaitSof, GetDescriptor,
         InTask, Goto, Fails
<1>4. HostTypes' /\ Prefix' /\ ConfiguresNewest' /\ PollsTheNewest'
  BY <1>1, <1>2, <1>3, TableKept DEF IInv, HostTypes, Flags
<1>5. NothingRuns' /\ DriverMatches'
  BY <1>2, <1>3 DEF NothingRuns, DriverMatches
<1>6. FlagTells'
  BY <1>1, <1>2, <1>3 DEF IInv, FlagTells, Flags
<1>7. QED BY <1>4, <1>5, <1>6 DEF IInv

\* USB_Task in the detached state, and where it does nothing.
LEMMA IdleTaskInv == ASSUME IInv, Initialize \/ Rest PROVE IInv'
<1>1. pc = "usb" /\ pc' = "app" /\ UNCHANGED Flags
  BY DEF Initialize, Rest, InTask, main, Flags
<1>2. CASE Initialize
  <2>1. /\ usb_task_state = INITIALIZE /\ usb_task_state' = WAIT_FOR_DEVICE
        /\ hidAddr' = hidAddr /\ tmp_addr' = tmp_addr /\ USB_init
    BY <1>2 DEF Initialize, InTask, Goto
  <2>2. HostTypes' /\ Prefix'
    BY <1>1, <2>1, CleanTable DEF IInv, HostTypes, Flags
  <2>3. ConfiguresNewest' /\ PollsTheNewest' /\ NothingRuns' /\ DriverMatches'
    BY <1>1, <2>1 DEF ConfiguresNewest, PollsTheNewest, NothingRuns,
                      DriverMatches
  <2>4. FlagTells'
    BY <1>1, <2>1 DEF IInv, FlagTells, Flags
  <2>5. QED BY <2>2, <2>3, <2>4 DEF IInv
<1>3. CASE Rest
  <2>1. /\ usb_task_state' = usb_task_state /\ UNCHANGED Table
        /\ usb_task_state \notin Acting
    BY <1>3 DEF Rest, Enumeration, devtable, Table
  <2>2. HostTypes' /\ Prefix' /\ ConfiguresNewest' /\ PollsTheNewest'
    BY <1>1, <2>1, TableKept DEF IInv, HostTypes, Flags
  <2>3. NothingRuns' /\ FlagTells'
    BY <1>1, <2>1 DEF IInv, NothingRuns, FlagTells, Flags
  <2>4. DriverMatches'
    BY <1>1, <2>1 DEF IInv, DriverMatches, Flags, Table
  <2>5. QED BY <2>2, <2>3, <2>4 DEF IInv
<1>4. QED BY <1>2, <1>3

\* The slot SET_ADDRESS uses follows those in use.
LEMMA AllocateInv ==
    ASSUME IInv, NEW i \in Slots, FirstFree(i),
           epinfo' = [epinfo EXCEPT ![i] = "dev0ep"]
    PROVE  /\ epinfo' \in [Slots -> {"NULL", "dev0ep", "hid_ep"}]
           /\ Prefix'
           /\ epinfo'[i] # "NULL"
           /\ \A j \in Slots : j > i => epinfo'[j] = "NULL"
<1>1. PICK k \in Nat : \A j \in Slots : epinfo[j] # "NULL" <=> j <= k
  BY DEF IInv, Prefix
<1>2. /\ epinfo \in [Slots -> {"NULL", "dev0ep", "hid_ep"}]
      /\ \A j \in Slots : epinfo'[j] = IF j = i THEN "dev0ep" ELSE epinfo[j]
      /\ epinfo' \in [Slots -> {"NULL", "dev0ep", "hid_ep"}]
  BY DEF IInv, HostTypes
<1>3. i > k /\ \A j \in Slots : j > k => i <= j
  BY <1>1 DEF FirstFree, Free, Slots
<1>4. i = k + 1
  <2>1. SUFFICES ASSUME i > k + 1 PROVE FALSE
    BY <1>3 DEF Slots
  <2>2. k + 1 \in Slots
    BY <2>1, HostAssumption DEF Slots
  <2>3. QED BY <1>3, <2>1, <2>2 DEF Slots
<1>5. \A j \in Slots : epinfo'[j] # "NULL" <=> j <= k + 1
  BY <1>1, <1>2, <1>4, HostAssumption DEF Slots
<1>6. Prefix'
  <2>1. k + 1 \in Nat
    OBVIOUS
  <2>2. QED BY <1>5, <2>1 DEF Prefix
<1>7. QED BY <1>2, <1>4, <1>5, <1>6 DEF Slots

\* USB_Task gives the device an address.
LEMMA AddressingInv == ASSUME IInv, Addressing PROVE IInv'
<1>1. /\ pc = "usb" /\ pc' = "app" /\ UNCHANGED Flags
      /\ usb_task_state = ADDRESSING
      /\ devclass' = devclass /\ hidAddr' = hidAddr
  BY DEF Addressing, InTask, main, Flags
<1>2. usb_task_state' \in {CONFIGURING, ERROR}
  BY DEF Addressing, Goto, Fails
<1>3. /\ epinfo' \in [Slots -> {"NULL", "dev0ep", "hid_ep"}]
      /\ Prefix' /\ ConfiguresNewest' /\ tmp_addr' \in Slots \cup {0}
  <2>1. CASE Free = {}
    <3>1. UNCHANGED epinfo /\ UNCHANGED tmp_addr /\ usb_task_state' = ERROR
      BY <2>1 DEF Addressing, Fails
    <3>2. QED BY <3>1 DEF IInv, HostTypes, Prefix, ConfiguresNewest
  <2>2. CASE Free # {}
    <3>1. PICK i \in Slots :
             /\ FirstFree(i)
             /\ epinfo' = [epinfo EXCEPT ![i] = "dev0ep"]
             /\ \/ tmp_addr' = i
                \/ usb_task_state' = ERROR /\ tmp_addr' = tmp_addr
      BY <2>2 DEF Addressing, Fails
    <3>2. /\ epinfo' \in [Slots -> {"NULL", "dev0ep", "hid_ep"}]
          /\ Prefix' /\ epinfo'[i] # "NULL"
          /\ \A j \in Slots : j > i => epinfo'[j] = "NULL"
      <4>1. i \in Slots /\ FirstFree(i)
        BY <3>1
      <4>2. epinfo' = [epinfo EXCEPT ![i] = "dev0ep"]
        BY <3>1
      <4>3. QED BY <4>1, <4>2, AllocateInv
    <3>3. ConfiguresNewest'
      BY <3>1, <3>2 DEF ConfiguresNewest, Newest
    <3>4. tmp_addr' \in Slots \cup {0}
      BY <3>1 DEF IInv, HostTypes
    <3>5. QED BY <3>2, <3>3, <3>4
  <2>3. QED BY <2>1, <2>2
<1>4. HostTypes'
  BY <1>1, <1>2, <1>3 DEF IInv, HostTypes, Flags
<1>5. PollsTheNewest' /\ NothingRuns' /\ DriverMatches'
  BY <1>1, <1>2 DEF PollsTheNewest, NothingRuns, DriverMatches
<1>6. FlagTells'
  BY <1>1, <1>2 DEF IInv, FlagTells, Flags
<1>7. QED BY <1>3, <1>4, <1>5, <1>6 DEF IInv

\* The probes claim the slot of the device being configured.
LEMMA ConfigureInv == ASSUME IInv, Configure PROVE IInv'
<1>1. /\ pc = "usb" /\ pc' = "app" /\ UNCHANGED Flags
      /\ usb_task_state = CONFIGURING
      /\ tmp_addr' = tmp_addr
  BY DEF Configure, InTask, main, Flags
<1>2. ~runningdebugflag
  BY <1>1 DEF IInv, FlagTells
<1>3. Newest(tmp_addr)
  BY <1>1 DEF IInv, ConfiguresNewest
<1>4. usb_task_state' \in {RUNNING, ERROR}
  BY DEF Configure, Goto, Fails
<1>5. /\ epinfo' \in [Slots -> {"NULL", "dev0ep", "hid_ep"}]
      /\ devclass' \in [Slots -> {0, HID_K, HID_M}]
      /\ hidAddr' \in Slots \cup {0}
      /\ Prefix' /\ PollsTheNewest'
  <2>1. CASE UNCHANGED <<devtable, hidAddr>> /\ usb_task_state' = ERROR
    <3>1. UNCHANGED epinfo /\ UNCHANGED devclass /\ UNCHANGED hidAddr
      BY <2>1 DEF devtable
    <3>2. Prefix' /\ PollsTheNewest'
      BY <2>1, <3>1 DEF IInv, Prefix, PollsTheNewest
    <3>3. QED BY <3>1, <3>2 DEF IInv, HostTypes
  <2>2. ASSUME NEW c \in {HID_K, HID_M}, Claim(c)
        PROVE  /\ epinfo' \in [Slots -> {"NULL", "dev0ep", "hid_ep"}]
               /\ devclass' \in [Slots -> {0, HID_K, HID_M}]
               /\ hidAddr' \in Slots \cup {0}
               /\ Prefix' /\ PollsTheNewest'
    <3>1. /\ tmp_addr \in Slots /\ epinfo[tmp_addr] # "NULL"
          /\ \A i \in Slots : i > tmp_addr => epinfo[i] = "NULL"
      BY <1>3 DEF Newest
    <3>3. /\ hidAddr' = tmp_addr
          /\ epinfo' = [epinfo EXCEPT ![tmp_addr] = "hid_ep"]
          /\ devclass' = [devclass EXCEPT ![tmp_addr] = c]
      BY <2>2 DEF Claim
    <3>4. /\ epinfo' \in [Slots -> {"NULL", "dev0ep", "hid_ep"}]
          /\ \A i \in Slots : epinfo'[i] = IF i = tmp_addr THEN "hid_ep"
                                           ELSE epinfo[i]
      BY <3>1, <3>3 DEF IInv, HostTypes
    <3>5. /\ devclass' \in [Slots -> {0, HID_K, HID_M}]
          /\ devclass'[tmp_addr] = c
      BY <3>1, <2>2, <3>3 DEF IInv, HostTypes
    <3>6. \A i \in Slots : epinfo'[i] # "NULL" <=> epinfo[i] # "NULL"
      BY <3>1, <3>4
    <3>7. Prefix'
      BY <3>6 DEF IInv, Prefix
    <3>8. PollsTheNewest'
      <4>1. epinfo'[hidAddr'] = "hid_ep" /\ hidAddr' \in Slots
        BY <3>1, <3>3, <3>4
      <4>2. devclass'[hidAddr'] \in {HID_K, HID_M}
        BY <2>2, <3>3, <3>5
      <4>3. \A i \in Slots : i > hidAddr' => epinfo'[i] = "NULL"
        BY <3>1, <3>3, <3>6
      <4>4. QED BY <4>1, <4>2, <4>3 DEF PollsTheNewest
    <3>9. QED BY <3>1, <3>3, <3>4, <3>5, <3>7, <3>8
  <2>3. \/ UNCHANGED <<devtable, hidAddr>> /\ usb_task_state' = ERROR
        \/ Claim(HID_K) \/ Claim(HID_M)
    BY DEF Configure, Fails, HIDMProbe, HIDKProbe
  <2>4. QED BY <2>1, <2>2, <2>3
<1>6. HostTypes'
  BY <1>1, <1>4, <1>5 DEF IInv, HostTypes, Flags
<1>7. ConfiguresNewest' /\ NothingRuns' /\ DriverMatches'
  BY <1>1, <1>2, <1>4 DEF ConfiguresNewest, NothingRuns, DriverMatches, Flags
<1>8. FlagTells'
  BY <1>1, <1>2, <1>4 DEF IInv, FlagTells, Flags
<1>9. QED BY <1>5, <1>6, <1>7, <1>8 DEF IInv

\* GetDriverandReport finds the class of the device that is polled.
LEMMA LastDriverIsPolled ==
    ASSUME IInv, usb_task_state = RUNNING
    PROVE  hidAddr \in Slots /\ LastDriver = devclass[hidAddr]
<1> DEFINE used == Slots \ Free
           last == CHOOSE i \in used : \A j \in used : j <= i
<1>1. /\ hidAddr \in Slots /\ epinfo[hidAddr] = "hid_ep"
      /\ \A i \in Slots : i > hidAddr => epinfo[i] = "NULL"
  BY DEF IInv, PollsTheNewest
<1>2. hidAddr \in used /\ \A j \in used : j <= hidAddr
  BY <1>1 DEF Free, Slots
<1>3. last \in used /\ \A j \in used : j <= last
  BY <1>2
<1>4. last = hidAddr
  <2> HIDE DEF last
  <2>1. hidAddr \in Int /\ last \in Int
    BY <1>1, <1>3 DEF Slots
  <2>2. hidAddr <= last /\ last <= hidAddr
    BY <1>2, <1>3
  <2>3. QED BY <2>1, <2>2
<1>5. LastDriver = devclass[last]
  BY <1>2 DEF LastDriver
<1>6. QED BY <1>1, <1>4, <1>5

\* The rest of a turn of the main loop keeps the invariant.
LEMMA AppInv ==
    ASSUME IInv,
           GetDriverandReport \/ PollDevice \/ ReportError \/ NotRunning
    PROVE  IInv'
<1>1. /\ pc = "app" /\ usb_task_state' = usb_task_state /\ UNCHANGED Table
  BY DEF GetDriverandReport, PollDevice, ReportError, NotRunning, InApp,
         Enumeration, devtable, Table
<1>2. pc' \in {"task", "reset"}
  BY DEF GetDriverandReport, PollDevice, ReportError, NotRunning
<1>3. /\ epinfo' \in [Slots -> {"NULL", "dev0ep", "hid_ep"}]
      /\ devclass' \in [Slots -> {0, HID_K, HID_M}]
      /\ hidAddr' \in Slots \cup {0} /\ tmp_addr' \in Slots \cup {0}
      /\ Prefix' /\ ConfiguresNewest' /\ PollsTheNewest'
  BY <1>1, TableKept
<1>4. NothingRuns'
  BY <1>2 DEF NothingRuns
<1>5. /\ runningdebugflag' \in BOOLEAN /\ led9' \in BOOLEAN
      /\ driver' \in {0, HID_K, HID_M, NoDriver}
      /\ FlagTells' /\ DriverMatches'
  <2>1. CASE GetDriverandReport
    <3>1. /\ usb_task_state = RUNNING /\ pc' = "task"
          /\ runningdebugflag' = TRUE /\ led9' = TRUE /\ driver' = LastDriver
      BY <2>1 DEF GetDriverandReport
    <3>2. hidAddr \in Slots /\ driver' = devclass[hidAddr]
      BY <3>1, LastDriverIsPolled
    <3>3. driver' \in {0, HID_K, HID_M, NoDriver}
      BY <3>2 DEF IInv, HostTypes
    <3>4. DriverMatches'
      BY <1>1, <3>2 DEF DriverMatches, Table
    <3>5. FlagTells'
      BY <1>1, <3>1 DEF FlagTells
    <3>6. QED BY <3>1, <3>3, <3>4, <3>5
  <2>2. CASE PollDevice
    <3>1. /\ usb_task_state = RUNNING /\ runningdebugflag /\ pc' = "task"
          /\ UNCHANGED Flags
      BY <2>2 DEF PollDevice, main, Flags
    <3>2. DriverMatches'
      BY <1>1, <3>1 DEF IInv, DriverMatches, Table, Flags
    <3>3. FlagTells'
      BY <1>1, <3>1 DEF IInv, FlagTells, Flags
    <3>4. QED BY <3>1, <3>2, <3>3 DEF IInv, HostTypes, Flags
  <2>3. CASE ReportError
    <3>1. /\ usb_task_state = ERROR /\ pc' = "task"
          /\ runningdebugflag' = runningdebugflag /\ driver' = driver
          /\ led9' = led9 \/ led9' = FALSE
      BY <2>3 DEF ReportError
    <3>2. ~runningdebugflag
      BY <1>1, <3>1 DEF IInv, FlagTells
    <3>3. led9' = FALSE
      BY <3>1, <3>2 DEF IInv, FlagTells, HostTypes
    <3>4. FlagTells'
      BY <1>1, <3>1, <3>2, <3>3 DEF FlagTells
    <3>5. DriverMatches'
      BY <1>1, <3>1 DEF DriverMatches
    <3>6. QED BY <3>1, <3>3, <3>4, <3>5 DEF IInv, HostTypes
  <2>4. CASE NotRunning
    <3>1. /\ usb_task_state \notin {RUNNING, ERROR}
          /\ runningdebugflag' = FALSE /\ led9' = FALSE /\ driver' = driver
      BY <2>4 DEF NotRunning, ClearLed
    <3>2. FlagTells' /\ DriverMatches'
      BY <1>1, <3>1 DEF FlagTells, DriverMatches
    <3>3. QED BY <3>1, <3>2 DEF IInv, HostTypes
  <2>5. QED BY <2>1, <2>2, <2>3, <2>4
<1>6. HostTypes'
  BY <1>1, <1>2, <1>3, <1>5 DEF IInv, HostTypes
<1>7. QED BY <1>3, <1>4, <1>5, <1>6 DEF IInv

\* Every step of the specification keeps the invariant.
LEMMA NextInv == IInv /\ [Next]_vars => IInv'
<1> SUFFICES ASSUME IInv, [Next]_vars PROVE IInv'
  OBVIOUS
<1>1. CASE UNCHANGED vars
  BY <1>1, StutterInv DEF vars, hostVars
<1>2. CASE Plug \/ Unplug \/ ResetDone \/ TimePasses
  BY <1>2, StutterInv DEF Plug, Unplug, BusChanges, ResetDone, TimePasses,
                          software, devtable, main, hostVars
<1>3. CASE USB_Task
  BY <1>3, EarlyTaskInv, IdleTaskInv, AddressingInv, ConfigureInv DEF USB_Task
<1>4. CASE MainLoop /\ ~USB_Task
  BY <1>4, ChipTaskInv, ResetInv, AppInv DEF MainLoop
<1>5. QED BY <1>1, <1>2, <1>3, <1>4 DEF Next

\* The invariant holds in every reachable state.
LEMMA Invariance == Spec => []IInv
<1>1. QED BY InitInv, NextInv, PTL DEF Spec

\* The device that runs is in the slot allocated last and HID.c polls that
\* slot, whatever slots failed enumerations left behind.
THEOREM NewestIsPolled == Spec => []PollsTheNewest
<1>1. IInv => PollsTheNewest
  BY DEF IInv
<1>2. QED BY <1>1, Invariance, PTL

\* main.c polls with the driver of the device that runs: no sequence of
\* disconnections and connections leaves it with the driver of an earlier one.
THEOREM DriverIsTheDevices == Spec => []DriverMatches
<1>1. IInv => DriverMatches
  BY DEF IInv
<1>2. QED BY <1>1, Invariance, PTL

\* LED 9 is lit at the top of the loop exactly when a device runs.
THEOREM LedIsTrue == Spec => []LedTellsRunning
<1>1. IInv => LedTellsRunning
  <2>1. SUFFICES ASSUME IInv, pc = "task"
                 PROVE  led9 <=> usb_task_state = RUNNING
    BY DEF LedTellsRunning
  <2>2. led9 <=> runningdebugflag
    BY <2>1 DEF IInv, FlagTells
  <2>3. runningdebugflag <=> usb_task_state = RUNNING
    BY <2>1 DEF IInv, FlagTells
  <2>4. QED BY <2>2, <2>3
<1>2. QED BY <1>1, Invariance, PTL

\* The rest of TypeOK: the controller, the port, and the variables of main.c
\* that the invariant does not read.
ChipTypes ==
    /\ usb_error \in {"none", "transfer", "no address", "no driver"}
    /\ settle \in {"expired", "running"}
    /\ errorflag \in BOOLEAN
    /\ irq \subseteq {"CONDET", "BUSEVENT"}
    /\ HIRQ \subseteq {"CONDET", "BUSEVENT"}
    /\ busrst \in BOOLEAN
    /\ mode \in {"FS", "LS"}
    /\ dev \in Kinds \cup {"none", "faulty"}
    /\ devAddr \in Slots \cup {0, NoAddress}
    /\ missed \in BOOLEAN

\* Every variable keeps its type; usb_task_state++ leads to no state beyond
\* the two that USB_Task has no case for.
THEOREM TypeCorrect == Spec => []TypeOK
<1>1. Init => ChipTypes
  <2> SUFFICES ASSUME Init PROVE ChipTypes
    OBVIOUS
  <2>1. errorflag \in BOOLEAN /\ busrst \in BOOLEAN /\ missed \in BOOLEAN
    BY DEF Init
  <2>2. irq = {} /\ HIRQ = {}
    BY DEF Init
  <2>3. QED BY <2>1, <2>2 DEF Init, ChipTypes
<1>2. ASSUME ChipTypes, [Next]_vars PROVE ChipTypes'
  <2>1. CASE UNCHANGED vars
    BY <1>2, <2>1 DEF vars, ChipTypes
  <2>2. CASE NoInterrupt \/ IntHandlerAck
    <3>1. UNCHANGED <<usb_error, settle, main, busrst, mode, port, missed>>
      BY <2>2 DEF NoInterrupt, IntHandlerAck, chip
    <3>2. irq' \subseteq irq /\ HIRQ' \subseteq HIRQ
      BY <2>2 DEF NoInterrupt, IntHandlerAck, chip
    <3>3. QED BY <1>2, <3>1, <3>2 DEF main, port, ChipTypes
  <2>3. CASE MaxIntHandler \/ MAX3421E_init
    <3>1. PICK s \in {"FS", "LS"}, a \in {0, 1} : MAX_busprobe(s, a)
      BY <1>2, <2>3 DEF MaxIntHandler, MAX3421E_init, ChipTypes
    <3>2. mode' \in {"FS", "LS"} /\ missed' = FALSE
      BY <3>1 DEF MAX_busprobe, ProbedSpeed, Other
    <3>3. /\ UNCHANGED <<usb_error, settle, main, port>>
          /\ irq' \subseteq irq
          /\ HIRQ' = irq \/ HIRQ' = HIRQ
          /\ busrst' = busrst \/ busrst' = FALSE
      BY <2>3 DEF MaxIntHandler, MAX3421E_init, chip
    <3>4. busrst' \in BOOLEAN /\ missed' \in BOOLEAN
      BY <1>2, <3>2, <3>3 DEF ChipTypes
    <3>5. QED BY <1>2, <3>2, <3>3, <3>4 DEF main, port, ChipTypes
  <2>4. CASE InitAck
    <3>1. /\ UNCHANGED <<usb_error, settle, main, HIRQ, busrst, mode, port,
                         missed>>
          /\ irq' \subseteq irq
      BY <2>4 DEF InitAck
    <3>2. QED BY <1>2, <3>1 DEF main, port, ChipTypes
  <2>5. CASE USB_Task
    <3>1. UNCHANGED <<main, HIRQ, mode, missed>>
      BY <2>5 DEF USB_Task, Initialize, Attached, Settle, ResetDevice,
           WaitReset, WaitSof, GetDescriptor, Addressing, Configure, Rest,
           InTask
    <3>2. /\ usb_error' = usb_error
             \/ usb_error' \in {"transfer", "no address", "no driver"}
          /\ settle' = settle \/ settle' = "running"
          /\ irq' \subseteq irq
      BY <2>5 DEF USB_Task, Initialize, Attached, Settle, ResetDevice,
           WaitReset, WaitSof, GetDescriptor, Addressing, Configure, Rest,
           Goto, Fails, chip
    <3>3. /\ busrst' = busrst \/ busrst' = TRUE
          /\ dev' = dev
          /\ devAddr' = devAddr \/ devAddr' \in Slots
      BY <2>5 DEF USB_Task, Initialize, Attached, Settle, ResetDevice,
           WaitReset, WaitSof, GetDescriptor, Addressing, Configure, Rest,
           chip, port
    <3>4. busrst' \in BOOLEAN
      BY <1>2, <3>3 DEF ChipTypes
    <3>5. QED BY <1>2, <3>1, <3>2, <3>3, <3>4 DEF main, ChipTypes
  <2>6. CASE GetDriverandReport \/ PollDevice \/ ReportError \/ NotRunning
    <3>1. UNCHANGED <<usb_error, settle, chip, HIRQ, mode, port, missed>>
      BY <2>6 DEF GetDriverandReport, PollDevice, ReportError, NotRunning, InApp
    <3>2. errorflag' = errorflag \/ errorflag' = TRUE \/ errorflag' = FALSE
      BY <2>6 DEF GetDriverandReport, PollDevice, ReportError, NotRunning, main
    <3>3. errorflag' \in BOOLEAN
      BY <1>2, <3>2 DEF ChipTypes
    <3>4. QED BY <1>2, <3>1, <3>3 DEF chip, port, ChipTypes
  <2>7. CASE Plug \/ Unplug
    <3>1. /\ UNCHANGED <<software, settle, busrst>>
          /\ irq' = irq \cup {"CONDET"}
          /\ devAddr' = NoAddress
          /\ dev' \in Kinds \cup {"none", "faulty"}
          /\ missed' = (missed \/ pc \in {"ack", "resetAck"})
      BY <2>7 DEF Plug, Unplug, BusChanges
    <3>2. missed' \in BOOLEAN
      BY <3>1
    <3>3. QED BY <1>2, <3>1, <3>2 DEF software, main, ChipTypes
  <2>8. CASE ResetDone
    <3>1. /\ UNCHANGED <<software, settle, dev, missed>>
          /\ irq' \subseteq irq \cup {"BUSEVENT", "CONDET"}
          /\ busrst' = FALSE /\ devAddr' \in {0, NoAddress}
      BY <2>8 DEF ResetDone
    <3>2. busrst' \in BOOLEAN
      BY <3>1
    <3>3. QED BY <1>2, <3>1, <3>2 DEF software, main, ChipTypes
  <2>9. CASE TimePasses
    <3>1. /\ UNCHANGED <<software, chip, port, missed>>
          /\ settle' \in {"expired", "running"}
      BY <2>9 DEF TimePasses
    <3>2. QED BY <1>2, <3>1 DEF software, main, chip, port, ChipTypes
  <2>10. QED
    BY <1>2, <2>1, <2>2, <2>3, <2>4, <2>5, <2>6, <2>7, <2>8, <2>9
       DEF Next, MainLoop
<1>3. IInv /\ ChipTypes => TypeOK
  BY DEF IInv, HostTypes, ChipTypes, TypeOK
<1>4. ChipTypes /\ [Next]_vars => ChipTypes'
  BY <1>2
<1>5. QED BY <1>1, <1>3, <1>4, Invariance, PTL DEF Spec
-----------------------------------------------------------------------------
(* The host and the bus.                                                   *)

\* Nothing that happened to the bus is left to tell the software, at any
\* place of the loop: what the acknowledgement clears has been probed.
Fresh == /\ ~missed /\ pc # "reset"
         /\ "CONDET" \notin irq \/ pc \in {"ack", "resetAck"}

Enumerating == {WAIT_SOF, GET_DESCR, ADDRESSING, CONFIGURING, RUNNING}

\* No reset is driven once the state says that it has ended, and a bus event
\* is the end of one.
ResetOver == /\ "BUSEVENT" \in irq => ~busrst
             /\ usb_task_state \in Enumerating => ~busrst

Believed == Fresh => (dev \in Kinds <=> ~Detached(usb_task_state))

RightClass == <<dev, devclass[hidAddr]>> \in {<<Keyboard, HID_K>>, <<Mouse, HID_M>>}

RunsAttached == Fresh /\ usb_task_state = RUNNING => Answers(hidAddr) /\ RightClass

BusInv == ResetOver /\ Believed /\ RunsAttached

\* Init drives no reset, and nothing is probed yet.
LEMMA BusInit == Init => BusInv
  BY DEF Init, BusInv, ResetOver, Believed, RunsAttached, Fresh, Enumerating

\* The probe tells a device from an empty or broken port, and WAIT_SOF is
\* reached through it only when the reset of WAIT_RESET has ended.
LEMMA ProbeSees ==
    ASSUME NEW speed \in {"FS", "LS"}, NEW advance \in {0, 1}, TypeOK,
           MAX_busprobe(speed, advance)
    PROVE  /\ dev \in Kinds <=> ~Detached(usb_task_state')
           /\ usb_task_state' \in Enumerating =>
                 usb_task_state' = WAIT_SOF /\ advance = 1
<1>1. /\ dev \in Kinds => Sample(speed) \in {"J", "K"}
      /\ dev \notin Kinds => Sample(speed) \in {"SE0", "SE1"}
  <2>1. dev \in Kinds => dev # "none" /\ dev # "faulty"
    BY HostAssumption
  <2>2. dev \notin Kinds => dev \in {"none", "faulty"}
    BY DEF TypeOK
  <2>3. QED BY <2>1, <2>2 DEF Sample
<1>2. /\ dev \in Kinds => Probed(Sample(speed)) \in {ATTACHED, WAIT_RESET}
      /\ dev \notin Kinds =>
            Probed(Sample(speed)) \in {INITIALIZE, WAIT_FOR_DEVICE, ILLEGAL}
  BY <1>1 DEF Probed
<1>3. usb_task_state' = (Probed(Sample(speed)) + advance) % 256
  BY DEF MAX_busprobe
<1>4. usb_task_state' = Probed(Sample(speed)) + advance
  BY <1>2, <1>3
<1>5. QED BY <1>2, <1>4 DEF Detached, Enumerating

\* MAX3421E_Task.
LEMMA BusChipTask ==
    ASSUME TypeOK, BusInv,
           MaxIntHandler \/ IntHandlerAck \/ NoInterrupt
    PROVE  BusInv'
<1>1. CASE MaxIntHandler
  <2>1. PICK a \in {0, 1} : /\ MAX_busprobe(mode, a)
                            /\ a = 1 => "BUSEVENT" \in irq
    BY <1>1 DEF MaxIntHandler
  <2>2. /\ dev \in Kinds <=> ~Detached(usb_task_state')
        /\ usb_task_state' \in Enumerating => usb_task_state' = WAIT_SOF /\ a = 1
    <3>1. mode \in {"FS", "LS"}
      BY DEF TypeOK
    <3>2. QED BY <2>1, <3>1, ProbeSees
  <2>3. irq' = irq /\ busrst' = busrst /\ dev' = dev
    BY <1>1 DEF MaxIntHandler, chip, port
  <2>4. ResetOver'
    BY <2>1, <2>2, <2>3 DEF BusInv, ResetOver
  <2>5. Believed'
    BY <2>2, <2>3 DEF Believed, Detached
  <2>6. RunsAttached'
    BY <2>2 DEF RunsAttached, Enumerating
  <2>7. QED BY <2>4, <2>5, <2>6 DEF BusInv
<1>2. CASE IntHandlerAck \/ NoInterrupt
  <2>1. /\ UNCHANGED <<usb_task_state, devclass, hidAddr, busrst, mode, dev,
                       devAddr, missed>>
        /\ irq' \subseteq irq /\ pc' = "usb"
        /\ pc = "ack" \/ "CONDET" \notin irq
        /\ pc # "reset"
    BY <1>2 DEF IntHandlerAck, NoInterrupt, devtable, chip, port
  <2>2. Fresh' => Fresh
    BY <2>1 DEF Fresh
  <2>3. QED BY <2>1, <2>2 DEF BusInv, ResetOver, Believed, RunsAttached, Detached,
                              Answers, RightClass, Enumerating
<1>3. QED BY <1>1, <1>2

\* MAX3421E_init and the acknowledgement after it.
LEMMA BusReset ==
    ASSUME TypeOK, IInv, BusInv, MAX3421E_init \/ InitAck PROVE BusInv'
<1>1. CASE MAX3421E_init
  <2>1. /\ dev \in Kinds <=> ~Detached(usb_task_state')
        /\ usb_task_state' \notin Enumerating
    BY <1>1, ProbeSees DEF MAX3421E_init
  <2>2. busrst' = FALSE /\ dev' = dev
    BY <1>1 DEF MAX3421E_init, port
  <2>3. ResetOver'
    BY <2>2 DEF ResetOver
  <2>4. Believed'
    BY <2>1, <2>2 DEF Believed, Detached
  <2>5. RunsAttached'
    BY <2>1 DEF RunsAttached, Enumerating
  <2>6. QED BY <2>3, <2>4, <2>5 DEF BusInv
<1>2. CASE InitAck
  <2>1. /\ UNCHANGED <<usb_task_state, busrst, dev, missed>>
        /\ irq' \subseteq irq /\ pc = "resetAck"
    BY <1>2 DEF InitAck, port
  <2>2. usb_task_state' \notin Enumerating
    BY <2>1 DEF IInv, NothingRuns, Enumerating
  <2>3. ResetOver'
    BY <2>1, <2>2 DEF BusInv, ResetOver
  <2>4. Believed'
    BY <2>1 DEF BusInv, Believed, Fresh, Detached
  <2>5. RunsAttached'
    BY <2>2 DEF RunsAttached, Enumerating
  <2>6. QED BY <2>3, <2>4, <2>5 DEF BusInv
<1>3. QED BY <1>1, <1>2

\* USB_Task.  A device is running when its last probe was answered, and no
\* state of an enumeration is entered while a reset is driven.
LEMMA BusTask == ASSUME TypeOK, IInv, BusInv, USB_Task PROVE BusInv'
<1>1. /\ pc = "usb" /\ pc' = "app" /\ mode' = mode /\ missed' = missed
      /\ dev' = dev
      /\ Fresh' => Fresh
  <2>1. pc = "usb" /\ pc' = "app" /\ mode' = mode /\ missed' = missed
    BY DEF USB_Task, Initialize, Attached, Settle, ResetDevice, WaitReset, WaitSof,
           GetDescriptor, Addressing, Configure, Rest, InTask
  <2>2. dev' = dev /\ irq' \in {irq, irq \ {"BUSEVENT"}}
    BY DEF USB_Task, Initialize, Attached, Settle, ResetDevice, WaitReset, WaitSof,
           GetDescriptor, Addressing, Configure, Rest, chip, port
  <2>3. QED BY <2>1, <2>2 DEF Fresh
<1>2. \/ usb_task_state' = usb_task_state
      \/ usb_task_state = INITIALIZE /\ usb_task_state' = WAIT_FOR_DEVICE
      \/ /\ usb_task_state \in {ATTACHED, SETTLE, RESET_DEVICE}
         /\ usb_task_state' \in {SETTLE, RESET_DEVICE, WAIT_RESET}
      \/ /\ usb_task_state = WAIT_RESET /\ usb_task_state' = WAIT_SOF
         /\ WaitReset /\ ~busrst
      \/ /\ usb_task_state \in {WAIT_SOF, GET_DESCR, ADDRESSING, CONFIGURING}
         /\ usb_task_state' \in {GET_DESCR, ADDRESSING, CONFIGURING, RUNNING, ERROR}
  <2>1. CASE Initialize \/ Rest
    BY <2>1 DEF Initialize, Rest, InTask, Goto
  <2>2. CASE Attached \/ Settle \/ ResetDevice \/ WaitReset
    BY <2>2 DEF Attached, Settle, ResetDevice, WaitReset, InTask, Goto
  <2>3. CASE WaitSof \/ GetDescriptor
    BY <2>3 DEF WaitSof, GetDescriptor, InTask, Goto, Fails
  <2>4. CASE Addressing
    BY <2>4 DEF Addressing, InTask, Goto, Fails
  <2>5. CASE Configure
    BY <2>5 DEF Configure, InTask, Goto, Fails
  <2>6. QED BY <2>1, <2>2, <2>3, <2>4, <2>5 DEF USB_Task
<1>3. Detached(usb_task_state') <=> Detached(usb_task_state)
  BY <1>2 DEF Detached
<1>4. Believed'
  BY <1>1, <1>3 DEF BusInv, Believed, Detached
<1>5. ResetOver'
  <2>1. CASE ResetDevice
    BY <2>1 DEF ResetDevice, Goto, ResetOver, Enumerating
  <2>2. CASE WaitReset
    BY <2>2 DEF WaitReset, InTask, Goto, chip, BusInv, ResetOver, Enumerating
  <2>3. CASE ~ResetDevice /\ ~WaitReset
    <3>1. irq' = irq /\ busrst' = busrst
      BY <2>3 DEF USB_Task, Initialize, Attached, Settle, WaitSof,
                  GetDescriptor, Addressing, Configure, Rest, chip
    <3>2. usb_task_state' \in Enumerating => usb_task_state \in Enumerating
      BY <1>2, <2>3 DEF Enumerating
    <3>3. QED BY <3>1, <3>2 DEF BusInv, ResetOver
  <2>4. QED BY <2>1, <2>2, <2>3
<1>6. RunsAttached'
  <2>1. SUFFICES ASSUME usb_task_state' = RUNNING, Fresh'
                 PROVE  Answers(hidAddr)' /\ RightClass'
    BY DEF RunsAttached
  <2>2. Rest \/ Configure
    BY <2>1 DEF USB_Task, Initialize, Attached, Settle, ResetDevice, WaitReset,
                WaitSof, GetDescriptor, Addressing, Goto, Fails
  <2>3. CASE Rest
    <3>1. UNCHANGED <<usb_task_state, devclass, hidAddr, devAddr>>
      BY <2>3 DEF Rest, Enumeration, devtable, port
    <3>2. QED BY <1>1, <2>1, <3>1 DEF BusInv, RunsAttached, Answers, RightClass
  <2>4. CASE Configure
    <3>1. /\ Answers(tmp_addr) /\ devAddr' = devAddr
          /\ \/ dev = Mouse /\ Claim(HID_M)
             \/ dev = Keyboard /\ Claim(HID_K)
      BY <2>1, <2>4 DEF Configure, Fails, HIDMProbe, HIDKProbe, port
    <3>2. tmp_addr \in Slots
      BY <2>4 DEF Configure, InTask, IInv, ConfiguresNewest, Newest
    <3>3. /\ hidAddr' = tmp_addr
          /\ \/ dev = Mouse /\ devclass'[tmp_addr] = HID_M
             \/ dev = Keyboard /\ devclass'[tmp_addr] = HID_K
      <4>1. DOMAIN devclass = Slots
        BY DEF TypeOK
      <4>2. \A c : Claim(c) => hidAddr' = tmp_addr /\ devclass'[tmp_addr] = c
        BY <3>2, <4>1 DEF Claim
      <4>3. QED BY <3>1, <4>2
    <3>4. Answers(hidAddr)'
      BY <1>1, <3>1, <3>3 DEF Answers
    <3>5. RightClass'
      BY <1>1, <3>3 DEF RightClass
    <3>6. QED BY <3>4, <3>5
  <2>5. QED BY <2>2, <2>3, <2>4
<1>7. QED BY <1>4, <1>5, <1>6 DEF BusInv

\* The application only moves on.
LEMMA BusApp ==
    ASSUME BusInv, GetDriverandReport \/ PollDevice \/ ReportError \/ NotRunning
    PROVE  BusInv'
<1>1. /\ UNCHANGED <<usb_task_state, devclass, hidAddr, irq, busrst, mode, dev,
                     devAddr, missed>>
      /\ pc = "app" /\ pc' \in {"task", "reset"}
  BY DEF GetDriverandReport, PollDevice, ReportError, NotRunning, InApp,
         Enumeration, devtable, chip, port
<1>2. Fresh' => Fresh
  BY <1>1 DEF Fresh
<1>3. QED BY <1>1, <1>2 DEF BusInv, ResetOver, Believed, RunsAttached, Detached,
                            Answers, RightClass, Enumerating

\* A change of the bus is news; the end of a reset changes no device that runs.
LEMMA BusPort ==
    ASSUME TypeOK, BusInv, Plug \/ Unplug \/ ResetDone \/ TimePasses PROVE BusInv'
<1>1. CASE Plug \/ Unplug
  <2>1. /\ UNCHANGED <<pc, usb_task_state, busrst>>
        /\ irq' = irq \cup {"CONDET"}
        /\ missed' = (missed \/ pc \in {"ack", "resetAck"})
    BY <1>1 DEF Plug, Unplug, BusChanges, software
  <2>2. ~Fresh'
    BY <2>1 DEF Fresh
  <2>3. ResetOver'
    BY <2>1 DEF BusInv, ResetOver
  <2>4. QED BY <2>2, <2>3 DEF BusInv, Believed, RunsAttached
<1>2. CASE ResetDone
  <2>1. /\ UNCHANGED <<pc, usb_task_state, dev, missed>>
        /\ irq \subseteq irq' /\ busrst /\ busrst' = FALSE
    BY <1>2 DEF ResetDone, software
  <2>2. Fresh' => Fresh
    BY <2>1 DEF Fresh
  <2>3. usb_task_state' # RUNNING
    BY <2>1 DEF BusInv, ResetOver, Enumerating
  <2>4. ResetOver'
    BY <2>1 DEF ResetOver
  <2>5. QED BY <2>1, <2>2, <2>3, <2>4 DEF BusInv, Believed, RunsAttached, Detached
<1>3. CASE TimePasses
  <2>1. UNCHANGED <<pc, usb_task_state, devclass, hidAddr, irq, busrst, mode, dev,
                    devAddr, missed>>
    BY <1>3 DEF TimePasses, software, devtable, chip, port
  <2>2. QED BY <2>1 DEF BusInv, ResetOver, Believed, RunsAttached, Fresh, Detached,
                        Answers, RightClass, Enumerating
<1>4. QED BY <1>1, <1>2, <1>3

\* The bus invariant holds in every reachable state.
LEMMA BusInvariance == Spec => []BusInv
<1>1. ASSUME TypeOK, IInv, BusInv, [Next]_vars PROVE BusInv'
  <2>1. CASE UNCHANGED vars
    BY <1>1, <2>1 DEF vars, BusInv, ResetOver, Believed, RunsAttached, Fresh, Detached,
                      Answers, RightClass, Enumerating
  <2>2. QED BY <1>1, <2>1, BusChipTask, BusReset, BusTask, BusApp, BusPort
               DEF Next, MainLoop
<1>2. TypeOK /\ IInv /\ BusInv /\ [Next]_vars => BusInv'
  BY <1>1
<1>3. QED BY <1>2, BusInit, Invariance, TypeCorrect, PTL DEF Spec

\* When no change of the bus is pending and none was missed, the host believes
\* in a device exactly when one is plugged in.
THEOREM HostSeesTheBus == Spec => []BusSeen
<1>1. BusInv => BusSeen
  BY DEF BusInv, Believed, Fresh, BusSeen, Informed
<1>2. QED BY <1>1, BusInvariance, PTL

\* Then a device that runs is the one plugged in, at the address and speed
\* that HID.c polls, with its own driver: enumerations that were interrupted
\* by other devices at any step leave none half way.
THEOREM RunningDeviceIsThere == Spec => []RunningIsAttached
<1>1. BusInv => RunningIsAttached
  BY DEF BusInv, RunsAttached, Fresh, RunningIsAttached, Informed, RightClass
<1>2. QED BY <1>1, BusInvariance, PTL
=============================================================================
