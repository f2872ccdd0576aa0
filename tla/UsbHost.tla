------------------------------ MODULE UsbHost -------------------------------
(***************************************************************************)
(* The USB host of the pedalboard: the main loop of main.c, MAX3421E_Task  *)
(* and MaxIntHandler of MAX3421E.c, USB_Task of transfer.c and the probes  *)
(* of HID.c, with a device that is plugged in and out at any moment.       *)
(*                                                                         *)
(* pc is the place in the main loop: MAX3421E_Task ("task", and "ack"      *)
(* between the probe of the bus and the write that clears the serviced     *)
(* interrupts), USB_Task ("usb"), the rest of the turn ("app"), and        *)
(* MAX3421E_init with USB_init ("reset", "resetAck").                      *)
(*                                                                         *)
(* A call of USB_Task is one step: a device that leaves in the middle of   *)
(* it makes every later transfer of the call fail, as if it had left after *)
(* a call in which those transfers failed.                                 *)
(***************************************************************************)
EXTENDS Integers

CONSTANTS USB_NUMDEVICES,  \* devtable has slots 1 .. USB_NUMDEVICES - 1
          Speed            \* of each kind of device: "FS" or "LS"

Keyboard == "keyboard"
Mouse    == "mouse"
Kinds == DOMAIN Speed      \* devices that can be plugged in

ASSUME HostAssumption == /\ USB_NUMDEVICES \in Nat \ {0, 1}
                         /\ Speed \in [Kinds -> {"FS", "LS"}]
                         /\ {"none", "faulty"} \cap Kinds = {}

VARIABLES
    pc,
    usb_task_state,
    epinfo, devclass,  \* devtable[i].epinfo and .devclass, i > 0
    hidAddr,           \* hid_device.addr
    tmp_addr,
    usb_error,
    settle,            \* alt_nticks against usb_delay
    runningdebugflag, errorflag, driver, led9,   \* main; driver is "device"
    irq,               \* HIRQ: "CONDET", "BUSEVENT"
    HIRQ,              \* the copy MaxIntHandler works on
    busrst,            \* HCTL.BUSRST: a bus reset is being driven
    mode,              \* MODE.LOWSPEED: "FS" or "LS"
    dev,               \* what is plugged in
    devAddr,           \* the address it answers to
    missed             \* history: the bus changed between a probe and its ack

main == <<runningdebugflag, errorflag, driver, led9>>
devtable == <<epinfo, devclass>>
chip == <<irq, busrst>>
port == <<dev, devAddr>>
vars == <<pc, usb_task_state, epinfo, devclass, hidAddr, tmp_addr, usb_error,
          settle, runningdebugflag, errorflag, driver, led9, irq, HIRQ,
          busrst, mode, dev, devAddr, missed>>

Slots == 1 .. USB_NUMDEVICES - 1

INITIALIZE == 1     WAIT_FOR_DEVICE == 3      ILLEGAL == 4
ATTACHED == 16      SETTLE == 17              RESET_DEVICE == 18
WAIT_RESET == 19    WAIT_SOF == 20            GET_DESCR == 21
ADDRESSING == 32    CONFIGURING == 48         RUNNING == 64
ERROR == 255
Detached(s) == s \in 0 .. 15       \* (s & USB_STATE_MASK) == USB_STATE_DETACHED

HID_K == 1
HID_M == 2
NoDriver == 255     \* 0xFF, and what "device" holds before it is first set
NoAddress == -1     \* a device that was not reset answers no address

Init ==
    /\ pc = "reset"
    /\ usb_task_state = INITIALIZE
    /\ epinfo = [i \in Slots |-> "NULL"] /\ devclass = [i \in Slots |-> 0]
    /\ hidAddr = 0 /\ tmp_addr = 0
    /\ usb_error = "none" /\ settle = "expired"
    /\ runningdebugflag = FALSE /\ errorflag = FALSE
    /\ driver = NoDriver /\ led9 = FALSE
    /\ irq = {} /\ HIRQ = {} /\ busrst = FALSE /\ mode = "FS"
    /\ dev \in Kinds \cup {"none"} /\ devAddr = NoAddress
    /\ missed = FALSE

-----------------------------------------------------------------------------
(* MAX3421E.c.  An operator marked "mutant" is a plausible bug in the      *)
(* definition that follows it, kept to show that a property can fail.      *)

\* The idle state of the bus, against the speed the controller is set to.
Sample(speed) == CASE dev = "none"   -> "SE0"
                   [] dev = "faulty" -> "SE1"
                   [] OTHER -> IF Speed[dev] = speed THEN "J" ELSE "K"

\* mutant: a connection is ignored unless the port was empty
ProbedKept(bus) ==
    CASE bus \in {"J", "K"} -> IF Detached(usb_task_state) THEN ATTACHED
                               ELSE usb_task_state
      [] bus = "SE1" -> ILLEGAL
      [] bus = "SE0" -> IF Detached(usb_task_state) THEN WAIT_FOR_DEVICE
                        ELSE INITIALIZE

\* mutant: a bus reset is taken for a connection
ProbedInReset(bus) ==
    CASE bus \in {"J", "K"} -> ATTACHED
      [] bus = "SE1" -> ILLEGAL
      [] bus = "SE0" -> IF Detached(usb_task_state) THEN WAIT_FOR_DEVICE
                        ELSE INITIALIZE

\* mutant: nothing is probed during a bus reset
ProbedAfterReset(bus) ==
    IF usb_task_state = WAIT_RESET THEN WAIT_RESET
    ELSE CASE bus \in {"J", "K"} -> ATTACHED
           [] bus = "SE1" -> ILLEGAL
           [] bus = "SE0" -> IF Detached(usb_task_state) THEN WAIT_FOR_DEVICE
                             ELSE INITIALIZE

\* The state MAX_busprobe leaves; a bus reset is not taken for a connection.
Probed(bus) ==
    CASE bus \in {"J", "K"} -> IF usb_task_state = WAIT_RESET THEN WAIT_RESET
                               ELSE ATTACHED
      [] bus = "SE1" -> ILLEGAL
      [] bus = "SE0" -> IF Detached(usb_task_state) THEN WAIT_FOR_DEVICE
                        ELSE INITIALIZE

Other(speed) == IF speed = "FS" THEN "LS" ELSE "FS"

\* The speed it sets: K means that the device is of the other speed.
ProbedSpeed(bus, speed) ==
    CASE bus = "K" /\ usb_task_state # WAIT_RESET -> Other(speed)
      [] bus = "SE0" /\ Detached(usb_task_state) -> "FS"
      [] OTHER -> speed

MAX_busprobe(speed, advance) ==
    /\ usb_task_state' = (Probed(Sample(speed)) + advance) % 256
    /\ mode' = ProbedSpeed(Sample(speed), speed)
    /\ missed' = FALSE

NoInterrupt == /\ pc = "task" /\ "CONDET" \notin irq
               /\ pc' = "usb"
               /\ UNCHANGED <<usb_task_state, devtable, hidAddr, tmp_addr,
                    usb_error, settle, main, chip, HIRQ, mode, port, missed>>

\* HIEN enables CONDET only; a bus event that is pending is served with it.
MaxIntHandler ==
    /\ pc = "task" /\ "CONDET" \in irq
    /\ MAX_busprobe(mode, IF "BUSEVENT" \in irq THEN 1 ELSE 0)
    /\ HIRQ' = irq
    /\ pc' = "ack"
    /\ UNCHANGED <<devtable, hidAddr, tmp_addr, usb_error, settle, main,
                   chip, port>>

IntHandlerAck ==
    /\ pc = "ack"
    /\ irq' = irq \ HIRQ
    /\ HIRQ' = {}
    /\ pc' = "usb"
    /\ UNCHANGED <<usb_task_state, devtable, hidAddr, tmp_addr, usb_error,
                   settle, main, busrst, mode, port, missed>>

\* MAX3421E_init resets the chip (full speed, no interrupt) and probes.
MAX3421E_init ==
    /\ pc = "reset"
    /\ MAX_busprobe("FS", 0)
    /\ irq' = {} /\ busrst' = FALSE
    /\ pc' = "resetAck"
    /\ UNCHANGED <<devtable, hidAddr, tmp_addr, usb_error, settle, main, HIRQ,
                   port>>

USB_init == /\ epinfo' = [i \in Slots |-> "NULL"]
            /\ devclass' = [i \in Slots |-> 0]

InitAck ==
    /\ pc = "resetAck"
    /\ irq' = irq \ {"CONDET"}
    /\ USB_init
    /\ pc' = "task"
    /\ UNCHANGED <<usb_task_state, hidAddr, tmp_addr, usb_error, settle, main,
                   HIRQ, busrst, mode, port, missed>>

-----------------------------------------------------------------------------
(* transfer.c: USB_Task, one action per state that does something.         *)

InTask(s) == /\ pc = "usb" /\ usb_task_state = s
             /\ pc' = "app"
             /\ UNCHANGED <<main, HIRQ, mode, missed>>

Goto(s) == usb_task_state' = s /\ UNCHANGED usb_error

Fails(code) == usb_task_state' = ERROR /\ usb_error' = code

Enumeration == <<devtable, hidAddr, tmp_addr>>

Initialize == /\ InTask(INITIALIZE)
              /\ USB_init
              /\ Goto(WAIT_FOR_DEVICE)
              /\ UNCHANGED <<hidAddr, tmp_addr, settle, chip, port>>

\* usb_delay is 200 ms ahead; the clock does not wrap meanwhile (UsbClock and
\* UsbDispatch show what a wrap does).
Attached == /\ InTask(ATTACHED)
            /\ settle' = "running"
            /\ Goto(SETTLE)
            /\ UNCHANGED <<Enumeration, chip, port>>

Settle == /\ InTask(SETTLE)
          /\ Goto(IF settle = "expired" THEN RESET_DEVICE ELSE SETTLE)
          /\ UNCHANGED <<Enumeration, settle, chip, port>>

ResetDevice == /\ InTask(RESET_DEVICE)
               /\ irq' = irq \ {"BUSEVENT"}
               /\ busrst' = TRUE
               /\ Goto(WAIT_RESET)
               /\ UNCHANGED <<Enumeration, settle, port>>

WaitReset == /\ InTask(WAIT_RESET)
             /\ Goto(IF busrst THEN WAIT_RESET ELSE WAIT_SOF)
             /\ UNCHANGED <<Enumeration, settle, chip, port>>

\* HIRQ | bmFRAMEIRQ is never 0.
WaitSof == /\ InTask(WAIT_SOF)
           /\ Goto(GET_DESCR)
           /\ UNCHANGED <<Enumeration, settle, chip, port>>

\* A transfer can always fail, and succeeds only with the device plugged in,
\* at the right speed and address.
Answers(a) == dev \in Kinds /\ devAddr = a /\ mode = Speed[dev]

GetDescriptor == /\ InTask(GET_DESCR)
                 /\ \/ Answers(0) /\ Goto(ADDRESSING)
                    \/ Fails("transfer")
                 /\ UNCHANGED <<Enumeration, settle, chip, port>>

Free == {i \in Slots : epinfo[i] = "NULL"}

\* mutant: any slot will do
AnyFree(i) == i \in Free

FirstFree(i) == i \in Free /\ \A j \in Free : i <= j

\* A failed SET_ADDRESS may have reached the device all the same.
Addressing ==
    /\ InTask(ADDRESSING)
    /\ IF Free = {}
       THEN Fails("no address") /\ UNCHANGED <<epinfo, tmp_addr, port>>
       ELSE \E i \in Slots :
                /\ FirstFree(i)
                /\ epinfo' = [epinfo EXCEPT ![i] = "dev0ep"]
                /\ UNCHANGED dev
                /\ \/ /\ Answers(0) /\ devAddr' = i
                      /\ tmp_addr' = i
                      /\ Goto(CONFIGURING)
                   \/ /\ \/ devAddr' = devAddr
                         \/ Answers(0) /\ devAddr' = i
                      /\ Fails("transfer")
                      /\ UNCHANGED tmp_addr
    /\ UNCHANGED <<devclass, hidAddr, settle, chip>>

\* What a probe writes once it has read a matching interface descriptor.
Claim(class) == /\ epinfo' = [epinfo EXCEPT ![tmp_addr] = "hid_ep"]
                /\ devclass' = [devclass EXCEPT ![tmp_addr] = class]
                /\ hidAddr' = tmp_addr

HIDMProbe == dev = Mouse /\ Claim(HID_M)
HIDKProbe == dev = Keyboard /\ Claim(HID_K)

\* The probes in turn: at most one of them matches the device.  It can fail
\* before it has filled the device table, and after (SET_CONFIGURATION or
\* SET_PROTOCOL fails, no endpoint descriptor is found).
Configure ==
    /\ InTask(CONFIGURING)
    /\ \/ /\ Fails("no driver")
          /\ UNCHANGED <<devtable, hidAddr>>
       \/ /\ Answers(tmp_addr)
          /\ HIDMProbe \/ HIDKProbe
          /\ Goto(RUNNING) \/ Fails("no driver")
    /\ UNCHANGED <<tmp_addr, settle, chip, port>>

Acting == {INITIALIZE, ATTACHED, SETTLE, RESET_DEVICE, WAIT_RESET, WAIT_SOF,
           GET_DESCR, ADDRESSING, CONFIGURING}

Rest == /\ usb_task_state \notin Acting
        /\ InTask(usb_task_state)
        /\ UNCHANGED <<usb_task_state, Enumeration, usb_error, settle, chip,
                       port>>

USB_Task == \/ Initialize \/ Attached \/ Settle \/ ResetDevice \/ WaitReset
            \/ WaitSof \/ GetDescriptor \/ Addressing \/ Configure \/ Rest

-----------------------------------------------------------------------------
(* main.c: the rest of a turn.                                             *)

InApp == /\ pc = "app"
         /\ UNCHANGED <<usb_task_state, Enumeration, usb_error, settle, chip,
                        HIRQ, mode, port, missed>>

\* mutant: the first slot in use is taken
FirstDriver == LET used == Slots \ Free
               IN IF used = {} THEN NoDriver
                  ELSE devclass[CHOOSE i \in used : \A j \in used : j >= i]

\* What GetDriverandReport finds in the last slot in use.
LastDriver == LET used == Slots \ Free
              IN IF used = {} THEN NoDriver
                 ELSE devclass[CHOOSE i \in used : \A j \in used : j <= i]

GetDriverandReport ==
    /\ InApp /\ usb_task_state = RUNNING /\ ~runningdebugflag
    /\ runningdebugflag' = TRUE
    /\ led9' = TRUE
    /\ driver' = LastDriver
    /\ pc' = "task"
    /\ UNCHANGED errorflag

\* A poll changes nothing here: see UsbPipe.
PollDevice ==
    /\ InApp /\ usb_task_state = RUNNING /\ runningdebugflag
    /\ pc' = "task"
    /\ UNCHANGED main

ReportError ==
    /\ InApp /\ usb_task_state = ERROR
    /\ errorflag' = TRUE
    /\ led9' = IF errorflag THEN led9 ELSE FALSE
    /\ pc' = "task"
    /\ UNCHANGED <<runningdebugflag, driver>>

\* mutant: LED 9 is not switched off
KeepLed == UNCHANGED led9

ClearLed == led9' = FALSE

NotRunning ==
    /\ InApp /\ usb_task_state \notin {RUNNING, ERROR}
    /\ pc' = IF runningdebugflag THEN "reset" ELSE "task"
    /\ runningdebugflag' = FALSE
    /\ errorflag' = FALSE
    /\ ClearLed
    /\ UNCHANGED driver

MainLoop == \/ NoInterrupt \/ MaxIntHandler \/ IntHandlerAck
            \/ MAX3421E_init \/ InitAck
            \/ USB_Task
            \/ GetDriverandReport \/ PollDevice \/ ReportError \/ NotRunning

-----------------------------------------------------------------------------
(* The port, the controller and the clock.                                 *)

software == <<pc, usb_task_state, devtable, hidAddr, tmp_addr, usb_error, main,
              HIRQ, mode>>

\* A connection detected before the acknowledgement of the last one is lost.
BusChanges == /\ irq' = irq \cup {"CONDET"}
              /\ missed' = (missed \/ pc \in {"ack", "resetAck"})
              /\ devAddr' = NoAddress
              /\ UNCHANGED <<software, settle, busrst>>

Plug == /\ dev = "none"
        /\ dev' \in Kinds \cup {"faulty"}
        /\ BusChanges

Unplug == /\ dev # "none"
          /\ dev' = "none"
          /\ BusChanges

\* The reset makes the device answer to address 0, and may be taken for a
\* connection by the controller.
ResetDone == /\ busrst
             /\ busrst' = FALSE
             /\ devAddr' = IF dev \in Kinds THEN 0 ELSE NoAddress
             /\ \E cond \in {{}, {"CONDET"}} :
                    irq' = irq \cup {"BUSEVENT"} \cup cond
             /\ UNCHANGED <<software, settle, dev, missed>>

\* Time reaches usb_delay.
TimePasses == /\ settle = "running" /\ settle' = "expired"
              /\ UNCHANGED <<software, chip, port, missed>>

Next == MainLoop \/ Plug \/ Unplug \/ ResetDone \/ TimePasses

Spec == Init /\ [][Next]_vars

\* The loop never blocks, resets end, time passes.  A bus reset lasts for many
\* turns and does not for ever end between MAX3421E_Task and USB_Task.
Fairness == /\ WF_vars(MainLoop)
            /\ WF_vars(TimePasses)
            /\ WF_vars(ResetDone)
            /\ SF_vars(pc = "app" /\ ResetDone)

FairSpec == Spec /\ Fairness
-----------------------------------------------------------------------------
(* Properties.                                                             *)

\* The types of the variables.  The task state takes two values that
\* USB_Task has no case for: 2 and 5, from usb_task_state++.

TypeOK ==
    /\ pc \in {"task", "ack", "usb", "app", "reset", "resetAck"}
    /\ usb_task_state \in Acting \cup {2, WAIT_FOR_DEVICE, ILLEGAL, 5, RUNNING,
                                       ERROR}
    /\ epinfo \in [Slots -> {"NULL", "dev0ep", "hid_ep"}]
    /\ devclass \in [Slots -> {0, HID_K, HID_M}]
    /\ hidAddr \in Slots \cup {0}
    /\ tmp_addr \in Slots \cup {0}
    /\ usb_error \in {"none", "transfer", "no address", "no driver"}
    /\ settle \in {"expired", "running"}
    /\ runningdebugflag \in BOOLEAN /\ errorflag \in BOOLEAN
    /\ driver \in {0, HID_K, HID_M, NoDriver}
    /\ led9 \in BOOLEAN
    /\ irq \subseteq {"CONDET", "BUSEVENT"}
    /\ HIRQ \subseteq {"CONDET", "BUSEVENT"}
    /\ busrst \in BOOLEAN
    /\ mode \in {"FS", "LS"}
    /\ dev \in Kinds \cup {"none", "faulty"}
    /\ devAddr \in Slots \cup {0, NoAddress}
    /\ missed \in BOOLEAN

\* A device is running in the slot allocated last, and that is the slot the
\* polls of HID.c use, however many slots failed enumerations left behind.
PollsTheNewest ==
    usb_task_state = RUNNING =>
        /\ hidAddr \in Slots
        /\ epinfo[hidAddr] = "hid_ep"
        /\ devclass[hidAddr] \in {HID_K, HID_M}
        /\ \A i \in Slots : i > hidAddr => epinfo[i] = "NULL"

\* The driver main polls with is the one of the device that is running.
DriverMatches ==
    usb_task_state = RUNNING /\ runningdebugflag =>
        hidAddr \in Slots /\ driver = devclass[hidAddr]

\* At the top of the loop nothing is left to tell the software.
Informed == pc = "task" /\ "CONDET" \notin irq /\ ~missed

\* The host then believes in a device exactly when one is plugged in.
BusSeen == Informed => (dev \in Kinds <=> ~Detached(usb_task_state))

\* A running device is still there, at the address polled, with its driver.
RunningIsAttached ==
    Informed /\ usb_task_state = RUNNING =>
        /\ Answers(hidAddr)
        /\ <<dev, devclass[hidAddr]>> \in {<<Keyboard, HID_K>>,
                                           <<Mouse, HID_M>>}

\* LED 9 is lit at the top of the loop exactly when a device is running.
LedTellsRunning == pc = "task" => (led9 <=> usb_task_state = RUNNING)

\* A device that stays plugged in ends up running or in the error state.
EnumerationEnds ==
    <>[](dev \in Kinds /\ ~missed) => <>[](usb_task_state \in {RUNNING, ERROR})

\* transfer.c: "Detached state - when nothing is connected".
DetachedIsEmpty == pc = "task" /\ "CONDET" \notin irq
                   /\ usb_task_state = WAIT_FOR_DEVICE => dev = "none"
=============================================================================
