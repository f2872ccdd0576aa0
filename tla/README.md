# Verification of the ECE 385 laboratory designs

The repository holds the hand-written SystemVerilog and C of seven FPGA
laboratories.  This directory holds TLA+ models of them, the TLC
configurations that check the models on small instances, and TLAPS proofs of
what holds for every instance.

## The system

| Part | Sources | State it keeps | Operations | What is hard |
|---|---|---|---|---|
| USB packet dispatch | `usb_kb/transfer.c` 137-186 | per call: deadline, NAK and retry counters; the controller's done flag and result register | launch, poll, re-send, give up | a late completion, two limits and a deadline in one loop, the wrapping millisecond clock |
| USB transfers | `transfer.c` 72-136, 187-227, `HID.c` 207-222 | data toggles per endpoint, byte count of the transfer | control requests, multi-packet IN transfers, report polls | lost acknowledgements, toggle errors, a transfer that fails after some packets |
| USB host | `transfer.c` 228-385, `HID.c`, `MAX3421E.c`, `main.c` | task state, device table, endpoint records, the application's flags | interrupt handler, bus probe, enumeration steps, class probes, polling loop | plugging and unplugging at any step, an interrupt that advances a state it does not know, table entries nobody frees |
| Audio codec set-up | `sgtl5000_test.c` 110-178, `sgtl5000.c`, `altera_avalon_i2c.c`, `altera_avalon_i2c_*.v` | the program's buffer and retry counter, the driver's status, the controller's FSM, enable bit, abort bits and FIFOs, the codec's registers and pointer | register reads and writes, each a queue of commands, waits with a limit, retries | refused bytes noticed after more commands were queued, lost acknowledgements and arbitration, a held bus, one buffer for address and answer |
| Control panel | `controlpanel.sv`, `text_mode_vga_color.c` 55-247 | effect parameters in hardware, the levels the display software believes | button edges, saturating up/down, reset; the polling loop | two observers of the same buttons that must agree |
| Audio chain | `i2s_in.sv`, `i2s_out.sv`, `gainstager.sv`, `bitcrusher.sv`, `overdrive.sv`, `tremolo.sv`, `lowpassfilter.sv` | shift registers, filter window | one step per clock of SCLK or LRCLK | frames and their order, overflow of shifted samples |
| Delay pedal | `delay.sv`, `Spoogus.v` | ring buffer in dual-port RAM, write address, the RAM's registers | store and tap at the clocks of the RAM, advance at an edge of LRCLK | two clocks, a latency of two, a knob that moves at any clock |
| Multiplier | `Multiplier/multiplier/*.sv` | control state, registers X, A, B | load, add, shift, subtract | consecutive multiplications, switches that move during one |
| Serial logic processor | `8 bit serial processor/logic_processor_4bit/*.sv` | control state, registers A, B | load, eight shifts | switches sampled every clock, a held Execute |
| Adders and accumulator | `16 bit adders/**` | accumulator, run-once control | ripple, look-ahead and select addition, one load per press | agreement of three carry networks, one addition per press |
| SLC-3 computer | `SLC3/*.sv` | ISDU state, registers, memory, memory-mapped I/O | one control state per clock | multi-cycle memory accesses, stores to code |
| NIOS accumulator | `lab61_app/main.c` | LED sum, press flag | polling loop | one addition per press |
| VGA text mode | `VGA_controller.sv`, `vga_text_avl_interface.sv`, `text_mode_vga*.c` | pixel counters, text and palette memory | sync generation, register writes, read-modify-write of palette words | off-by-one timing, a write-only register that software reads back |

### How the parts interact

The USB host program is one endless loop (`main.c` 146-228).  Each turn runs
the controller's interrupt handler if its pin is low, then one step of the USB
state machine, then the application: it identifies a new device, polls it, or
resets the controller after a disconnect.  The state machine and the class
probes call control transfers, which call the packet dispatcher; everything
shares `usb_task_state`, `devtable`, the endpoint records and the controller's
registers.  Cables are plugged and unplugged at any moment, and the driver
only learns of it when the loop comes round to the interrupt handler.

At start-up `main` of the pedalboard sets the audio codec up: each register
access queues commands in the I2C controller's FIFO, which the controller's
state machine sends while the driver goes on queueing, waits, and reads the
abort bits; a refused transfer is repeated from the buffer of the caller.

In the audio pedalboard the push buttons and switches reach two observers: the
control panel hardware, which changes the effect parameters, and the NIOS
program that draws the levels on the screen.

The other laboratories are single synchronous designs, driven by switches and
buttons that a person moves at any clock.

## Modules

| Module | Models | Role |
|---|---|---|
| `UsbClock` | the millisecond clock of the USB driver | operators of `UsbDispatch` |
| `UsbDispatch` | `XferDispatchPkt` and the controller's transfer unit | component |
| `BoundedRetry` | what a caller of `XferDispatchPkt` is promised | abstract specification |
| `UsbPipe` | `XferCtrlReq`, `XferInTransfer`, `mousePoll`, `kbdPoll`, the device and the bus | component |
| `UsbEndpoints` | a polled endpoint and endpoint 0 behind one toggle bit of the controller | composition of two instances of `UsbPipe` |
| `ReportStream` | reports delivered once and in order | abstract specification |
| `UsbHost` | `main`, `MAX3421E_Task`, `MaxIntHandler`, `USB_Task`, the class probes, the cable | composition |
| `I2cMaster` | the I2C controller's FSM, FIFOs and registers, the bus and the codec | component |
| `CodecSetup` | `SGTL5000_Reg_Rd`, `SGTL5000_Reg_Wr` and the polled functions of the I2C driver | composition, extends `I2cMaster` |
| `Sgtl5000` | the codec's registers, the calls of `main` | constants |
| `CodecRegisters` | a script's writes take effect in order | abstract specification |
| `ControlPanel` | `controlpanel.sv` | component |
| `PanelDisplay` | the panel with the polling loop of `textVGAColorScreenSaver` | composition, extends `ControlPanel` |
| `Multiplier` | control, registers and adder of the multiplier | component |
| `SLC3Words` | fields and arithmetic of SLC-3 words | operators |
| `SLC3` | ISDU, data path, memory, memory-mapped I/O, loader | component |
| `SLC3Isa` | the instruction set, one step per instruction | abstract specification |
| `SerialProcessor` | control, registers, function unit and router | component |
| `LogicUnit` | one operation on whole registers per press | abstract specification |
| `DelayLine` | the delay pedal, one channel | component |
| `EchoLine` | a sample leaves with its echo | abstract specification |
| `MC*` | values of the constants for TLC | |
| `Pedalboard_proofs` | theorems about `ControlPanel`, `PanelDisplay` and `DelayLine` | |
| other `*_proofs` | theorems about the module of that name | |

A component that has an abstract specification instantiates it with a
refinement mapping (`INSTANCE ... WITH`) and names the result `RetrySpec`,
`StreamSpec`, `RegistersSpec`, `IsaSpec`, `UnitSpec`, `EchoSpec`.  Variables
marked *history* in a module are read by properties and never by a guard.

### `UsbDispatch`

`pc` is the place in the loop of lines 137-186: `Call` computes the deadline,
`Launch` writes the launch register, `SeeDone` and `GiveUp` leave the
wait, and one action per arm of the `switch` follows.  `nak_count`,
`retry_count`, `timeout` and `rcode` are the variables of the code.  The
controller is `flight`, `hxfrdn` (the interrupt flag), and `hrsl` (the result):
it completes the packet in flight at any step, also after the call that
launched it has returned 0xff.  `Tick` advances `alt_nticks`.  A result carries
whose packet it belongs to, "own" or an earlier call's; that is what
`SoundUntilTimeout` looks at.

The clock is `(alt_nticks()*1000)/alt_ticks_per_second()`.  The product is taken
in 32 bits before the division, so it is a sawtooth that never exceeds 4,294,967.
`ClockWraps` selects whether a run reaches the wrap.

### `UsbPipe`

One call of `XferDispatchPkt` is one step with any outcome it can have on a bus
that loses packets and acknowledgements.  `XferCtrlReq` runs from `setup`
through `in` to `status`; a poll is `in` alone.  `rcvToggle` is the toggle the
driver saves between transfers, `hctlToggle` the controller's, `devToggle` the
device's.  A lost acknowledgement leaves `devNext` and `devToggle` alone while
the host has the packet.  Bytes are abstracted to packet numbers and sizes; a
transfer ends on a short packet or on the byte count, as at line 219, and
`TypeOK` holds `xfrlen` to that count: the buffer is no longer.  With
`Kind = "interrupt"` the module is a report pipe, with `"control"` pipe 0.
`OtherTransfer` is what the pipe sees of all others: between its calls they may
leave any toggle in HCTL.

### `UsbEndpoints`

The variables of `UsbPipe` are the polled endpoint, the instance `Requests`
with variables of its own is endpoint 0; the two share `hctlToggle` only.  The
program has one thread, so a request starts with no poll under way and a poll
with no request.  Each of the two specifications of `UsbPipe` is implied, with
the steps of the other endpoint as `OtherTransfer`: that is how the proofs
about one pipe carry over.

### `UsbHost`

`pc` is the place in the main loop, `usb_task_state` the number the code keeps,
also the two numbers that `usb_task_state++` of the interrupt handler can reach
and `USB_Task` has no case for (2 and 5).  `epinfo`, `devclass` and `hidAddr`
are the device table, `runningdebugflag`, `errorflag`, `driver` and `led9` the
application's.  `dev`, `devAddr`, `mode`, `irq` and `busrst` are the cable and
the controller.  `Plug` and `Unplug` are enabled at every step.  The interrupt
handler is two steps, probe and acknowledgement, since a change of the bus
between them is what it can lose; a call of `USB_Task` is one step, for the
reason given at the head of the module.  Time is `settle`: whether `usb_delay`
has passed.

### `I2cMaster` and `CodecSetup`

In `I2cMaster` a step of `Progress` is a state of the master FSM that ends with
a byte sent or received, a command taken or a STOP; `Refused`, `AckLost` and
`ArbLost` are the three ways a byte goes wrong, `BusSticks` a line held for
good.  An abort bit keeps both FIFOs flushed until the driver clears ISR, so a
command written meanwhile is lost.  `rxram0` is what place 0 of the receive
FIFO's memory holds: a read of the empty FIFO returns it.

`CodecSetup` has one action per access of the driver to the controller: `pc`
is the place in `alt_avalon_i2c_cmd_write`, `_rx_read_available`, `_rx_read`,
the wait for idle and the end of `alt_avalon_i2c_master_transmit` or
`_receive` (`phase`), `retry` the counter of `while (retry--)`, `buffer` the
buffer of the caller, `call` the place in `main`.  A wait gives up only when
the controller is `Stalled`, that is, when nothing will happen until the
program acts: the polling loops sleep for 10 ms after each of their last nine
polls, a byte takes about 90 microseconds.  A call that fails hangs the
program, as `sgtl5000.c` does.

### `ControlPanel` and `PanelDisplay`

`Clock` is one edge of the 50 MHz clock: the two-stage edge detectors and the
guarded registers.  The user's actions move a key or the switches between
edges.  `PanelDisplay` adds the display program, whose turn reads the switches,
counts on each key, and re-arms on each key, in five reads of the inputs
between which clocks and moves of the user can fall.  `orderly` is a history
variable for how the inputs were used, `ups` and `downs` count the clocks that
saw an edge of a key since it was last up.

### `Multiplier`

`curr_state` numbers the states of `Control.sv`: idle, clear, then an add and a
shift per bit, then wait.  `Clock` is one edge with the registers X, A, B and
the nine-bit adder; words are numbers below `T` = 2^W with two's complement by
`Signed`.  `Pow2` gives the powers so that the proofs need no recursion.
`Buttons` and `Switches` move the inputs between edges.

### `SLC3`

`Clock` is one edge for all registers: the state register of `ISDU.sv`, PC, IR,
MAR, MDR, BEN, the condition codes, the register file, the display, the RAM
with its two output registers, and `Instantiateram.sv` with its address.
States keep their names (`S_18`, `S_33_1`, ...), `Successor` is the part of the
next-state logic without a branch.  A step of `SLC3Isa` is taken at the state
in which an instruction's last register is loaded.

`ISDU.sv` as committed does not compile: the block of lines 124-143 was dragged
into the comment above "Assign next state".  The model reads it back behind
line 151; the synthesis database (`db/LC3.smp_dump.txt`) and `ISDU.sv.bak` show
the same machine, the latter with one wait state less per memory access.

### `SerialProcessor`

Each step is one edge of the clock: `Reset`, `Load` (at rest, with the load
buttons) or `Compute`, a shift with the switch setting of that clock.
Registers are functions from bit positions to BOOLEAN, in `LogicUnit` sets of
positions.  `at` remembers the switches at each shift, so that the abstract
operation can say bit by bit what was asked.  The phases of `LogicUnit` are the
idle state, the shifts, and the state that waits for Execute to be let go; only
Execute leads from the first to the second.

### `DelayLine`

`RamClock` is an edge of the 50 MHz clock at which both ports of the RAM work,
`Fall` and `Rise` are the edges of LRCLK, `Turn` moves the knob or the switch.
The RAM registers its address and its output, so `q` lags two clocks.  An edge
of LRCLK needs `age = Latency`: a half frame is more than 500 clocks long, far
more than the three the model requires.  The refinement takes `mem` read
backwards from the write address as the past of `EchoLine`.

## Runs

| Run | Instance | Distinct states | What it shows |
|---|---|---|---|
| `dispatch` | `NAK_LIMIT` 3, `RETRY_LIMIT` 2, deadline 3 ms, clock to 26 ticks | 145,206 | Re-sends are bounded (`LaunchesBounded`); until a call has given up at its deadline, every call returns the result of its own packet and leaves the controller quiet (`SoundUntilTimeout`); it implements `BoundedRetry`; every call returns (`CallsReturn`) |
| `dispatch_wrap` | the same, with the wrap | violation | `CallsReturn` fails when the clock wraps |
| `endpoints` | 8-byte reports in one packet, three of them; requests for 18 bytes of which there are 16, packets of 8; any number of requests and polls in turn | 65,400 | The saved toggle tells repeats from new reports whatever requests left in HCTL (`TogglesTellRepeats`); reports arrive once and in order (`StreamSpec`), and in the end (`ReportsArrive`); an answer handed over with code 0 is complete and in order, however often earlier requests failed (`WholeAnswers`); a transfer never takes more bytes than it asked for (`TypeOK`) |
| `host` | two addresses, keyboard (full speed), mouse (low speed), a device nobody drives, a faulty device | 1,136,356 | The seven properties below |
| `host_lost` | the same | violation | `DetachedIsEmpty` fails |
| `codec` | the 21 calls of `main`, FIFOs of four, two attempts per transfer, two bytes that go wrong, a line that may be held for good at any step | 640,699 | A read that succeeds is one whole register (`ReadsOneRegister`); the program hangs for a reason only (`HangsForAReason`); it implements `CodecRegisters`: writes in order, each before its call returns (`RegistersSpec`); it ends (`SetupEnds`) |
| `codec_read` | the same | violation | `ReadsTheRegisterAsked` fails |
| `panel` | two parameters with three and two levels, one switch position without parameter | 235,126 | A press of either key counts once, levels do not jump and both keys together clear, the screen agrees with the hardware after orderly use and catches up |
| `multiplier` | words of four bits, all operands | 822,864 | Products, partial products, one multiplication per press |
| `slc3` | 32 words, a program with every opcode that rewrites itself | 118,848 | The machine implements the instruction set; a fetched word is the one in memory; instructions end |
| `serial` | three bits, ten switch settings with every function and route | 142,336 | Partial results, one operation per press and none without one |
| `echo` | ring of four cells, taps of one and two, three samples | 585,588 | The RAM pipeline belongs to the sample under way; every sample leaves with its echo |

The properties of `host`: the device table's slots are used in order and the
newest is polled (`PollsTheNewest`), with the driver of the attached device
(`DriverMatches`); when no change of the bus is pending and none was missed,
the state agrees with the bus (`BusSeen`) and a running device is the attached
one at the address it answers to (`RunningIsAttached`); LED 9 tells whether a
device runs (`LedTellsRunning`); a device that stays plugged in ends up running
or in the error state (`EnumerationEnds`).

### Why the bounds are enough

- *dispatch*: both limits are above one, so that NAKs and bus timeouts mix
  within a call, exhaust either limit, and run into the deadline; two calls
  suffice for a late completion to meet the next call, and the run has as many
  as the clock allows.  The tick count is capped below the wrap, or wraps.
- *endpoints*: a toggle has two values, so three packets in a row show every
  relation of three toggles, in the reports as in the answer (8, 8 and an empty
  packet: the boundary case of the byte count).  Requests and polls alternate
  without bound.  The theorems have no bound on reports or answers.
- *codec*: two faults can fall into one transfer or two, before and after its
  last command, and exhaust the attempts or leave one; the driver's 10,000
  attempts differ in that no fault count reaches them.  A write's five
  commands and a read's six exceed the FIFO of four, so that the wait for room
  occurs.  The memory of the FIFO powers up with all bits clear or set.
- *host*: with two addresses the table can be empty, partly used and full
  after failed enumerations.  The device kinds cover both speeds and the
  matching, non-matching and failing outcome of each probe.
- *panel*: a range of two levels has both guards adjacent, one of three an
  interior; another parameter shows that switching selects the right one.
- *multiplier*, *serial*, *echo*: proved for any width or ring as well; the
  run also checks the definitions on which the proof rests.
- *slc3*: 32 words hold a program of every opcode, with both outcomes of a
  branch, a store to the instruction that follows, input, output and a pause.
  Reset may come in every state.

### Fairness

- *dispatch*: weak fairness of the driver's steps (a single-task processor
  that nothing preempts for good) and of the tick (the timer interrupt), and
  strong fairness of giving up (the wait loop reads the clock many times in
  each millisecond, so it sees the expired deadline).  Nothing obliges the
  controller to complete a packet.
- *endpoints*: weak fairness of a request under way (every call returns) and
  of the packets of a poll, strong fairness of the poll itself (the main loop
  comes back to it after any number of requests), and strong fairness of a
  packet, and of an acknowledgement after a repeat, getting through (a bus that
  loses everything delivers nothing).  Nothing obliges the device to report.
- *codec*: weak fairness of the program (one task that nothing preempts) and
  of the controller (its clock runs; a held line disables its steps).
- *host*: weak fairness of the loop, of time and of the end of a bus reset,
  and strong fairness of the reset ending while the loop is in the
  application (a reset of 50 ms ends at some place in a loop of microseconds;
  without this it could avoid one place for ever).  Cable and bus errors have
  no fairness.
- *panel*: the program polls for ever and the clock ticks; a user lets a key
  go in the end, once panel and program have seen it.
- *slc3*: the clock ticks.
- *multiplier*, *serial*, *echo*: safety only.

Deadlock is checked in every run but those of the codec: there `main` goes on
to code outside the model after its last call, or hangs in an endless loop.

## Proofs

The theorems hold for every value of the constants that satisfies the named
assumption of the component.  Each proof is the usual one: an inductive
invariant `IInv` holds initially and is kept by each action; the property
follows from it; PTL puts the steps together.

- `UsbDispatch_proofs`: types, `LaunchesBounded`, `SoundUntilTimeout` and the
  refinement of `BoundedRetry`, for all limits, deadlines and word sizes, with
  and without the wrap.  `TypeOK` is not inductive alone, since the counters'
  ranges bound `sent` only through `LaunchesBounded`; soundness needs
  `QuietUntilTimeout`, which says that between calls no packet is in flight and
  no flag is up.
- `UsbPipe_proofs`: under `SinglePacket` (an interrupt pipe whose reports fit
  one packet and end their transfer), types with the bound on the bytes
  stored, `TogglesTellRepeats` and the
  refinement of `ReportStream` for any number of reports.  `Sync` relates the
  toggles to the number of reports delivered: equal toggles mean that the
  device sends the next one, unequal ones that it repeats the last.  The proofs
  are of `UsbPipe` alone; `PollsAreAPipe` and `RequestsAreAPipe` show that each
  endpoint of `UsbEndpoints` is one, so that they hold beside control requests.
  `WholeAnswers` is proved for every size of answer, request and packet:
  within a transfer the packets collected are 1, 2, ..., the byte count is
  theirs, and the transfer ends with the last and not before, which takes the
  arithmetic of `PktsPerTransfer`.
- `UsbHost_proofs`: types and the five invariants of the run, for every table
  size and set of devices.  The invariant adds that used slots are a prefix of
  the table, that the slot being configured is the newest, and for each place
  of the loop which states may go with a set `runningdebugflag`.  `BusSeen` and
  `RunningIsAttached` speak of the top of the loop; `BusInv` says the same of
  every place where the bus is `Fresh` (nothing pending but what has been
  probed and is about to be acknowledged), and that no reset is driven once the
  state is past waiting for one, so that its end cannot take the address of a
  device that runs.
- `CodecSetup_proofs`: types, `ReadsOneRegister`, `HangsForAReason` and the
  refinement of `CodecRegisters`, for any script, any number of attempts and
  faults, and FIFOs of two places or more (with one, the receive FIFO can
  overflow before the driver reads it).  The invariant has a part about
  control (which statuses, attempts and controller states go with each place of
  the driver) and one about the conversation of an attempt that nothing has
  disturbed: what the codec has taken, what the FSM is shifting and what is in
  the FIFO are together the commands written so far, and the bytes it gave are
  those in the receive FIFO and the buffer.  A disturbed attempt leaves a bit
  in ISR until the next begins.
- `Pedalboard_proofs`: levels stay in range, a press of either key counts
  once, levels do not jump and both keys clear, for any set of parameters and
  ranges.  `Edges` relates the two flops of an edge detector to the clocks
  since the press (`EdgeStep` is its lemma for one key).  Of `PanelDisplay`: the
  screen's levels stay in range, and `ScreenAgrees`.  While the user is
  orderly one key at most is on its way through panel and program, and the
  screen is one step behind the panel exactly while the panel has counted a
  press that the program has not (`UpOwed`, `DownOwed`); the first turn of the
  loop, which counts a press of each key that was not made, is a case of its
  own (`Started`).
  Of `DelayLine`: types, `Pipeline` and the refinement of `EchoLine`, for any
  ring, any taps shorter than the ring, any knob and words.
- `Multiplier_proofs`: types, product, partial products and one multiplication
  per press, for words of any width.  After k bits, {A,B} is the product of
  the multiplicand with the bits used, shifted by k, above the bits not used.
  The lemmas on the nine-bit adder, on signed shifts and on the weights of the
  bits carry the arithmetic; they are products of variables, which the prover
  only accepts in steps that isolate them.
- `SLC3_proofs`: types, `InstructionFetched` and the refinement of `SLC3Isa`,
  for every size of memory, every image and program, and every use of buttons
  and switches (see below); that `And` is bitwise (`AndIsBitwise`); and the
  bound behind `InstructionsEnd`: from its first wait state on, an instruction
  has at most ten clocks left, and every clock takes at least one of them
  (`InstructionProgress`).
- `SerialProcessor_proofs`: types, partial results and the refinement of
  `LogicUnit`, for any width and any switch settings.

### The refinement of the instruction set

`Spec => IsaSpec` of `SLC3` goes from machine states to instructions, and
nothing in it is about one program.

1. *Words.*  The lemmas on `Plus`, `And`, `Sext` and the fields are the only
   ones that look at the 65,536 words; all others know that the operations stay
   in `Word` and that `Before` undoes the increment of the PC, also where the
   address wraps (`Back`).
2. *Effects.*  One lemma per control state, or group of alike ones, says what a
   clock does there to each register.  It follows from the signals that
   `Control` names for the state, and the rest of the proof never expands the
   data path again.
3. *Invariant.*  `Fetching` follows an address through the memory: what `latch`
   and `q` hold in each wait state, then MDR, then IR.  `Executing` says for
   each state of an instruction that IR has its opcode and that MAR, MDR and
   BEN are what the instruction needs; in the second and third clock of a store
   memory and hex display already have the word, so that writing it again shows
   nothing.  Both speak of a program that was not started `early`; `Started`
   (such a program runs in a loaded memory only) and `Waiting` (a halted
   processor is as after a reset) connect them with the loader, whose progress
   is `Loading`.
4. *Refinement.*  `Views` lists what `SLC3Isa` sees of each state.  The fetch,
   the way to an effect and the states after one are stutters (`FetchSilent`,
   `WaySilent`, `AfterSilent`); the state with the effect is the instruction
   whose word IR holds (`OperateRefined`, `StoreRefined`, `TransferRefined`,
   `DecodeRefined`, `PauseRefined`).  The decode is the effect of a pause and
   of an opcode that has no states.  Reset, start, loading and a program
   started too early are steps of their own.

The proof asked for two changes of the model.  `Mode` now tests `early` before
the state, since a CASE with two true guards has no defined value; and words
and `And` are written without folds or literals that the solver would
enumerate.

### What stays with TLC

Liveness (`CallsReturn`, `ReportsArrive`, `EnumerationEnds`, `SetupEnds`,
`ScreenCatchesUp`, `InstructionsEnd`) needs fairness and ENABLED, which the
prover does not treat.  Of three of them the safety half is proved, the variant
that the argument descends:

- `InstructionProgress` (`SLC3`): clocks left in an instruction, ten at most.
- `CallsRunOut` (`UsbDispatch`): driver steps left in a call, at most three for
  each re-send the limits allow, whatever the controller answers.  What can
  still keep a call is its poll; `DeadlineReachable` and `PassedForGood` say
  that without a wrap the deadline is a value the clock has yet to show, and
  that it stays passed once it is.  Both assume `ClockWraps` FALSE, which is
  what the finding `dispatch_wrap` is about.
- `SetupRunsOut` (`CodecSetup`): calls, attempts of a call, accesses of an
  attempt (41 at most), and between two accesses at most `4 * FIFO_DEPTH + 3`
  steps of the controller, in this order; it needs the invariant for the places
  of `master_receive`.

What is missing in each is that the program, the clock or the controller does
take its next step, which is the fairness assumed.  The others have no such
variant: a report may be lost any number of times, and an enumeration starts
over with each connection the controller reports.

`UsbPipe` is proved for reports of one packet, which is what keyboard and mouse
send.  No theorem is by induction over data.  Every
invariant and every refinement that a run checks has a theorem.

## Findings

1. `dispatch_wrap`, `transfer.c:144`.  A deadline computed within five seconds
   before the clock's wrap (every 71.6 minutes) is above every later clock
   value; a call on a silent controller then polls for ever, against the
   comment "exit if timeout" of line 161.
2. `host_lost`, `MAX3421E.c:162`.  The driver probes the bus and clears the
   connection interrupt afterwards.  A device plugged in between raises none,
   and the host stays in the state described as "nothing is connected"
   (`transfer.c:256`) until the cable moves again.
3. `codec_read`, `sgtl5000.c:15`.  `SGTL5000_Reg_Rd` passes one buffer for the
   register's address and for its value, which `altera_avalon_i2c.h:761`
   allows; line 746 promises that a refused transfer is retried.  If the codec
   refuses a byte after the last command was queued, the wait for the answer
   times out and stores what the empty FIFO shows in `buffer[0]`
   (`altera_avalon_i2c.c:366`); the NACK found afterwards starts another
   attempt with the overwritten address, and the call succeeds with the value
   of another register.

Behaviour worth knowing that is not against any statement of the repository:

- A write whose arbitration is lost after its last command was queued returns
  success without having been made: line 676 of the driver looks for a NACK
  only.  In `CodecRegisters` this is `lost`.  A read in the same case times out
  and hangs the program.
- A transmission that times out is not repeated; `alt_avalon_i2c_master_tx_rx`
  goes on to receive with the controller disabled, where every wait times out.

- A packet that completes after its call gave up is taken by the next call for
  its own, and every later call is one packet behind.  `SoundUntilTimeout`
  stops at the first such timeout for this reason.
- `transfer.c:219`: a full packet shorter than eight bytes does not end a
  poll; if the next IN is answered NAK the report is dropped.
- `transfer.c:298`: `WaitSof` tests `HIRQ | bmFRAMEIRQ`, which is never zero,
  so it does not wait.
- `transfer.c:312`: the failure of the second descriptor read is ignored; it
  affects only the strings that are printed.
- `transfer.c:281`: a connection served together with a bus event skips the
  state that sets `usb_delay`, so the device gets what is left of an old delay,
  or none, instead of 200 ms.  `UsbHost` takes both outcomes; enumeration ends
  either way, and no property promises the 200 ms.
- Failed enumerations leave slots of `devtable` in use until the next
  disconnection.
- The panel and the screen may disagree for good if both keys are held or the
  switches move while a key is held; keys are neither debounced nor
  synchronised.
- A SLC-3 program started while the loader writes it does not run as written;
  a store to 0xFFFF also writes RAM word 0x3FF, and addresses alias modulo
  1024; after a reset no condition code is set, so `BRnzp` is not taken before
  an instruction has set one.
- `overdrive.sv:34`: the threshold lacks the seven low zero bits of a sample,
  so a clipped sample leaves 128 times smaller than line 19 says.
  `lowpassfilter.sv:54`: the averages leave out the newest stored sample.
  `bitcrusher.sv`: the right output takes bit 31 and the low bits from the
  left channel.

## Limits of the models

- `UsbHost` does not combine the settling delay with the clock's wrap
  (`transfer.c:281`), leaves its state `WaitSof` at the first turn (see above),
  and has no strings.  A call of `USB_Task` is atomic.  OUT data stages do not
  exist in the code.
- `XferDispatchPkt` is one step in `UsbPipe`: a result that belongs to an
  earlier packet is not among its outcomes, so the transfers' properties hold
  until the first timeout of that kind.
- In `DelayLine` LRCLK changes between clocks; a write address sampled in the
  middle of a change is not modelled.  The sum of sample and echo wraps, as in
  the code; both the pedal and `EchoLine` use the same `Mix`, so the
  arithmetic of a quarter is not cross-checked.  Below the sample, the carry
  of the sum lands in a bit that the codec ignores.
- In `I2cMaster` a byte is one step and its bits have no timing; the interrupt
  functions of the driver are not used by this program and not modelled.
  A lost arbitration lets go of the bus at once, and the codec is the only
  slave.
- `SLC3` and `SLC3Isa` share the decoding of fields and the operations on words
  (`SLC3Words`), so their refinement does not cross-check those; `AndIsBitwise`
  does it for the one that is not a line of arithmetic.  `PauseIR1` shows ten of
  the twelve LED bits, and the LEDs are not part of `SLC3Isa`.
- Hex digits, colours, glyphs and wording are left out throughout.

## Not modelled

- *Adders and accumulator*: three combinational networks against addition, a
  question for equivalence checking rather than for behaviours; the
  accumulator around them is one register with a run-once control of three
  states, the mechanism that `OnePerPress` and `UnitSpec` examine in the
  multiplier and the serial processor.
- *NIOS accumulator*: one polling loop of one flag and one sum, the mechanism of
  the level display program.
- *Audio chain*: gain, bit crusher and overdrive are arithmetic on one sample,
  the tremolo is a counter and the low-pass filter a window; the delay pedal
  is the one with state that outlives a frame and has two clocks, and is
  modelled.  The serial frames in and out are shift registers in step with the
  codec's clocks, driven by a codec the repository does not contain.
- *VGA text mode*: the counters of the timing and the wiring of glyphs and
  colours have no second actor.  Palette words are read, changed and written
  back by one thread.
- *SLC-3 programs and test memory*: input to the machine.  The program of the
  run is its own.
- *Vendor code and generated files*: the board support packages beyond the I2C
  driver, the NIOS II system beyond the I2C controller, fonts, synthesis
  databases, reports and simulation output.  They are by far the larger part of
  the files in the repository.

## How the project was ordered

Packet dispatch, transfers, host, panel with display, multiplier, SLC-3, serial
processor, delay pedal, the two endpoints, the codec's set-up: first the
software with a bus that loses and disturbs, then the machines with a person at
their switches.  The packet dispatcher and the transfers stay separate models:
the results of a packet in `UsbPipe` are those that `UsbDispatch` shows for a
call before the first timeout.
