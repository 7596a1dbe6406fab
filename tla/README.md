# Verification of the Ibex demo system

TLA+ models of the Ibex demo system (Sonata board variant): the peripherals and
interconnect written in SystemVerilog (`src/rtl`, and the vendored IP they
instantiate), and the C drivers and demos that run on them (`src/sw/c`). TLC
checks the models on small instances; TLAPS proves their most important
properties for every value of the parameters: the FIFO that the serial
peripherals are built on and that it implements a bounded queue, two UARTs on
one line, a UART and a transmitter that is too fast or too slow, the bus, the
reset controller, the SPI controller under the LCD driver, the timer under
`timer_delay`, GPIO and PWM under hello_world, hello_world itself, and the LCD
demo with its console, its `printf` and its fixed-point picture.

Line numbers below are those of the sources; `PROJECT.json` maps every
definition to the lines it models.

## 1. Inventory

| Component | State | Operations | Model |
|---|---|---|---|
| FIFO primitive (`prim_fifo_sync`, `_cnt`) | wrap pointers, storage, `under_rst` | push, pop, both, reset | `PrimFifo`, `BoundedQueue`, `QueueOps` |
| UART (`uart.sv`) | two baud counters, two state machines, bit counters, shift bytes, synchroniser, two FIFOs | clock edge; write TX, read RX, read STATUS | `UartTx`, `UartRx`, `UartLine`, `UartLink` |
| SPI controller (`spi_top.sv`, `spi_host.sv`) | SCK divider, state machine, bit counter, shift byte, TX FIFO, edge register | clock edge; write TX, read STATUS | `SpiTop`, `SpiWires` |
| LCD driver calls (`lcd_st7735.c`, `main.c`, `spi.c`, `gpio.c`) | program counter, GPIO output bits | `gpio_write`, `spi_write` | `LcdSpi` |
| Timer and driver (`timer.sv`, `timer.c`) | `mtime`, `mtimecmp`, sticky interrupt; `time_elapsed` | clock edge; half-register accesses; handler, enable, disable, delay | `Timer`, `TimerDelay` |
| Bus and interconnect (`bus.sv`, `ibex_demo_system.sv`) | who was selected last cycle; responses of the devices; fetch port | arbitration, decoding, response; fetch grant; ndmreset | `Bus` |
| Debug system bus access (`dm_sba.sv`) | state machine | read, write, errors | in `Bus` |
| Core's bus interface (LSU, ID stage, prefetch) | LSU FSM, first/multi cycle, outstanding fetches | load, store, split access, fetch, branch | in `Bus` |
| Reset controller (`rst_ctrl.sv`, `debounce.sv`) | phase counter, output flops, debouncer | clock edge with PLL lock and button | `RstCtrl`, `Debounce` |
| PWM (`pwm.sv`, `pwm_wrapper.sv`, `pwm.c`) | maximum, width, counter, output | clock edge; store of either register | `Pwm`, `Pins` |
| GPIO (`gpio.sv`, `gpio.c`) | output register, synchroniser and debouncer per input, read path | clock edge; write, read of either register; `set_output_bit` | `Gpio`, `Pins` |
| hello_world (`main.c`, `uart.c`, `demo_system.c`, `timer.c`, the vectors of `crt0.S`) | program points of main and handlers, vectors, interrupt enables, FIFOs, LEDs | boot, main loop, receive handler, timer handler, `install_exception_handler` | `HelloWorld`, `ExcVectors`, `Pins` |
| LCD demo application (`lcd_st7735/main.c`, `fbcon.c`, `fractal_fixed.c`, `coremark/ee_printf.c`, `cvt.c`) | program point, selection, countdown, the button seen, place on the console, the pixel and its iteration | menu, `scan_buttons`, two items, console output, `printf` | `LcdDemo`, `FbCon`, `FractalFixed`, `EePrintf` |
| Core internals, RAM contents, debug protocol, JTAG, FPGA wrappers, simulator control, Rust HAL, floating-point picture, CoreMark, build tools | | | not modelled (section 7) |

How they interact. The core is the only program; it reaches each device by
loads and stores over the bus, one at a time. The debugger is a second bus
host. Devices run on their own clock edges between the accesses: a FIFO fills
or drains, `mtime` counts, the SPI engine shifts. Two devices interrupt the
core: the timer (level, sticky until `mtimecmp` is written) and the UART
(level, RX FIFO not empty). The reset controller and the debug module's
ndmreset restart the system or only the core.

What is hard here:

* *interleaving* of program and device, cycle by cycle: a status flag that is
  polled in one access and relied on in the next (`spi.c:17-25`, `uart.c:26`);
  CS and D/C changed next to a running shift engine (`lcd_st7735/main.c:255`);
* *interrupts* between any two instructions, in particular between a test and
  `wfi` (`lcd_st7735/main.c:265`, `hello_world/main.c:47,104`), and output of a
  handler inside output of main;
* *two halves of one value*: `mtime` and `mtimecmp` (`timer.c:13-17, 38-41`),
  maximum and width of a PWM (`pwm.c:10-11`);
* *phase*: free-running baud counters against the start edge of a frame
  (`uart.sv:124, 163`), a polled edge detection against a slower clock
  (`spi_top.sv:59`);
* *routing by memory of the last cycle* (`bus.sv:97`), a memory port shared
  between fetch and data (`ibex_demo_system.sv:220, 439`), and a reset that
  restarts one side of an access (`:234`);
* *inputs that bounce* next to a read path of several cycles (`gpio.sv`), and
  levels that a program looks at every 20 ms and has to turn into events
  (`lcd_st7735/main.c:217-245`);
* *state that outlives its user*: the console's place on the screen
  (`fbcon.c:8`), the countdown (`main.c:68`);
* *circular control*: the debouncer is reset by the counter it controls
  (`rst_ctrl.sv:104-110`);
* *boundaries*: FIFO depth 127, pointer wrap, full and empty at once, widths
  larger than the register, a maximum below the running counter; a jump offset
  whose bits go to four places (`demo_system.c:90-96`); the last column of the
  console; an accumulator of fixed-point products; rounding that carries.

`PROJECT.json` lists these as hazards, each with the properties that cover it.

## 2. Conventions

* One step is one rising edge of the system clock, except in `HelloWorld` and
  `LcdDemo`, where a step is a program step, a character or what happens
  between two looks at the buttons: the order of these and not their length
  matters there.
* Registers keep the names of the source. A state machine's combinational
  outputs are operators of the same name; `X_d` of the source, the next value,
  is an operator, and the primed register takes it.
* `X_SomeBug`, just before `X`, is a changed form of `X` (a dropped guard, an
  off-by-one, a missing reset). It is used nowhere; the properties are
  required to be violated when it replaces `X`.
* Variables commented *history* record what properties need and influence
  nothing; variables and actions commented *external* model what is outside
  the repository (the device on the SPI wires, the other end of a serial line).
* Bytes are functions of bits, of two or three bits in the runs: a position
  that is lost, doubled or swapped shows in any width larger than one.
* Resets are initial states, except in `PrimFifo` and `Bus`, where they may
  happen at any moment.
* Pure functions (`ExcVectors`, `EePrintf`, `FbCon`) are operators; the state
  machines that call them give them their inputs, and the properties compare
  the result with a definition that goes the other way round: the jump decoded
  again, the text read back as a number.

## 3. Modules

**`PrimFifo`** is the FIFO as it is built: pointers with a wrap bit, storage
that is not reset, flags computed from the pointers. `BoundedQueue` is what it
promises: a sequence. `got`, in both, is the register in which a reader
captures `rdata_o`; without it the queue's output would not be observable.
`QueueOps` holds the queue operations; since `PrimFifo` implements them, all
other modules hold their FIFOs as sequences.

**`UartTx`, `UartRx`** (with `UartFrame`) are the two halves of `uart.sv`.
`UartLine` puts the receiver at the end of a line driven by a foreign
transmitter whose frames are up to `Early`/`Late` cycles off, the error taken
at any bit (its actions `LineInit`, `LineClock`, ... drive the receiver's
`RxClock` with the level `PcLine`). `UartLink` connects a transmitter and a receiver of this design
with any phase between their baud counters, which is what two boards that left
reset at different times have.

**`SpiTop`** is `spi_top.sv` with `spi_host.sv` at the parameters the system
uses; `SpiWires` adds the device on the wires, which samples MOSI with the
rising edge of SCK. `LcdSpi` adds the program: an operation of the LCD driver
is the sequence of interface calls it makes, a call is the sequence of its
device accesses, and in every cycle the program makes one access or none.

**`Timer`** is `timer.sv`. `TimerDelay` is `timer.c` under `timer_delay`: the
same `timer_read` and `timecmp_update` are run by the program and by the
handler, one access per step, with the locals of each. An interrupt is taken
between two instructions; `wfi` returns when one is pending.

**`Bus`** is one cycle of everything that meets on the bus: arbiter, decoder,
response routing, the fetch port with its grant rule, the debug memory's single
port, a device the build leaves out though the address map has it, fetches from
addresses nobody serves, the LSU's state machine with split accesses, the ID stage that holds an
instruction until the response, the prefetch buffer's requests, `dm_sba`, and
ndmreset. The data a device returns is its own name, so that a response routed
to the wrong host or taken from the wrong device is seen.

**`RstCtrl`** (with `Debounce`; `RstInit`, `RstNext`, `RstSpec`) is the reset controller; PLL lock and button
are inputs that change in any cycle. The registers start with the values of the
`initial` block, or 0. Line 75 of the source assigns with `<=` inside
`always_comb`; the model takes the synthesised meaning, the old value plus one.

**`Gpio`** is `gpio.sv` with one of its inputs (the others are alike): the
synchroniser, the debouncer and the register the read data wait in; the output
register is as wide as it is used. **`Pwm`** is one PWM with its two registers
and the store of either. **`Pins`** puts both under hello_world's loop, one
access per step of the program: read the button, read the LEDs back, store them
moved by one place, store maximum and width, while button and PWM run.

**`ExcVectors`** is `install_exception_handler` bit by bit, and the core's
reading of the jump it writes; an instruction word is the set of its one bits.

**`HelloWorld`** is the demo from the first line of main: install and enable
the UART handler, install, arm and enable the timer, then the loop with both
handlers over one UART. An interrupt goes where its vector, decoded, points:
to its handler, to `simple_exc_handler`, or nowhere. The timer's interrupt is
pending out of reset, because both its registers are 0. Characters carry only
their author: main, the echo, or a line end.

**`LcdDemo`** is the LCD demo above its driver calls: the menu with the
countdown, `scan_buttons` with any set of buttons pressed at each look, and the
two items. **`FractalFixed`** is the fixed-point picture, an iteration per step
in the real format (12 fractional bits, products of 32 bits). **`FbCon`** is
the console: where each character is drawn, with narrow and wide ones, and what
a newline, a carriage return, a form feed or the last line does. **`EePrintf`**
is the `printf` of the CoreMark port: flags, width, precision, integers,
strings, addresses, and decimals with the rounding of `fcvtbuf`. CoreMark is
seen as a program that prints whatever it likes, then its result.

## 4. Runs

| Run | Instance | Shows |
|---|---|---|
| `PrimFifo` | 3 slots, 3 words | flags agree, nothing unread overwritten, implements `BoundedQueue` |
| `UartLine` | 4 cycles per bit, 2 bits, FIFO 2, one cycle of skew either way | each byte received once and intact; a frame begun is received |
| `UartSampling` | 6 cycles per bit, no skew | **violation**: see findings |
| `UartLink` | 4 cycles per bit, 2 bits, FIFOs 2 and 1, all phases | frames only for bytes, same bytes in the same order, overflow contained |
| `LcdSpi` | 2 cycles per half SCK, 3 bits, FIFO 2, 3 data bytes | CS and D/C right for each byte, none lost, operations finish |
| `TimerDelay` | half registers of 16 values, tick of 12 cycles, 2 delays, 3 lost cycles, any start | no early tick, no torn read, delay not short, delay returns |
| `Bus` | RAM, debug memory, a device not built, unmapped addresses, prefetch buffer of 2 | responses to who asked, fetches get instructions, nobody starves |
| `RstCtrl` | debounce 5, phases 2 and 6 | full-length resets, debounced, held by the button, after loss of lock |
| `Pins` | debounce 2, LEDs 4 to 7, PWM registers of 3 bits | duty cycle of undisturbed periods, LEDs follow the debounced button |
| `HelloWorld` | FIFOs 2, lines of 2, 3 bytes typed, 2 layouts | interrupts reach their handlers, whole lines, input answered, ticks shown |
| `LcdDemo` | picture 10 x 8, screen 16 x 24, longs of 8 bits, about 1,500 directives | screen tells the truth, one event per press, drawing stays on the screen, clamps change nothing that is seen, `printf` reads back |
| `CoreMarkBottom` | the real screen, font and newlines | **violation**: see findings |

Why the bounds are enough. A FIFO depth of 3 is not a power of two, so both the
wrap by hand and the unused pointer value occur; a depth of 1 or 2 in the users
makes full and empty frequent. Four cycles per bit is the smallest number where
half a bit, the two-stage synchroniser and the tick are all distinct; the skew
of one cycle per frame of four bits is larger, in proportion, than the error of
434 cycles per bit at 115,200 baud. LCD transfers of three bytes do not fit the
FIFO of two, so the program has to wait in the middle. In `TimerDelay` the time
base of 12 of 16 carries into the high half in almost every tick, and the lost
cycles put the carry between any two accesses; the time base is longer than the
handler, as 50,000 cycles are in the code. In `Bus` two devices are all the
decoder can tell apart beyond "none": they are the two that also serve fetches,
the others behave as RAM does; the third stands for a device in the address map
that was not built. A prefetch buffer of two lets the core make accesses back
to back, which is what could starve the debugger. `denied` counts to 3, one
beyond the bound claimed. In `RstCtrl` the debounce time (5) is longer than
phase 1 (4), as 500 and 195 are in the code, so a press can begin before, in
and after a reset and outlast it. Three typed bytes overflow the receive FIFO
of two in `HelloWorld` and let a byte arrive in each of its phases; its two
layouts put the handlers near the vectors and at the far end of the RAM, so
that each bit of a distance inside the 120 KiB of RAM is seen set and clear. In `Pins` a
debounce time of two lets the button bounce in and out of it; the PWM's period
of eight cycles is about as long as the shortest turn of the program's loop,
and cycles without an access may come between any two, so that its registers
change at every count, and periods without a change occur. In `LcdDemo` two
characters of the console fill a line and three lines the screen, so both ends
are met all the time, and the narrow digits and wide letters do not add up to
the width; the picture of 80 pixels takes every path of the iteration: out at
once, out late, never out, with and without clamping. A long of eight bits has
all signs, carries and prefixes of one of 32. Menu and printing repeat
themselves, so what the limits on the looks (a timeout of two polls) and the
countdown (3) cut off is more of the same.

## 5. Fairness

Where a run checks liveness, the clock runs: `WF_vars(Next)` with one action
per edge. More is assumed only here:

* `LcdSpi`: `WF_vars(Access)`: the program, alone on the core, gets on.
* `TimerDelay`: `Next` is the clock; `MaxStall` bounds the cycles lost.
* `Pins`: none is needed; its properties are about steps.
* `LcdDemo`: `WF_vars(Main)`: the processor runs the menu. Main holds what the
  program does when it looks and sees nothing, not `SeesPressed`: nobody has to
  press a button, and `CountdownEnds` carries the press as its premise. No
  fairness for `CoreMark`, which may run as long as it likes.
* `HelloWorld`: weak fairness of handlers, timer and transmitter, strong
  fairness of `Main`, the boot included. The handlers disable main again and again, but ticks are
  5,000,000 cycles apart and the input is bounded, so main does get cycles
  between. No fairness for `Receive`: nobody has to type.
* `RstCtrl`: `WF_registers(RstNext)` instead, because its steps choose the inputs:
  fairness of `RstNext` over all variables would make a button that is at rest move
  in the end. The liveness properties carry their own premises (the PLL stays
  locked, the button stays released).

## 6. Proofs

`PrimFifoProofs` proves, for every `Depth > 0`, every set `Data` and every
`Zero` in it (assumptions `DepthAssumption` and `ZeroAssumption`, evaluated by
the run `PrimFifo`):

* `TypeCorrect`: `Spec => []TypeOK`
* `PointersAlwaysAgree`: `Spec => []PointersAgree`
* `UnreadAlwaysKept`: `Spec => UnreadKept`
* `Refinement`: `Spec => ImplementsQueue`

`TypeOK` does not imply that the flags agree: a write pointer behind the read
pointer with equal wrap bits has its type and a negative depth. The inductive
invariant adds the missing relation: equal wrap bits mean `rptr <= wptr`,
different ones `wptr <= rptr`, and under reset both pointers are at 0. From it
`depth` lies in `0..Depth`; lemmas then say what one push, one pop and both do
to `depth` and to the slot of the k-th unread element, and the refinement maps
each clock edge to one step of the queue by the cases of what was accepted.

`UartLinkProofs` proves for the two UARTs, for every `ClocksPerBaud >= 2`,
`Bits > 0` and FIFO depths (`FrameAssumption`, `RxAssumption`, `TxAssumption`,
evaluated by the run `UartLink`) and every phase of the two baud counters:

* `TypeCorrect`: `Spec => []TypeOK`
* `FrameAlwaysHasByte`: `Spec => []FrameHasByte`
* `AlwaysReceivedAsSent`: `Spec => []ReceivedAsSent`

`TypeOK /\ FrameHasByte` is inductive. The argument is the one the code leaves
unsaid: `START` is entered only from a look at a FIFO with a byte in it, no edge
before `START` is left pops, and an edge that does not pop cannot empty a queue
(`QueueStepKeeps`).

`ReceivedAsSent` is not inductive, and `LinkInv` adds what keeps the two ends
together as long as no start edge has coincided with the receiver's tick (the
exception `UartSampling` is about). Both ends number the bits of a frame
(`TxSlot`, `RxSlot`); the receiver's baud counter, preset to half a bit, gives
the age of its slot, and the transmitter's counter is either that age or, when
one of them has gone on to the next slot, a bit time off (`InStep`). `Sampled`
says which of the three samples in the synchroniser are of this slot and which
of the next, `BytesInv` which bits have left and arrived, and `IdleInv` that a
receiver at rest has missed two cycles of a frame at most (for bit times of two
cycles, a whole start bit). `LinkStep` shows that a clock edge keeps all this
when a frame is entered, in one, and when one is left.

The second half of `UartLinkProofs` proves `AlwaysReceivedDespiteSkew`,
`LineSpec => []ReceivedDespiteSkew` of `UartLine`: the receiver and a foreign
transmitter whose frames may be too short by `Early` cycles or too long by
`Late`, taken up at any bit of the frame, frames with and without a pause
between them. `SkewAssumption` (evaluated by the run `UartLine`) bounds the two
by what is left of a bit before and after its middle, `ClocksPerBaud \div 2 - 1`
and `ClocksPerBaud - 1 - ClocksPerBaud \div 2`. The bound is exact: for three
to six cycles per bit TLC finds a lost byte one cycle beyond it, on either
side. The receiver's part of the argument is that of the two UARTs (`InStep`,
`Age`, `Level`), moved by `u`, the skew the frame has used so far (`SkewUsed`),
and weaker: only what was sampled a skew away from both ends of a slot is
certainly of that slot (`SampledSkewed`). `LineInv` says where both ends are:

* `InFrame(u)`: in the same frame, or in its last bit `FrameOver`, the
  transmitter done and the receiver not, and `NextFrame`, the transmitter in the
  start bit after it already, for one cycle at most;
* `Quiet` and `FrameBegins(u, e)`: the receiver waits, and nothing is on the
  line, or the first `e` cycles of a frame are in its synchroniser;
* `ReceivedInv`: the bits received so far are those of the byte.

`DebounceProofs` proves what hangs on the debouncer, of the reset controller
and of the demo's pins.

Of `RstCtrl`, for every `ClkCount`, `ResetPhase0Count` and `ResetPhase1Count`
it allows (phase 1 longer than phase 0, as the registers' order needs it), every
PLL and every button: `RstTypeCorrect`, `EveryResetLastsPhase1`
(`ResetLastsPhase1`), `ButtonAlwaysDebounced` (`ButtonDebounced`) and
`AlwaysHeldByButton` (`HeldByButton`). The inductive invariant relates the phase
counter to the cycles this reset has lasted: it has counted no further than they
allow, and stands still at the end of phase 0 while the button is held
(`CounterInv`), and the debouncer counts only cycles in which its input differed
from its output (`DebounceInv`). That is the circular control of the hazards:
the debouncer is out of its own reset as long as the counter stands there.

Of `Pins`, for every debounce time, width of the PWM, range of LEDs and
brightness: `TypeCorrect`, `DutyAlwaysAsSet` (`DutyCycle`) and
`LedsAlwaysFollowButton` (`LedsFollowButton`, an action property). `LevelInv`
makes the debouncer's counter the age of the synchronised level, `LedsInv` says
what main's copy of button and LEDs is worth at each of its accesses, and
`PeriodInv` keeps the PWM's counter inside a period whose registers did not
change; the two drivers only share the clock.

`BusProofs` proves, for every set of devices, every part of it that is built
and every depth of the prefetch buffer: `TypeCorrect`, `ResponseAlwaysToAsker`
(`ResponseToAsker`), `FetchAlwaysGetsInstruction` (`FetchGetsInstruction`) and
`DebuggerNeverStarves` (`DebuggerWaitsTwoCycles`). `BusAssumption` says that
RAM and debug memory are built and two, and that the names "no access",
"unmapped" and "instruction" are no devices. The starvation bound is not
inductive: that the debugger has waited twice must mean that the load-store
unit cannot ask again, so `DeniedInv` counts down with the phases of a split
access, and `LsuInv` ties these to the instruction in the ID stage (also across
ndmreset). `FetchInv` gives every fetch under way its place in the buffer.

`LcdSpiProofs` proves, for every SCK divider, byte length, FIFO depth, number
of data bytes and delay between accesses: `TypeCorrect`, `AlwaysPoppedWhenSent`,
`EmptyAlwaysMeansQuiet`, `AlwaysSelectedWhileSending` and `AlwaysNeverLost`, the
properties of `SpiWires` and `LcdSpi` with these names. Two invariants meet at
the FIFO. `WiresInv` says of the hardware that the byte in transfer is still at
the head of the FIFO, and how far `shifted`, the shift byte and `bit_counter_q`
are with it (`SendInv`: with SCK low one bit further than with SCK high).
`CallsInv` and `FifoInv` say of the driver that every `spi_write` to come
follows the `gpio_write` that selects it, and that the pins are written only
while the FIFO is empty; that an empty FIFO means quiet wires is the theorem
that joins the two.

`TimerDelayProofs` proves, for every width of the half registers, time base,
delay, start time and number of lost cycles: `TypeCorrect`, `TickNeverEarly`
(`NoEarlyTick`), `ReadAlwaysGenuine` (`ReadIsGenuine`) and `DelayNeverShort`
(`DelayNotShort`). `ReadInv` says at each access of `timer_read` which times
the halves read so far can be of: a high half of a time `t` since the call, a
low half of a `u` after it, and equal high halves, read around the low one,
leave only `u` for both. `ArmedInv` says for each phase of the handler how far
the armed time and `mtime` are past the tick counted last; from it the delay
follows. The model's one bound is `Lives`, `mtime_q + TimeBase < 2^64` at the
real width: the system is not on for 11,000 years (`DelayAssumption` starts it
below that, too).

`HelloWorldProofs` proves four results:

* `DecodedAsEncoded`: for every set of offset bits without bit 0, the word that
  `install_exception_handler` writes is a jump without a link, and the offset
  the core decodes from it has the same bits. The argument goes bit by bit
  through the four fields of the instruction (`MovedBit`, `InstructionBit`): no
  field is written by two masks, and no mask writes into the opcode.
* `HandlersAlwaysReached` (`HandlersReached`, an action property): an interrupt
  runs its own handler. That the 21 bits of a two's complement offset add up to
  it again (`OffsetBack`) takes halving the number once per bit; with it,
  `Installed` says that a vector jumps to the handler installed there and that
  the other vectors stay. `SetUpInv` says how far main has set up vectors, `mie`
  and `MIE`, so that nothing is taken early.
* `LinesAlwaysWhole` (`WholeLines`). A whole line on the wire is not inductive;
  the invariant speaks of what is still in the FIFO as well (`LineInv`: two
  neighbours have one author unless one is a line end) and of who is in the
  middle of a line (`AuthorInv`): main only with interrupts off, the echo only
  inside the handler, and otherwise the last character written ended a line.
* `TypeCorrect`, and with it that no interrupt ends in `simple_exc_handler`.

They hold for every FIFO depth, line length, amount of input, place of the
vectors (`VectorsAssumption`: word-aligned, as `mtvec` needs) and of the
handlers (`HelloAssumption`: at even addresses in the RAM of `link.ld`, no two
the same). The RAM's size is what keeps a handler in reach of a jump, which
`install_exception_handler` tests for.

`LcdDemoProofs` proves of the LCD demo, for every size of screen, font, picture,
menu and `long`, every delay and timeout, and every set of directives and
characters CoreMark may print:

* `TypeCorrect`, `AlwaysOnePerPress` (`OnePerPress`, an action property) and
  `ScreenAlwaysTrue` (`ScreenTrue`). `HeldInv` says whose buttons the history
  `held` can still hold at each point of `scan_buttons`; `ScreenInv` says that at
  the head of the loop the screen is up to date unless a repaint is due, which
  every way through the loop has to establish.
* `AlwaysDrawsOnScreen` (`DrawsOnScreen`): one character keeps the console in
  its screen (`Place`), and a text is characters one after another, whatever its
  length. `ConsoleOK` is the invariant. That `ee_vsprintf` makes characters the
  font has a shape for is part of it: `fbcon_putstr` looks none up beyond.
* `PrintsAlwaysTheArgument` (`PrintsArgument`). `CallInv` says that the text is
  what `ee_vsprintf` made of a directive; the rest is about this pure function.
  The text fills its field and no more; the digits read back as the integer,
  through sign, prefix, precision and padding, because a reader (`Reads`) that
  passes over what is no digit of the base gets the same from the whole text as
  from the digits; and a float reads back as the decimal nearest to it, because
  the digits kept, with the carries of their rounding, are the quotient of the
  number and the power of ten that was cut off (`Above`, `Carry`, `Nearest`).
* `ClampAlwaysHarmless` (`ClampHarmless`). `PictureInv` places the pixel in the
  plane and bounds its value: two from the origin in each part, and their
  product, so the sums and products of the next iteration are in range of the
  format or escape on both sides of the comparison.

It assumes what the code's constants and their users give: that glyphs are no
wider and lines no higher than the screen (`FbConAssumption`), that the font has
a shape for every character `ee_vsprintf` can make and that arguments have the
types their conversions take (`DirectivesAssumption`), and that the picture
covers no more than the plane from -1.75 - i to 0.75 + i that
`fractal_mandelbrot_fixed` draws (`FractalAssumption`; 160 by 128 pixels do).

The digits of a number, the sum of products, the course of a text over the
screen are functions defined by recursion. The library's induction theorems take
an operator, which these provers cannot instantiate; `SetInduction` states
induction with a set in its place and is proved from finite cardinalities (adding
1 would be an injection of a finite set into itself that misses 0). `Iteration`
and `Descent` follow from it: a loop of n steps has a course, and a function
whose value is computed from that at a smaller argument exists, for every
argument. With them what the recursion computes for every input is proved, not
only checked.

All assumptions are evaluated by the run of the same name. A type invariant is
part of every inductive invariant; TLC checked each invariant on the instance of
its run before it was proved.

Only model-checked: all liveness (`FrameReceived`, `OperationFinishes`,
`DelayReturns`, `AccessesEnd`, `FetchGranted`, `LockRegained`, `RunsInTheEnd`,
`InputAnswered`, `TickShown`, `CountdownEnds`); fairness and `ENABLED` are beyond
the prover. Every safety property the passing runs check is proved.

## 7. Not modelled, and findings

Not modelled:

* The core's pipeline beyond its bus interface, the debug module beyond
  `dm_sba` (commands, halt and resume through `dm_mem`, DMI, JTAG), and RAM
  contents: vendored designs with verification of their own.
* Received SPI bytes: the system leaves them unconnected (`ibex_demo_system.sv:401`).
* FPGA tops (wiring), clock generators (primitives), the simulator control and
  its Verilator harness (simulation only), tooling.
* `fractal_float.c`: what could go wrong there is IEEE rounding, which TLA+
  has no numbers for. CoreMark itself, fonts, pixels, colours, the logo: they
  compute without sharing state with the hardware.
* Start-up code beyond the vectors: a straight line of stores.
* The Rust HAL: a second set of drivers over the same registers; its writer
  drops what does not fit the FIFO (`serial.rs:19`), where the C driver waits.
* In `EePrintf`: the `%e` and `%g` paths of `parse_float` and `cropzeros` (the
  format has no directive that leads there), the buffer limits of `cvt.c`,
  binary fractions (doubles are exact decimals), formats of several directives
  in one call.
* Byte and half-word stores to peripherals: the drivers store words.
* `HelloWorld` bounds the typed bytes: at line speed three echoed bytes per
  byte received would keep the processor in the handler, and main would starve.

Findings, each a run that TLC finds violated:

* `UartSampling`: the comment at `uart.sv:123` promises a half-way preset,
  which is lost when the start edge meets a tick.
* `CoreMarkBottom`: the newlines at `lcd_st7735/main.c:180` are to take
  CoreMark's output to the bottom of the screen; the console keeps its place
  from the run before, so a second boot may start near the top.

Remarks, seen while modelling:

* `spi_host.sv:116`: the comment has the clock edges the other way round.
* `bus.sv:14` assumes that every device answers in the next cycle. Outside
  Verilator the address map still has the simulator control, which is not built:
  the core waits for ever for an access to it, and gets no error.
  `crt0.S:70-73` stores there when main returns.
* A fetch from an address that is neither RAM nor debug memory is never
  granted (`ibex_demo_system.sv:220`): a wild jump, or running past the end of
  the RAM, hangs until a debugger or reset takes over, without an exception.
* `crt0.S:60` clears one word past `_bss_end` (`ble`).
* `link.ld:9-10` speaks of 124 KiB of RAM; its length, `0x1E000`, is 120 KiB, and
  the stack follows in the next 8 KiB. The models take the length.
* `pwm.sv:34` gives the duty cycle as width over maximum; the period is
  maximum + 1 cycles (`DutyCycle` states the exact count).
* `gpio.h:13`, `demo_system.h:21`: `GPIO_OUT_SHIFT` names a register the
  hardware does not have.
* In the LCD demo a click, left or right does not dismiss the countdown: after
  the return from an item it goes on, and boots item 0 again.
* CoreMark's small font is never set back; its output, once it wraps, runs over
  the title bar.

## 8. Plan

Done: FIFO, UART, SPI and LCD calls, timer and delay, bus with unmapped and
unbuilt targets, reset controller, GPIO and PWM under their program,
hello_world from boot, the LCD demo with console, picture and printf. Proved:
every safety property of the passing runs, and the refinement of the bounded
queue.

What would come next, the most valuable first:

1. The debug module's `dm_mem`: halt, go, resume and abstract commands against
   the core's program in the debug memory.
2. The Rust HAL's writer and timer, as a second program over `UartTx` and
   `Timer`.
3. hello_world with input at line speed: how long main can be kept from its
   loop, which needs the times of the instructions.
