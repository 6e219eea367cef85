# Verification of the Metron PCB firmware

The firmware (`src/main`, over the driver library `src/MSPM0G_Library`) runs on
an MSPM0G microcontroller (Cortex-M0+). A host sends text commands over a UART;
the board switches relays through I2C expanders, reads voltages and resistances
through SPI converters and answers with text. There is no operating system: one
endless loop (`empty.c:35-50`) and interrupt handlers that preempt it. This
directory holds TLA+ models of it, the TLC configurations that check them and
the proofs TLAPS checks.

## 1. The system

| part | source | state | operations |
|---|---|---|---|
| UART byte driver | `UART_Interface.c` | rx/tx state, counters, buffers | Start_Transmit, Start_Receive, Stop_Receive, interrupt |
| UART target | `UART_Target.c` | `state` (IDLE, WAITING, RECEIVING, RECEIVED, SENDING) | Receive, Transmit, four callbacks |
| idle timer | `Timer_Timeout.c` | RUNNING or IDLE | Start, reStart, interrupt |
| console | `usb.c`, `empty.c` | cmd_buffer, cmd_index, command_active, cmd_start_time | usb_fsm, process_usb_command |
| clock | `delay_timer.c` | overflowCount | Delay_Timer_Get, interrupt |
| dispatcher, parser | `app.c`, `dynamic_parser.c` | none | dynamic_parse, command_dispatcher |
| I2C controller | `I2C_Controller.c` | status, counters, buffers | Start_Transmit, Start_Receive, interrupt |
| register access | `i2c_common.c` | none | i2c_write, i2c_read, i2c_write_verify, wait with timeout |
| relay routing | `maini2c.c` | the outputs of five expanders | reset_all_addresses, enable_mux, ..., resistance |
| measurement handlers | `measurement.c` | tx_buffer | single, differential, multiple, resistance |
| AD4115 converter | `adc_spi.c`, `SPI_Interface.c` | SPI transfer state | init, ReadSingleChannel, transact |
| resistance front end | `DB_board.c` | FSM state, source, gain | run_differential_fsm_tick and its converters |
| self tests, multiplexers | `test.c`, `usb_mux.c`, `uart_mux.c`, `demo.c` | port outputs | selectors, loop-back tests |
| Modbus | `Modbus_Protocol.c`, `Modbus_RTU.c` | registers, frame buffer | request handling, RTU state machine |
| other library parts | `SPI_block_transfer.c`, `I2C_Target.c`, `UART_Controller.c`, `Timer_Profiler.c` | | no user in the firmware |

How they interact. Interrupt handlers run callbacks of the layer above
(`rxDoneCallback`, `timer->callBack`), which write the same `state` variable as
the functions the main loop calls. The handlers have one priority, so they never
nest, but they may run between any two accesses of the main loop. Everything
else is called from the main loop: `usb_fsm` -> `process_usb_command` ->
dispatcher -> handler -> routing -> I2C and SPI, all blocking. All waits but the
two of I2C_Wait_With_Timeout are without a limit.

Hard behaviour: (a) the shared `state` of the UART target, overwritten by three
handlers and two calls without a look at its value; (b) re-arming a receiver of
one byte between two bytes; (c) the idle timer of a byte that has already been
taken; (d) the clock read while it overflows; (e) an I2C transfer given up by
its waiter but not by the hardware; (f) relays left closed when a write fails.

Facts the models rest on: the build is `-O0`, CPUCLK 32 MHz, UART0 at 115200
baud with FIFOs of four entries, RX threshold one entry, TX threshold "one entry
left"; TIMG0 is one-shot-up and its load value 99999 is truncated to 16 bits
(34 ms).

## 2. Modules

| module | models | lines of code it stands for |
|---|---|---|
| `UartTarget` | byte driver, target, idle timer and their hardware, handlers as one action each | UART_Interface.c, UART_Target.c, Timer_Timeout.c |
| `UsbConsole` | the main loop around usb_fsm, one action per access to shared state, over `UartTarget` | usb.c, empty.c |
| `CommandChannel` | abstract: lines written are executed exactly once, in order | |
| `UsbSession` | `UsbConsole` with a patient host; implements `CommandChannel` | |
| `BoardCommands` | the commands that may be handed to the board | measurement.c, test.c (name tables) |
| `CommandDispatch` | from a line to its command and its answer, with the loop-back test | usb.c, dynamic_parser.c, app.c, measurement.c, test.c, demo.c, uart_mux.c |
| `RelayRouting` | every command's accesses to expanders, switch pins and converter | maini2c.c, measurement.c, usb_mux.c, uart_mux.c, test.c |
| `DelayTimer` | Delay_Timer_Get, the overflow interrupt and a waiting client | delay_timer.c and its callers |
| `I2cBus` | i2c_write_verify over the interrupt-driven driver, the bus and its devices | I2C_Controller.c, i2c_common.c |
| `RegisterFile` | abstract: a call writes one register and answers 1; `I2cBus` implements it | |
| `AdcSpi` | channel reads of the AD4115 over the interrupt-driven exchange | adc_spi.c, SPI_Interface.c |
| `AutoRange` | the search for a current and the converter of the resistance front end | DB_board.c, demo.c |
| `ModbusServer` | requests, the state machine over UART_Target, a master that retries | Modbus_Protocol.c, Modbus_RTU.c |
| `UsbConsoleProofs`, `DelayTimerProofs`, `I2cBusProofs`, `AdcSpiProofs`, `AutoRangeProofs`, `ModbusProofs`, `CommandDispatchProofs`, `RelayRoutingProofs` | theorems | |
| `MCUsbConsole`, `MCUsbSession`, `MCCommandDispatch`, `MCModbusServer` | instances for TLC | |

How they compose. `UsbSession` extends `UsbConsole`, which extends `UartTarget`.
`CommandDispatch` and `RelayRouting` share `BoardCommands`: the type of `ran` in
the one says that every line that gets through is a command the other executes.
The choice of `UsbConsole!Process`, to answer or not, is what `CommandDispatch`
decides. A register write of `RelayRouting`, an expander write of `AutoRange` and
a transaction with the front end's converter are calls of `I2cBus`, seen from
outside; the conversion of `RelayRouting` is a read of `AdcSpi`. Each is one step
for its caller because the caller blocks.

### Console (`UartTarget`, `UsbConsole`, `UsbSession`)

State keeps the names of the code: `state` is UART_Target.state, `rxState`,
`txState`, `tmpNumRx` those of the driver, `timerState` that of the idle timer,
`cmd` is cmd_buffer up to cmd_index, `active` is command_active. `late` replaces
cmd_start_time: has the command timeout of one second passed. The hardware is
the two FIFOs, the one-shot counter (`timer`: off, young, old) and one pending
bit per interrupt. A response is counted in loads of the transmit FIFO.

An interrupt handler is one action with its callbacks (`RxIrq`, `TxIrq`,
`TimerIrq`), because handlers never nest. The main loop is cut at every access
to a variable that a handler also uses, with a program counter: `Poll`, `Take`,
then UART_Target_Receive as `Arm`, `Flush`, `Open`, `Buffer`, `Waiting`, then
`Collect`, `Process`, UART_Target_Transmit as `Transmit`, `Sending`, then
`Reset`, `Deadline`. A pending interrupt preempts the loop (guard `At`).

Time is abstract but ordered. The idle period (34 ms) is longer than a response
takes to send (6 ms), so the counter ages only when no transmission is under
way; the loop spends that long only where it is `Slow`: going round with nothing
to do, or running a command. Once old it may reach its end between any two steps,
also inside UART_Target_Receive, where the RECEIVED it reports is overwritten with
WAITING. `wakeLost` is history: has the timer last closed the receiver there. The
console is then `Deaf` for good, unless a command is in its buffer: that one's
timeout runs it, and the end of its answer wakes the loop.

`UsbSession` adds the host the firmware is written for: it sends a line without
pause, one byte whenever the board is ready for it, and begins a line when the
board has been quiet longer than the idle period. `written` and `executed` are
history variables and are the state of `CommandChannel`.

### Clock (`DelayTimer`)

`Tick` is one count of the hardware counter and raises the overflow interrupt, `Overflow`
is Delay_Timer_IRQ, and Delay_Timer_Get is its three reads (`ReadOverflow1`,
`ReadCurrent`, `ReadOverflow2`), each of which may have any number of ticks before it.
overflowCount is of 32 bits, `Laps` times the `Wrap` of the 16 that the shift leaves in
the result (`Stamp`). The client is the shape of every timeout in the program: one call
for the start time, then calls until `now - start` reaches the limit, in unsigned
arithmetic of `Period * Wrap`. `elapsed`, `since`, `readEpoch` and `readElapsed` are
history.

### I2C (`I2cBus`, `RegisterFile`)

i2c_write_verify is three transactions: the register and its value (`phase`
write), the register alone (select), one byte read. Each is prepared (`Prepare`,
`Fill`, `Spin` are Start_Transmit, `Receive` is Start_Receive), then awaited:
`Done` when a handler has set the driver idle, `Timeout` after 500 ms. `Irq` has
one action per case of I2C_Controller_IRQ. The bus moves between any two steps:
a device acknowledges its address or, when `Flaky`, does not, and bytes go one
at a time. `Timeout` needs a bus that does not move, unless `Stalls`, which
admits a device that stretches the clock for longer than 500 ms.

`RegisterFile` is what maini2c.c counts on. The mapping is the identity but for
`calling`, which is `pc # "ready"`.

### Lines and answers (`BoardCommands`, `CommandDispatch`)

A line is the sequence of its fields, which are never empty: strtok takes several
colons for one. `Tokens` are the fields dynamic_parse keeps. Every
handler is one disjunct of `Dispatch`, with the number of tokens it asks for, its
tables and its answers; `ran` is what it hands to the board and `answers` what it
sends. `PinOf` is string_to_pin: a number modulo 256, then the bound of 15; without a
digit it is pin 0.

The loop-back test (uart_loopback_start) keeps `pc` in "loop". `word` is what
rxBuffer holds, told apart into the words the firmware compares with; the FIFO of
the site's UART keeps what the site said before anyone listened, cut at four bytes.
`said` and `early` are history. `Grammar` is the reference for `AsWritten`: the
lines of the comments above the handlers, family by family, each with the command it
means. A pin there is the number that is written, without the eight bits of the code,
and a resistance may be of a third kind, BET (`BetLines`, measurement.c:367-371),
which the handler does not know.

### Relays (`RelayRouting`)

Every function of maini2c.c is a sequence of accesses: register writes to the
expanders U6, U7, U9, U10, U11, changes of port pins and conversions; a command
is the concatenation its handler makes, executed one access at a time. A byte is
a set of bit numbers. The commands are those of `BoardCommands`: with the name
tables the handlers use, a resistance command of any of its types may name any
coil, and what it does not name is 0. The state begins with the boot sequence
(`AtBoot`): i2c_init directs the expanders and resets them.

A register write stands for a call of i2c_write_verify, seen from outside: it
sends the first two bytes that are in the controller's FIFO, then selects with
the next one. `stale` is what unacknowledged transmissions have left there;
`WriteFails` and `SelectFails` are the two ways to fail. The results of the
calls are ignored, as in the code, so a failed write does not stop a command.

### Converter (`AdcSpi`)

AD4115BCPZ_RL7_init and AD4115_ReadSingleChannel are sequences of exchanges; `pc`
names the exchange main runs or runs next, with one action for its end. `Begin`
selects the converter and is SPI_Transact; `Shift` is the port, `SPI_IRQ` the
handler with its two counts, and the end of an exchange needs `~spi.busy`, which is
what AD4115_Wait looks at. The wait reads a variable that is not volatile; the
build is `-O0`, so every turn of the loop reads memory.

The converter has its enabled channels, its result and the bit that sends the
channel with the data. It may miss any write (`heard`, at most `MaxMissed`),
converts the enabled channels in turn after a write of the mode register, and need
not convert at all. `fresh` is history: was the sample converted for this read.

### Front end (`AutoRange`)

One tick of run_differential_fsm_tick is `SetDac`, `Select`, `Short`, `Sense`, a
reading, `Input`, a reading, and `Decide`; a reading is ads122c04_read with its
commands `Start`, `Poll`, `Status`, `Rdata`, `Data`. `Volts` is the board: a source
whose DAC has the wrong code drives nothing, the supply limits the voltage.

The converter may be lost for good at any moment, or miss single receptions; then
ads122c04_read returns without data and the caller converts what its buffer holds
(`Garbage`). It, the DAC and the expander may miss a transmission and answer the next
ones (`Unheard`). The bytes of one that failed stay in the controller's FIFO, where
they shift every later message (`leftover`): from then on no message has the effect
it should, the converter answers whatever it is asked, and what it returns is any
value. Another resistor may be connected at any time. Voltages are in
microvolts without the quantisation of the converter; the properties choose
resistors accordingly (section 4). When a START finds a result that was not
fetched, the data sheet lets it stay marked as ready or not: both are modelled.

### Modbus (`ModbusServer`)

A frame is one message: own or other address, good or bad CRC, function, start,
quantity, the values it bears, and whether it leaves room in rx_data, fills it with its
last byte or is longer. The three handlers are operators that return the set of outcomes
(the action function of the application may refuse), in the code's order: registers are
written before the action is asked. A write of more registers than the frame has values
for stores what lies behind the frame, any value (`Stored`, `Unsent`).
Addresses count modulo `Wrap`, so the end address wraps as it does in 16 bits. Two
facts of the code that the model keeps: the check of a quantity at
Modbus_Protocol.c:285 never refuses, and only the first address is looked up among
the illegal ones. The word behind the table is part of the state (`regs[NumRegs]`).

UART_Target is here at the level of frames: it opens (`Open`), a frame begins and
ends, one that is as long as rx_data or longer fills it (`Full`) while the idle timer
runs on, the timer ends the reception whatever the state is (`TimerIrq`), the end of a
response sets IDLE (`TxDone`). Start_Receive and the assignment of WAITING are two
steps, and so are Start_Transmit and that of SENDING (`Assign`); any interrupt may come
between them, but for the end of the response just accepted, which takes longer than an
assignment. So the server can go deaf as the console can (`wakeLost`). The handler
zeroes tx_data before it looks at the frame: a response still under way then loses the
bytes not yet in the FIFO, or none (`Zeroed`). rx_data that holds less than a frame, or
two joined, is taken to have a wrong CRC. The master repeats an unanswered request and
is patient: it does so only when the server listens. Nothing in the firmware calls the
Modbus library.

## 3. Properties

| property | what it says | hazards it is for |
|---|---|---|
| `LinkAlive` | when the loop waits with the receiver closed, something under way will open it, unless the idle timer closed it inside UART_Target_Receive | handlers and calls overwrite each other's `state` |
| `Rearmed` | the receiver is opened again and again, whatever the host does, unless the board has gone deaf in that way | the same, as liveness |
| `PartialIsTimed`, `PartialFlushed` | a partial command is under the command timeout and leaves the buffer | late bytes, one-second timeout |
| `ImplementsChannel` | a patient host's lines run exactly once, in order, unaltered | the idle timer delivers every last byte twice |
| `ResponseUndisturbed` | no command runs while a response is still being sent | Start_Transmit refuses, tx_buffer is rewritten |
| `ComesBack` | the board becomes ready for the next line, unless it has gone deaf | lost wake-ups |
| `AsWritten` | a line runs the command it means, a line that means none runs nothing; the lines that do not are left out by name (section 7) | fields shared by handlers, tables, numbers of eight bits |
| `OneAnswer` | a line has one answer, and it says whether the command was run | paths with two answers or none |
| `VerdictRight` | the loop-back test passes exactly the site that echoes and says EXIT | bytes of before the test in the FIFO |
| `ConsoleReturns` | every line gives the console back, or the test waits for a silent site; from a site that ends what it begins it returns | a test without a limit |
| `GetExact` | the two halves of a time belong to one moment | overflow between the reads |
| `NotEarly`, `NotLate`, `WaitEnds` | timeouts are neither early nor late, and end | wrap-around of 32 bits |
| `ImplementsRegisterFile` | with devices that answer, a call writes its register, no other, and returns 1 | order of interrupts, FIFOs |
| `NackReported` | a device that does not answer is reported (`result # 1`), unless a wait has been given up | error cleared too early |
| `NeverRefused` | no call finds the driver busy | timeouts that leave it busy |
| `ReceiveInBounds` | the receive loop, whose bound is one too high, stores no byte too many | a late reception meets the next |
| `CallReturns` | every call returns when transfers end | spin without a limit |
| `ConversionRight` | a conversion sees the pin named through the multiplexer named, and nothing else | what earlier commands leave closed |
| `RestRight` | after a resistance command its path and no other coil is closed and its switch reaches its channel, after a test the switch is on the channel of the test, after a voltage command nothing is closed | U9 and U11 are written twice, switch pins kept from before |
| `BreakBeforeMake` | no write opens one line of an expander while it keeps or closes another | two paths connected for a moment |
| `CoilClosesUnpowered` | the coils of the USB lines close only without VBUS | order of switch and coil |
| `ExchangeOver` | a deselected converter has an ended exchange behind it, every word stored | a handler that writes into a buffer its caller has left |
| `ChannelRight` | a sample is of the channel asked for, whatever write was missed | another channel left enabled |
| `ResultFresh` | without a missed write, a sample was converted for this read | the result of a read that was given up |
| `ConvertsAlone` | without a missed write, a read converts its channel alone | the exit after a timeout |
| `ReadReturns` | every read ends, converting or not | waits without a limit |
| `ResultRight` | an undisturbed measurement prints the resistor connected, whatever was before | gain, input and result left by the tick before |
| `NeverSwings`, `MeasureEnds` | the search never goes back to a smaller current, and a measurement ends | windows of neighbouring sources; `MeasureEnds` leaves missed messages out |
| `LostReadsZero` | a converter gone before the command makes the answer 0, never garbage | the uninitialised buffer |
| `AnswerTrue` | a positive answer agrees with the registers, value by value; after a failure the error register tells of it | data_index, registers written before the refusal |
| `SpeaksWhenAsked` | the server speaks only to the master that waits for it | broadcasts, noise, responses of before |
| `OnlyNamedChange` | only registers that a good request names change, or the error register | wrapping end addresses |
| `ServerHears` | with the receiver closed something under way will open it, with the console's one exception | interrupts inside UART_Target_Receive, full buffers |
| `RetryAnswered` | a master that repeats itself is answered, unless the server is deaf or the request fills rx_data exactly and its response is spoilt | a frame without an answer that leaves the receiver closed |

`TypeOK` of `UsbConsole` and `I2cBus` includes the limits of their buffers: the command
buffer with its terminating zero, the FIFOs, the counts of the drivers. Those of the other
modules are proved (section 5) and not among the invariants of the runs.

The properties of `RelayRouting` speak of a command whose own writes did what
they should (`~lost`); what may have happened before it is arbitrary. Without
that proviso they are false, and the code cannot do better: it looks at no
result. A conversion is spoken of on expanders that boot has configured
(`Configured`), because only boot directs them: with three failures and a FIFO of
eight entries the bytes left over by three transmissions can equal those of later
writes, so that a command loses nothing on an expander whose configuration boot lost.
`disturbed` of `AutoRange` and `missed = 0` of `AdcSpi` have the same
purpose: `disturbed` is set when something went wrong during the measurement or has
left a conversion behind.

## 4. Runs

| run | configuration | shows | states |
|---|---|---|---|
| `eager` | one printable byte and line end, at any time; RX FIFO 2, responses of 3 loads, buffer of 3 | `TypeOK` `LinkAlive` `PartialIsTimed` `Rearmed` `PartialFlushed` | 179,244 |
| `patient` | two printable bytes, 3 lines | `ImplementsChannel` `ResponseUndisturbed` `ComesBack` | 192,696 |
| `commands` | two multiplexers, three coils, three numbers and PIN_, two channels; lines at most one field from a command | `AsWritten` `OneAnswer` `VerdictRight` `ConsoleReturns` | 24,769 |
| `clock` | counter of 4, overflow count of 6 of which 3 tell, limit 7 | all clock properties | 64,242 |
| `i2c_healthy` | two devices, two registers with two values, FIFO 4 | `ImplementsRegisterFile` | 9,753 |
| `i2c_rough` | one device, flaky, stalling bus, FIFO 3 | driver safety and `CallReturns` | 400,933 |
| `relay` | 3 multiplexers, 4+1 coils, 2 pins, 3 channels, FIFO 3, one failure | routing properties | 3,259,215 |
| `adc` | 3 channels, two missed writes | converter properties | 124,989 |
| `autorange` | 5 resistors, one missed message, one change of resistor | front end properties | 1,397,965 |
| `modbus` | addresses modulo 8, 2 registers, two values, one frame of noise | Modbus properties | 646,980 |
| `phantom`, `relay_channel` | | one counterexample each, section 7 | |

Further configurations end with a counterexample, too, and are kept for the reader
(`tlc -config X.cfg M`): `UsbSession_deaf.cfg`, `CommandDispatch_spelled.cfg`,
`I2cBus_dishonest.cfg`, `I2cBus_stuck.cfg`, `RelayRouting_reset.cfg`,
`RelayRouting_powered.cfg`, `ModbusServer_table.cfg`, `ModbusServer_wrap.cfg`; the
module is the part before the underscore, with `MC` before it for the console, the
commands and Modbus. Section 7 says what they show.

Bounds, and why they are enough.

 - *FIFOs and buffers.* The real FIFOs have four entries (UART) and eight (I2C),
   the command buffer is larger than three. All accesses look only at empty,
   partly full and full, and these occur for two entries (UART), three or four
   (I2C) and three (commands: empty, a byte, full with its zero). A FIFO of the
   I2C controller of three or more holds a message of two bytes beside a left-over
   one; with three, left-over bytes fill it and messages are cut, which eight
   entries need more failures for.
 - *Bytes.* The console never looks at a printable byte. One suffices for
   control, two to see a byte doubled, altered or exchanged (`patient`).
 - *Lines.* A line can disturb the next one only through the state left behind;
   three lines let that state be of a second one.
 - *Commands.* The lines of `commands` are every command over the names of the instance,
   each with any one field replaced, put in or left out, and lines of one field more than
   the parser takes; the names are of every class a table separates. The numbers are a
   pin, one that folds onto a pin (260) and the first that is no pin (16); 0 is a pin, for
   PIN_ without a number. A site says two words before a test and four in it, before its
   farewell (`MaxEarly`, `MaxSaid`): an empty line, a word in two parts, the test text
   twice. Once a site has spoken the host sends commands as they are spelled, since lines
   and words only meet in the test.
 - *Clock.* The limit of seven covers one overflow always and two at times, and
   the twelve values of a full turn make wrap-around ordinary. The upper half of
   overflowCount is of two values (`Laps`), and it wraps, too.
 - *Failures.* What a failure leaves in the FIFO stays for all later messages, so
   one failure is followed by every command.
 - *Relay names.* The subset has an element of every class the code treats
   differently: the eight multiplexers on U6 and U7 and the four of connector 3,
   coils on U7, U9, U10 (USB and UART). A MULTIPLE command goes through all
   twelve multiplexers and all of the channels 1 to 15.
 - *Converter.* Three channels: the one asked for, one before and one after it in
   the order of conversion. Two missed writes can hide a missed one by another.
 - *Resistors.* A short; 9669 ohms, with the sense resistor one ohm below the window of a
   source; 44670 ohms, too much for the source after the one that fits; the largest
   resistance and the smallest open line. All are exact in microvolts. Garbage is the two
   ends of the scale, one of them below every window and the other above.
 - *Modbus.* Addresses modulo 8 with 2 registers: both in the table, the address
   behind it, one from which a quantity wraps (7 and 2), and starts in the table
   from which it wraps (quantity 7). Both are registered, 7 is illegal. A write bears
   one value or two different ones, for two registers: each its own, or one too few.
   `MCRequests` keeps of the requests that fill rx_data, of those to many and of those
   to the illegal address a few, because length, address and refusal do not depend on
   one another. One frame of noise, of any length, can meet every state of server and
   master; the retries that follow it are unbounded.
 - *MaxLines, MaxFailures, MaxMissed, MaxChanges, MaxNoise, MaxEarly, MaxSaid* are
   the only limits on histories; the console of `eager`, the calls and failures of
   `i2c_rough`, the reads of `adc`, the measurements of `autorange` and the requests
   of `modbus` are unbounded in number.

Deadlock is checked in every run but `patient`, and TLC finds none: the console of
`eager` always has the host's next byte, the others the next call or command. In
`patient` the system may really stop: a host that waits for the board to be ready, and a
board that has gone deaf.

Fairness, and its justification.

 - `UsbConsole!Fairness`: interrupts are served (weak), the main loop gets its
   turn (strong: each byte preempts it, for far less than the time of a byte at
   115200 baud), the UART shifts out (strong: `Drain` is disabled for the one
   assignment after Start_Transmit), time passes for the idle timer and for the
   command timeout (weak: a host that goes on sending keeps both from their
   limits), a timer that is old comes to its end (weak). Nothing is assumed of the
   host.
 - `UsbSession`: the same, weak throughout, since a patient host lets the loop
   run; the host need not send.
 - `DelayTimer`: counter and handler weakly, the client strongly, since an
   overflow disables it again and again for the time of the handler.
 - `I2cBus!FairSpec`: main loop, handlers and bus weakly. The last one says that
   a transfer ends sooner or later; `StuckSpec` leaves it out. Neither says that
   anybody calls.
 - `CommandDispatch`: the firmware weakly, and nothing of the site under test: nothing
   in uart_loopback_start bounds its time. That a site ends what it begins
   (`WF_vars(Farewell)`) is a premise of the second half of `ConsoleReturns`, not part of
   the specification.
 - `AdcSpi`: main, port, handler and the clock weakly. The converter need not convert.
 - `AutoRange`: main and the conversions weakly. The loop that waits for a result has
   no limit, so a converter that answers but never ends a conversion is left out, and
   `MeasureEnds` leaves out what follows a message missed by a device that is there.
 - `ModbusServer`: server, line, timer and end of response weakly, and the master's
   repetition.

## 5. Theorems

Each holds for every value of the constants that the named assumptions admit.

**UsbConsoleProofs.** `TypeCorrect`: the types and with them the bound of the command
buffer, for every size of at least two. `PartialCommandsTimed`: []PartialIsTimed, by an
invariant that adds which steps belong to an active command. `OneWayToGoDeaf`:
[]LinkAlive, with the idle timer free to expire between any two steps: nothing but the
wake-up that UART_Target_Receive overwrites can leave the board deaf
(`UsbSession_deaf.cfg` shows that this one does). LinkAlive is a statement about `pc =
"poll"`; the invariant `LinkInv` says, for every other step, who answers for a closed
receiver there (`ClosedReceiver`), and why the idle timer cannot be the one to end
(`EarlierResponse`, `UntakenByte`: a response under way is older than the timer, which a
byte has restarted since).

**UsbConsoleProofs, the session.** With a patient host, for any sizes and any number of
lines: `ResponseNeverDisturbed` is []ResponseUndisturbed, and `SessionKeepsChannel` is the
safety half of `ImplementsChannel`, by the step simulation of `CommandChannel`. The hazard
is the byte that the idle timer delivers again. `SessionInv` says that outside of a line
it can only be a line end (`LineEnds`), that inside one the timer is silent
(`NoTimerInLine`), and that during a response nothing that could run a command is left
(`Responding`). `LinesInv` is the account: inside a line, command plus byte on its way is
the line so far (`InLine`); between two, what is in the buffer is the last line written
and not yet executed (`BetweenLines`). The lemma `SessionStep` (a step of a session is one
of the console) makes the theorems about the console apply.

**DelayTimerProofs.** `GetIsExact`, `TimeoutsNotEarly` and
`TimeoutsNotLate` for every period, widths and limit below a full turn. One invariant
serves all three:
`ClockInv` (the handler is at most one overflow behind), `ReadInv` (the epoch is
overflow1 plus the overflows since it was read, modulo the width; so two equal
reads mean no overflow, as a pass takes less than `Wrap` of them) and `WaitInv`
(the true time is start plus elapsed, modulo a full turn).

**I2cBusProofs.** `TypeCorrect`, `NeverRefusedAlways`, `ReceiveAlwaysInBounds` and
`NackAlwaysReported` for any devices, bytes and FIFO depth of at least two, on a bus that
may stall. Types need `LeftInv` (a transfer under way has bytes left, the length is that
of the buffer) and `BusyInv` gives `NeverRefused`. `BoundInv` counts what a reception has
stored, has in the FIFO and has still to come: together one, because a reception begins
with an empty FIFO even when another is still on the bus. For `NackReported`, as long as
no wait has been given up: `WaitInv` (transfer and interrupts only while the call waits
for them), `FedInv` (a transmission never starves, so its wait cannot end by itself;
left-over bytes only help) and `NewsInv` (the news of a missing answer is an interrupt,
the driver's error, or the result).

`WritesARegister` is the safety half of `ImplementsRegisterFile`, for `Flaky = {}` and
`~Stalls`: the program, the interrupts and the bus do, step by step, what `RegisterFile`
does or nothing it sees. `Stages` lists the eleven stages of a call, each with what is on
the bus, in the FIFOs and pending, and with what the device has by then: the selected
register after the first byte, the written one after the second (`Selected`,
`Written`). The write reaches the device in `SendByte`, which is `Update`; `Compare` is
`Answer`, because by then `verify` is what the device sent and that is the value.
`HonestWhenAnswered` follows from the same invariant: on such a bus a call that returns
1 has written its register, so the finding of `VerifyHonest` (section 7) needs an answer
that was missing or late.

**AdcSpiProofs.** `TypeCorrect`, `ExchangeAlwaysOver`, `ChannelAlwaysRight`,
`ResultAlwaysFresh` and `ConvertsAlways` for any set of channels and any number of
missed writes. `TypeInv` joins the types with `PortInv` (as long as the
driver is busy one word is out and not yet in; idle, all words of the exchange are
both) and `ChannelInv` (`ChannelRight`, and no result before the converter has been
told to send the channel). `FreshInv`, while no write has been missed, says of
each step which channels are enabled (`EnabledInv`) and which samples can be in the
converter and on the wire (`SampleInv`).

**AutoRangeProofs.** `LostAlwaysZero`, `ResultAlwaysRight` and `SearchNeverSwings` for
every set of resistors, hence for values of which the run has five. `LostInv` follows a
lost converter through the tick: no reading begins, so no garbage is decided on.
`RangeInv` is the types that the arithmetic needs (`ShapeInv`) and, while nothing has
disturbed the measurement, `Undisturbed`: which source, gain and input are set at each
step, what a result that is ready must be (`RightCode`), and that the source before the
present one was too small (`Fits`). From the last no voltage is above its window, which is
`NeverSwings`, and the quotient of the final decision is the resistance. `TypeCorrect`
needs no quiet: with any failures, missed messages and any garbage the codes stay on the
scale (a code below zero is read as zero, `GarbageAssumption`), nothing is divided by
zero, and what is printed is an open line or less than one.

**ModbusProofs.** `AlwaysSpeaksWhenAsked`: what the server sends is to the request the
master waits for, by `AskedInv`, which says that a good frame of its own address on the
line, in the buffer or in a response is that request. `OnlyNamedAlwaysChange`: a sum that
wraps is smaller than the true one, so the loops of the handlers stay within the registers
that the request names; `TableInv` has the types this needs. `OneWayToGoDeaf` is the
theorem of the console, for frames: `HearsInv` adds what a call under way of
UART_Target_Receive still has to set. The same overwriting is why a deaf server may hold a
request and be sent it again (`Stuck`), which the other invariants carry.
`AnswerAlwaysTrue`: an answer is true when it is formed (`OutcomeTrue`) and stays true,
since until the master sends again nothing that would be executed is on the line or in the
buffer (`QuietInv`). It asks for `NumRegs + MaxQuantity <= Wrap`, a table of at most 65411
registers: at the end of a longer one a read whose end address wraps passes the bound and
is answered well, without a register (Modbus_Protocol.c:170). `TypeCorrect` says that an
answer never has more registers than a read may ask for: a span that ends above its start
has not wrapped (`EndAbove`). `OnlySingleOverruns` says how far the finding of `TableOnly`
(section 7) goes: one address, one function, and a failure as the answer.

**CommandDispatchProofs.** `TypeCorrect` (what is run is a command `RelayRouting`
executes, or the demo), `EveryLineAnswered`, `VerdictAlwaysRight` and `RunsAsWritten`, for
any names, spellings of pins, channels and bounds; the lines are all sequences of the
grammar with any one field changed. `RunsAsWritten` has the exceptions of `AsWritten` and
no others. One half of the proof has no states: for each family of lines, what `Grammar`
says the line means and what the handler does with its fields are the same (lemmas
`...Means` and `...Outcome`), where spellings of pins and the fields of another kind may
not be names of channels (`FieldsAssumption`), 0 is a pin, and a number that folds below
16 must be one (`DigitsAssumption`). The other half is the invariant: what has been run
and answered in each stage (`StageInv`), that it is what the line asks for (`MeantInv`),
and for the loop-back test that the collected word is what the site has sent since the
last test text (`LoopInv`), with what the FIFO may still hold from before it (`FifoInv`)
and the length of the history (`LengthInv`), from which the verdict follows
(`VerdictInv`).

**RelayRoutingProofs.** `TypeCorrect`, `ConversionAlwaysRight`, `RestAlwaysRight`,
`AlwaysBreaksFirst` and `CoilsCloseUnpowered` for any multiplexers, coils, pins and
channels of the board, any FIFO of at least three entries and any number of failures. A
script is fixed by its command, so a state is a position in it (`ScriptInv`). `Holds`,
`Raised` and `Lowered` say what the first n accesses of a script have last put on an
expander or a pin; unless a write was lost the board holds just that (`OutInv`, `PinInv`),
whatever it held before, because each script itself puts what its command needs. `DoneInv`
counts conversions. What remains is a statement about each family of scripts, access by
access: what is closed at its conversion, at its end, and before each write.
`AnsweredLosesNothing` says how far the finding of `ResetOpens` (section 7) goes: as long
as every transmission was acknowledged nothing is left over and no write is lost. An
expander is configured, or its turn in the script of boot is still to come
(`ToConfigure`). The provisos of the other theorems, that no write was lost and the
expanders are configured, therefore hold of every command on a bus that answers.

Only model-checked: liveness (`Rearmed`, `PartialFlushed`, `ComesBack`, `WaitEnds`,
`CallReturns`, `ConsoleReturns`, `ReadReturns`, `MeasureEnds`, `RetryAnswered`), which
needs fairness and ENABLED and is beyond the prover, and with it the liveness halves of
`ImplementsChannel` (every line is executed) and `ImplementsRegisterFile` (every call
is answered). Every invariant and every action property of the passing runs is a
theorem.

## 6. Assumptions about the hardware

 - Handlers have one priority; the loop does not run while an interrupt is
   pending, so there is no latency between an overflow of the clock and its
   handler (on the Cortex-M0+ it is a few cycles).
 - The RX interrupt comes with the first byte (threshold of one entry), the TX
   interrupt when one entry is left.
 - An I2C address that is not acknowledged ends the transfer and leaves unsent
   bytes in the controller's TX FIFO. `I2C_Controller.c:55` has a flush of the
   target's FIFO only. The findings of two runs rest on this.
 - Starting a transfer while one is on the bus replaces it or is lost (both are
   modelled).
 - An expander starts with its outputs all low or all high, its lines all inputs
   or all outputs. Register 0x01 holds outputs, 0x03 the directions (bit set =
   input), writes to any other are without effect.
 - Instructions that touch only the loop's own variables are part of the
   neighbouring step.

## 7. Findings

Two runs end with a counterexample to what a comment of the repository says;
PROJECT.json has the lines.

 - `phantom`: 34 ms after the last byte the idle timer reports RECEIVED though
   nothing came since the receiver was opened, and usb_fsm takes `rx_byte` again.
   After a line end that is harmless (an empty line); after any other byte, a host
   that pauses has it doubled. This is why `ImplementsChannel` needs a host that
   does not pause.
 - `relay_channel`: usb_mux.c:87-88 says "Toggle SBO High" and clears the pin. A USB
   test of channel 3 powers the first port and answers USB_TEST_OK.

The further configurations show, each as a counterexample:

 - `UsbSession_deaf` (`AlwaysHears`): the idle timer of an earlier byte expires
   between Start_Receive and the assignment of WAITING in UART_Target_Receive:
   RECEIVED is overwritten, the receiver is closed, no timer runs, and the board
   hears nothing more. It needs one coincidence of some microseconds, once.
   `LinkAlive`, `Rearmed`, `ComesBack` and, in the Modbus server, `ServerHears` and
   `RetryAnswered` except it, and nothing else of the kind.
 - `CommandDispatch_spelled` (`AsSpelled`): lines that do not run what they spell.
   string_to_pin counts in eight bits, so PIN_260 is pin 4, and takes PIN_ for pin 0;
   MES:RES:BET of measurement.c:370 is refused; what follows DEMO:RES is not read.
   `AsWritten` names these and holds of every other line.
 - `I2cBus_dishonest` (`VerifyHonest`), `RelayRouting_reset` (`ResetOpens`): bytes of an
   unacknowledged transmission stay in the FIFO and go out with every later message,
   until the next start. A verified write can return 1 without its register holding
   the value, and a reset that is acknowledged throughout can leave lines closed.
 - `I2cBus_stuck` (`CallReturns`): giving up a wait resets nothing; the next
   Start_Transmit spins for a bus that may never be idle.
 - `RelayRouting_powered` (`FunctionIsolated`): a USB resistance command leaves its coil
   closed, and a USB test after it powers the pen drive without opening it.
 - `ModbusServer_table` (`TableOnly`): the bound of a single write,
   Modbus_Protocol.c:232, is `>` and admits the address behind the table, whose word
   it writes before the action refuses.
 - `ModbusServer_wrap` (`ConfirmedWritten`): a write of several registers from a
   registered address with quantity 65535 has an end address below its start; it
   passes the bound, writes nothing and is confirmed.

Seen while modelling, without a configuration: a site that ends lines with CR LF
fails the loop-back test with its empty line; a site that is dead keeps the console in
the loop-back test for ever (`ConsoleReturns` excepts it); a test of anything but USB or
UART has no answer at all (`OneAnswer` excepts it); a message that the front end's
converter misses can leave every later reading one conversion behind, or the wait for a
conversion that was never begun (`MeasureEnds` excepts it); a Modbus request as long as
rx_data is answered while the idle timer runs, which then has tx_data zeroed under the
answer, each time (`RetryAnswered` excepts it).

## 8. Not modelled

 - Wording, units and number formats of answers; the characters of a field: parser and
   dispatcher are modelled on fields, so that a token longer than 31 characters is cut
   there is left out. `default` branches that no caller can reach.
 - Lost arbitration (one controller on each bus), DMA and receive buffers of more than
   one byte, which have no caller here. The message of three bytes of dac_set is a step
   of `AutoRange`, not of `I2cBus`.
 - The write through the null `rxBuffer` of the very first receive: the model keeps
   the window and drops the byte.
 - The bytes of a Modbus frame: length and byte count of a request, the CRC itself.
   The byte count is not looked at by the code either.
 - Quantisation and noise of both converters.
 - SPI block transfer, I2C target, UART controller and profiler: library files that
   nothing in the firmware includes a call of, so there is no use of them whose
   behaviour could be said to be right or wrong.
 - Generated and vendored code: `src/main/Debug`, `ti_msp_dl_config.c`, the vendor's
   driver library. Their effect on the hardware is in the actions named external in
   PROJECT.json.

Hazards that no property catches have a note in PROJECT.json: the bus that stays busy,
results of writes that nobody looks at with the bytes they leave behind, the converter
that never ends a conversion, the site that never speaks. For each the model has the
behaviour and the property an exception for it.

## 9. Plan

What is left, in this order:

 1. That `I2cBus` with unanswered transactions implements the message-level FIFO of
    `RelayRouting`, so that its `stale` is shown and not assumed: first on an instance,
    then as a step simulation like that of `RegisterFile`.
 2. How far the other findings of section 7 go, as `OnlySingleOverruns` does for the
    table, once something did fail: which lines a reset can leave closed after one
    failure (`ResetOpens`), and which register has what byte when a verified write
    returns 1 with bytes left over (`VerifyHonest`). Without a failure both are settled
    (`AnsweredLosesNothing`, `HonestWhenAnswered`).
 3. The third byte of dac_set in `I2cBus`.
