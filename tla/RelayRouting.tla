---------------------------- MODULE RelayRouting ----------------------------
(***************************************************************************)
(* The measurement and test commands as what they do to the board: the     *)
(* relays and multiplexers behind five I2C expanders (maini2c.c), the      *)
(* pins of the USB and UART switches (usb_mux.c, uart_mux.c) and the       *)
(* conversions between (measurement.c, test.c).                            *)
(*                                                                         *)
(* A command is a script: the accesses its handler makes, in order.  The   *)
(* result of a write is never looked at, so a script runs to its end       *)
(* whatever the devices answer.  A byte is the set of its bits.            *)
(***************************************************************************)
EXTENDS BoardCommands, Sequences, FiniteSets

CONSTANTS
  FifoDepth,               \* entries of the controller's transmit FIFO
  MaxFailures              \* how many transactions may go unacknowledged

Expanders == {"U6", "U7", "U9", "U10", "U11"}
Bits      == 0 .. 7
OutputReg == {0}       \* 0x01
ConfigReg == {0, 1}    \* 0x03: a bit that is set makes its line an input

\* A transmission of two bytes never needs the FIFO to be refilled.
ASSUME DepthAssumption == FifoDepth \in Nat /\ FifoDepth >= 3 /\ MaxFailures \in Nat

VARIABLES
  out,       \* of every expander, the output register ...
  inputs,    \* ... and the configuration register
  pins,      \* the GPIO pins of the USB and UART switches that are high
  script,    \* what the running command has still to do
  request,   \* the running, or last, command
  done,      \* how many conversions it has made
  stale,     \* bytes of unacknowledged transmissions, left in the FIFO
  failures,  \* how many there have been, up to MaxFailures
  refused,   \* history: was a transmission of this command not acknowledged?
  lost       \* history: did a write of this command not do what it should?

vars == <<out, inputs, pins, script, request, done, stale, failures, refused, lost>>

-----------------------------------------------------------------------------
(* The codes of maini2c.c                                                  *)

enable_mux ==
  [CON1_MUX1 |-> {0}, CON1_MUX2 |-> {1}, CON1_MUX3 |-> {2}, CON2_MUX1 |-> {3},
   CON2_MUX2 |-> {4}, CON2_MUX3 |-> {5}, CON2_MUX4 |-> {6}, GPIO_MUX |-> {7},
   CON3_MUX1 |-> {0}, CON3_MUX2 |-> {1}, CON3_MUX3 |-> {2}, CON3_MUX4 |-> {3}]

vrpin_select(pin) == {b \in 0 .. 3 : (pin \div 2 ^ b) % 2 = 1}

\* A variant of rpin_select with a shift by five.
rpin_select_far(pin) == {b + 5 : b \in vrpin_select(pin)}

\* The pin in the upper half of the byte.
rpin_select(pin) == {b + 4 : b \in vrpin_select(pin)}

vrcoil_select ==
  [CON1_MUX1_SEL |-> {4}, CON1_MUX2_SEL |-> {5}, CON1_MUX3_SEL |-> {6},
   CON2_MUX1_SEL |-> {7}, CON2_MUX2_SEL |-> {0}, CON2_MUX3_SEL |-> {1},
   CON2_MUX4_SEL |-> {2}, VR_USB_SEL_DP |-> {0}, VR_USB_SEL_DN |-> {1},
   VR_UART_SEL_TX |-> {2}, VR_UART_SEL_RX |-> {3}]

rcoil_select == [CON3_MUX1_SEL |-> {3}, CON3_MUX2_SEL |-> {4},
                 CON3_MUX3_SEL |-> {5}, CON3_MUX4_SEL |-> {6}]

\* The input of the converter each multiplexer leads to.
AdcChannel ==
  [CON1_MUX1 |-> 1, CON1_MUX2 |-> 2, CON1_MUX3 |-> 3, GPIO_MUX |-> 4,
   CON2_MUX1 |-> 5, CON2_MUX2 |-> 6, CON2_MUX3 |-> 7, CON2_MUX4 |-> 8,
   CON3_MUX1 |-> 9, CON3_MUX2 |-> 10, CON3_MUX3 |-> 11, CON3_MUX4 |-> 12]

\* The multiplexer of a coil of the resistance path.
MuxOf == [CON1_MUX1_SEL |-> "CON1_MUX1", CON1_MUX2_SEL |-> "CON1_MUX2",
          CON1_MUX3_SEL |-> "CON1_MUX3", CON2_MUX1_SEL |-> "CON2_MUX1",
          CON2_MUX2_SEL |-> "CON2_MUX2", CON2_MUX3_SEL |-> "CON2_MUX3",
          CON2_MUX4_SEL |-> "CON2_MUX4", CON3_MUX1_SEL |-> "CON3_MUX1",
          CON3_MUX2_SEL |-> "CON3_MUX2", CON3_MUX3_SEL |-> "CON3_MUX3",
          CON3_MUX4_SEL |-> "CON3_MUX4"]

-----------------------------------------------------------------------------
(* The scripts                                                             *)

Write(e, bits)  == [op |-> "write", to |-> e, reg |-> OutputReg, bits |-> bits]
Config(e)       == [op |-> "write", to |-> e, reg |-> ConfigReg, bits |-> {}]
Gpio(high, low) == [op |-> "gpio", high |-> high, low |-> low]
Convert(ch)     == [op |-> "convert", ch |-> ch]

io_expander_config ==
  <<Config("U6"), Config("U7"), Config("U9"), Config("U10"), Config("U11")>>

\* A variant of reset_all that forgets the coils of the USB and UART paths.
reset_all_forgetful ==
  <<Write("U6", {}), Write("U7", {}), Write("U9", {}), Write("U11", {})>>

reset_all ==
  <<Write("U6", {}), Write("U7", {}), Write("U9", {}), Write("U10", {}), Write("U11", {})>>

\* A variant of Con3Path whose second write drops the enable bit of the first.
Con3PathDropped(mux, pin) ==
  <<Write("U11", enable_mux[mux]), Write("U11", rpin_select(pin))>>

\* A multiplexer of connector 3 shares its expander with its pin.
Con3Path(mux, pin) ==
  <<Write("U11", enable_mux[mux]), Write("U11", rpin_select(pin) \union enable_mux[mux])>>

single_voltage_measurement(mux, pin) ==
  reset_all
  \o (IF mux \in Con3Muxes
      THEN Con3Path(mux, pin)
      ELSE <<Write("U6", enable_mux[mux]), Write("U7", vrpin_select(pin))>>)
  \o <<Convert(AdcChannel[mux])>>
  \o reset_all

differential_voltage_measurement(mux1, pin1, mux2, pin2) ==
  single_voltage_measurement(mux1, pin1) \o single_voltage_measurement(mux2, pin2)

\* The order of the values of a multiple measurement.
MultipleOrder == <<"CON1_MUX1", "CON1_MUX2", "CON1_MUX3", "GPIO_MUX",
                   "CON2_MUX1", "CON2_MUX2", "CON2_MUX3", "CON2_MUX4",
                   "CON3_MUX1", "CON3_MUX2", "CON3_MUX3", "CON3_MUX4">>

multiple_voltage_measurement(pin) ==
  LET value(n) == single_voltage_measurement(MultipleOrder[n], pin)
  IN  value(1) \o value(2) \o value(3) \o value(4) \o value(5) \o value(6)
      \o value(7) \o value(8) \o value(9) \o value(10) \o value(11) \o value(12)
      \o <<Convert(13), Convert(14), Convert(15)>>

UsbSelect == {"SEL_A0", "SEL_A1", "SEL_B0", "SEL_B1"}
UsbEnable == {"ENA", "ENB"}
usb_clear_selection == Gpio({}, UsbSelect \union UsbEnable)

\* The pen drive, powered, to a channel.  Channel 3 is selected as channel 0 is.
usb_function_test(ch) ==
  LET high == CASE ch \in {0, 3} -> {"SEL_A1", "SEL_B1"}
                [] ch = 1        -> {"SEL_A1", "SEL_B1", "SEL_A0"}
                [] ch = 2        -> {}
  IN <<usb_clear_selection, Gpio({"VBUS"}, {}), Gpio(UsbEnable \union high, UsbSelect \ high)>>

\* A variant of usb_resistance_test that leaves the pen drive powered.
usb_resistance_powered(ch) == <<usb_clear_selection, Gpio(UsbEnable \union {"SEL_B1"}, {})>>

\* The resistance path to a channel, without power.
usb_resistance_test(ch) ==
  LET high == {"SEL_B1"} \union (CASE ch = 1 -> {"SEL_A0"} [] ch = 3 -> {"SEL_B0"} [] OTHER -> {})
  IN <<Gpio({}, {"VBUS"}), usb_clear_selection, Gpio(UsbEnable \union high, {"SEL_A1"})>>

uart_select(ch) ==
  LET high == {p \in {"UART_A0", "UART_A1"} : IF p = "UART_A0" THEN ch % 2 = 1 ELSE ch >= 2}
  IN <<Gpio({"UART_EN"} \union high, {"UART_A0", "UART_A1"} \ high)>>

\* A variant of FarEnd without the coil that U9 already holds.
FarEndAlone(num1, num2, pin2) ==
  <<Write("U11", rpin_select(pin2) \union enable_mux[MuxOf[num2]]), Write("U9", rcoil_select[num2])>>

\* The second end of a resistance path, on connector 3.  U9 may hold a coil of
\* the first end.
FarEnd(num1, num2, pin2) ==
  LET relay_coilu9 == IF num1 \in {"CON2_MUX2_SEL", "CON2_MUX3_SEL", "CON2_MUX4_SEL"}
                      THEN vrcoil_select[num1] ELSE {}
  IN <<Write("U11", rpin_select(pin2) \union enable_mux[MuxOf[num2]]),
       Write("U9", rcoil_select[num2] \union relay_coilu9)>>

\* The first end.
NearEnd(num1, pin1, ch1, ch2) ==
  CASE num1 \in UsbCoils  -> usb_resistance_test(ch1) \o <<Write("U10", vrcoil_select[num1])>>
    [] num1 \in UartCoils -> uart_select(ch2) \o <<Write("U10", vrcoil_select[num1])>>
    [] num1 \in {"CON2_MUX2_SEL", "CON2_MUX3_SEL", "CON2_MUX4_SEL"} ->
         <<Write("U6", enable_mux[MuxOf[num1]]), Write("U7", vrpin_select(pin1)),
           Write("U9", vrcoil_select[num1])>>
    [] OTHER ->
         <<Write("U6", enable_mux[MuxOf[num1]]),
           Write("U7", vrpin_select(pin1) \union vrcoil_select[num1])>>

resistance_measurement(num1, num2, pin1, pin2, ch1, ch2) ==
  reset_all \o NearEnd(num1, pin1, ch1, ch2) \o FarEnd(num1, num2, pin2)

-----------------------------------------------------------------------------
(* The scripts of the commands                                             *)

AtBoot == [kind |-> "INIT"]

Script(c) ==
  CASE c.kind = "INIT"      -> io_expander_config \o reset_all
    [] c.kind = "SINGLE"    -> single_voltage_measurement(c.mux, c.pin)
    [] c.kind = "DIFF"      -> differential_voltage_measurement(c.mux, c.pin, c.mux2, c.pin2)
    [] c.kind = "MULT"      -> multiple_voltage_measurement(c.pin)
    [] c.kind = "RES"       -> resistance_measurement(c.num1, c.num2, c.pin1, c.pin2, c.ch1, c.ch2)
    [] c.kind = "TEST_USB"  -> usb_function_test(c.ch)
    [] c.kind = "TEST_UART" -> uart_select(c.ch)

-----------------------------------------------------------------------------
(* Their execution                                                         *)

\* What the expanders hold when the processor starts: outputs all low or all
\* high, as inputs or not.
Init ==
  /\ \E b \in {{}, Bits}, c \in {{}, Bits} :
       out = [e \in Expanders |-> b] /\ inputs = [e \in Expanders |-> c]
  /\ pins = {} /\ request = AtBoot /\ script = Script(AtBoot)
  /\ done = 0 /\ stale = <<>> /\ failures = 0
  /\ refused = FALSE /\ lost = FALSE

Command ==
  /\ script = <<>>
  /\ request' \in Commands /\ script' = Script(request')
  /\ done' = 0 /\ refused' = FALSE /\ lost' = FALSE
  /\ UNCHANGED <<out, inputs, pins, stale, failures>>

Busy(op) == script # <<>> /\ Head(script).op = op /\ script' = Tail(script)

\* The bytes in the FIFO once a message has been handed over (I2cBus.FillTx).
Queue(q, msg) ==
  LET room == FifoDepth - Len(q)
  IN  q \o (IF Len(msg) <= room THEN msg ELSE SubSeq(msg, 1, room))
After(n, q)   == SubSeq(q, n + 1, Len(q))

\* What the device takes a message of two bytes for.
Store(e, reg, bits) ==
  /\ out' = IF reg = OutputReg THEN [out EXCEPT ![e] = bits] ELSE out
  /\ inputs' = IF reg = ConfigReg THEN [inputs EXCEPT ![e] = bits] ELSE inputs

\* i2c_write_verify with all transmissions acknowledged: the device is sent the
\* first bytes in the FIFO, whosever they are.
WriteDone ==
  /\ Busy("write")
  /\ LET w == Head(script)  q == Queue(stale, <<w.reg, w.bits>>)
     IN  /\ Store(w.to, q[1], q[2])
         /\ stale' = After(1, Queue(After(2, q), <<w.reg>>))
         /\ lost' = (lost \/ <<q[1], q[2]>> # <<w.reg, w.bits>>)
  /\ UNCHANGED <<pins, request, done, failures, refused>>

\* The write is not acknowledged: its bytes stay.
WriteFails ==
  /\ Busy("write") /\ failures < MaxFailures
  /\ stale' = Queue(stale, <<Head(script).reg, Head(script).bits>>)
  /\ failures' = failures + 1 /\ refused' = TRUE /\ lost' = TRUE
  /\ UNCHANGED <<out, inputs, pins, request, done>>

\* The selection before the read-back is not.
SelectFails ==
  /\ Busy("write") /\ failures < MaxFailures
  /\ LET w == Head(script)  q == Queue(stale, <<w.reg, w.bits>>)
     IN  /\ Store(w.to, q[1], q[2])
         /\ stale' = Queue(After(2, q), <<w.reg>>)
         /\ lost' = (lost \/ <<q[1], q[2]>> # <<w.reg, w.bits>>)
  /\ failures' = failures + 1 /\ refused' = TRUE
  /\ UNCHANGED <<pins, request, done>>

SetPins ==
  /\ Busy("gpio")
  /\ pins' = (pins \ Head(script).low) \union Head(script).high
  /\ UNCHANGED <<out, inputs, request, done, stale, failures, refused, lost>>

Conversion ==
  /\ Busy("convert")
  /\ done' = done + 1
  /\ UNCHANGED <<out, inputs, pins, request, stale, failures, refused, lost>>

Next == Command \/ WriteDone \/ WriteFails \/ SelectFails \/ SetPins \/ Conversion

Spec == Init /\ [][Next]_vars

-----------------------------------------------------------------------------
(* Properties                                                              *)

\* What the board connects: the lines of an expander that are driven high.
Closed(e) == out[e] \ inputs[e]

Open == \A e \in Expanders : Closed(e) = {}

\* Every line of every expander is an output, as boot configures it.
Configured == \A e \in Expanders : inputs[e] = {}

EnabledMuxes ==
  {m \in ConMuxes : enable_mux[m] \subseteq Closed("U6")}
  \union {m \in Con3Muxes : enable_mux[m] \subseteq Closed("U11")}

PinOfU7  == {b \in Closed("U7") : b < 4}
PinOfU11 == {b - 4 : b \in {l \in Closed("U11") : l >= 4}}

\* The expander a coil is on.
HomeOf(c) == CASE c \in UsbCoils \union UartCoils -> "U10"
               [] c \in {"CON1_MUX1_SEL", "CON1_MUX2_SEL", "CON1_MUX3_SEL", "CON2_MUX1_SEL"} -> "U7"
               [] OTHER -> "U9"

ClosedCoils ==
  {c \in MuxCoils \union UsbCoils \union UartCoils : vrcoil_select[c] \subseteq Closed(HomeOf(c))}
  \union {c \in Con3Coils : rcoil_select[c] \subseteq Closed("U9")}

TypeOK ==
  /\ out \in [Expanders -> SUBSET Bits] /\ inputs \in [Expanders -> SUBSET Bits]
  /\ pins \subseteq UsbSelect \union UsbEnable \union {"VBUS", "UART_EN", "UART_A0", "UART_A1"}
  /\ request \in Commands \union {AtBoot}
  /\ done \in 0 .. 15 /\ failures \in 0 .. MaxFailures
  /\ stale \in Seq(SUBSET Bits) /\ Len(stale) <= FifoDepth
  /\ refused \in BOOLEAN /\ lost \in BOOLEAN

\* The multiplexer and the pin of the next conversion, as the command names them.
AskedMux == CASE request.kind = "SINGLE" -> request.mux
              [] request.kind = "DIFF"   -> IF done = 0 THEN request.mux ELSE request.mux2
              [] request.kind = "MULT"   -> MultipleOrder[done + 1]
AskedPin == IF request.kind = "DIFF" /\ done = 1 THEN request.pin2 ELSE request.pin

\* Whatever was measured, tested or lost before, a conversion sees the pin the
\* command names through the multiplexer it names, no other multiplexer is
\* enabled and no coil of a resistance path is closed, provided the writes of
\* this command did what they should (maini2c.c:137-322) and the expanders are
\* configured, which only boot does (maini2c.c:16-24).
ConversionRight ==
  script # <<>> /\ Head(script).op = "convert" /\ ~lost /\ Configured =>
    /\ ClosedCoils = {}
    /\ IF Head(script).ch > 12
       THEN EnabledMuxes = {}
       ELSE /\ EnabledMuxes = {AskedMux}
            /\ Head(script).ch = AdcChannel[AskedMux]
            /\ vrpin_select(AskedPin) = IF AskedMux \in Con3Muxes THEN PinOfU11 ELSE PinOfU7

\* The switches by their inputs: the output that the pen drive (INA) is taken
\* to, those that the meter (INB) is taken to (usb_mux.c:52-88 and 107-134), and
\* the channel of the UART.
SelectedA == IF "SEL_A0" \in pins THEN 1 ELSE 0
SelectedB == IF "SEL_B0" \in pins THEN 3 ELSE 2
FunctionOutput == IF "SEL_A1" \in pins THEN SelectedA ELSE SelectedB
MeterOutputs   == (IF "SEL_A1" \in pins THEN {} ELSE {SelectedA})
                  \union (IF "SEL_B1" \in pins THEN {SelectedB} ELSE {})
UartOutput     == (IF "UART_A0" \in pins THEN 1 ELSE 0) + (IF "UART_A1" \in pins THEN 2 ELSE 0)

\* A resistance command leaves the path it names closed, both ends and both
\* coils, and no other coil or multiplexer; the UART switch is on the channel it
\* names, and that of the USB takes the meter at least there.  A test leaves its
\* switch on its channel, the pen drive powered, but the last channel of the USB
\* is left out (TestReaches); every voltage command leaves all open
\* (maini2c.c:279, 324-503).
RestRight ==
  script = <<>> /\ ~lost =>
    CASE request.kind = "RES" -> Configured =>
           /\ request.num1 \in UsbCoils => request.ch1 \in MeterOutputs /\ "VBUS" \notin pins
           /\ request.num1 \in UartCoils => request.ch2 = UartOutput
           /\ ClosedCoils = {request.num1, request.num2}
           /\ EnabledMuxes = {MuxOf[c] : c \in {request.num1, request.num2} \ (UsbCoils \union UartCoils)}
           /\ PinOfU11 = vrpin_select(request.pin2)
           /\ PinOfU7 = IF request.num1 \in MuxCoils THEN vrpin_select(request.pin1) ELSE {}
      [] request.kind = "TEST_USB"  -> "VBUS" \in pins /\ (request.ch # 3 => FunctionOutput = request.ch)
      [] request.kind = "TEST_UART" -> UartOutput = request.ch
      [] OTHER -> Open

\* No write that does what it should opens one line of an expander and leaves or
\* closes another: between two paths, all of the expander is open.
BreakBeforeMake ==
  [][lost' \/ \A e \in Expanders : Closed(e)' = {} \/ Closed(e) \subseteq Closed(e)']_vars

\* The coils of the USB lines close only while the pen drive has no power
\* (usb_mux.h:41, maini2c.c:416-427).
CoilClosesUnpowered ==
  [][LET usb == {0, 1} IN
     lost' \/ (Closed("U10")' \intersect usb) \subseteq Closed("U10")
           \/ "VBUS" \notin pins']_vars

\* While the pen drive is powered, the other input of the USB switch floats
\* (usb_mux.h:30-31: "INA = Pendrive USB D+/D-", "INB = Floating").
FunctionIsolated == "VBUS" \in pins => ClosedCoils \intersect UsbCoils = {}

\* A USB test takes the pen drive to the channel it names (usb_mux.h:14 "OUTB1",
\* usb_mux.c:88 "SBO = 0 (Selects OUTB1)").
TestReaches == script = <<>> /\ request.kind = "TEST_USB" => FunctionOutput = request.ch

\* After a voltage command, which ends with a reset, all outputs are open if
\* every transmission of the command was acknowledged (maini2c.c:27 "RESET ALL OUTPUTS").
ResetOpens == script = <<>> /\ request.kind = "SINGLE" /\ ~refused => Open
=============================================================================
