--------------------------- MODULE BoardCommands ---------------------------
(***************************************************************************)
(* The commands that the handlers of measurement.c and test.c hand to the  *)
(* board: what CommandDispatch makes of a line and RelayRouting executes.  *)
(***************************************************************************)
EXTENDS Integers

CONSTANTS
  Muxes, VCoils, RCoils,   \* the multiplexers and coils the host names ...
  Pins, Channels           \* ... and the pins and channels

ConMuxes  == {"CON1_MUX1", "CON1_MUX2", "CON1_MUX3", "GPIO_MUX", "CON2_MUX1",
              "CON2_MUX2", "CON2_MUX3", "CON2_MUX4"}
Con3Muxes == {"CON3_MUX1", "CON3_MUX2", "CON3_MUX3", "CON3_MUX4"}
MuxCoils  == {"CON1_MUX1_SEL", "CON1_MUX2_SEL", "CON1_MUX3_SEL", "CON2_MUX1_SEL",
              "CON2_MUX2_SEL", "CON2_MUX3_SEL", "CON2_MUX4_SEL"}
UsbCoils  == {"VR_USB_SEL_DP", "VR_USB_SEL_DN"}
UartCoils == {"VR_UART_SEL_TX", "VR_UART_SEL_RX"}
Con3Coils == {"CON3_MUX1_SEL", "CON3_MUX2_SEL", "CON3_MUX3_SEL", "CON3_MUX4_SEL"}

ASSUME NamesAssumption == /\ Muxes \subseteq ConMuxes \union Con3Muxes
                          /\ VCoils \subseteq MuxCoils \union UsbCoils \union UartCoils
                          /\ RCoils \subseteq Con3Coils
ASSUME PinsAssumption == Pins \subseteq 0 .. 15 /\ Channels \subseteq 0 .. 3

Single   == [kind : {"SINGLE"}, mux : Muxes, pin : Pins]
Diff     == [kind : {"DIFF"}, mux : Muxes, pin : Pins, mux2 : Muxes, pin2 : Pins]
Multiple == [kind : {"MULT"}, pin : Pins]
\* A resistance command of any of its three types takes any coil: what it does
\* not name, pin or channel, is 0.
Resist   == {c \in [kind : {"RES"}, num1 : VCoils, num2 : RCoils, pin1 : Pins \union {0},
                    pin2 : Pins, ch1 : Channels \union {0}, ch2 : Channels \union {0}] :
               \/ c.ch1 = 0 /\ c.ch2 = 0 /\ c.pin1 \in Pins    \* MUX
               \/ c.pin1 = 0 /\ c.ch2 = 0 /\ c.ch1 \in Channels    \* USB
               \/ c.pin1 = 0 /\ c.ch1 = 0 /\ c.ch2 \in Channels}    \* UART
Test     == [kind : {"TEST_USB", "TEST_UART"}, ch : Channels]
Commands == Single \union Diff \union Multiple \union Resist \union Test
=============================================================================
