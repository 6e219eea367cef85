SPECIFICATION Spec
CONSTANTS
  Muxes = {"CON1_MUX1", "CON3_MUX1"}
  VCoils = {"CON1_MUX1_SEL", "VR_USB_SEL_DP"}
  RCoils = {"CON3_MUX1_SEL"}
  Pins = {0, 4, 9}
  Channels = {0, 2}
  MaxTokens = 16
  Digits <- MCDigits
  Others = {"PIN_x", "foo"}
  MaxEarly = 2
  MaxSaid = 4
INVARIANTS AsWritten OneAnswer VerdictRight
PROPERTIES ConsoleReturns
