SPECIFICATION Spec
CONSTANTS
  Muxes = {"CON1_MUX1"}
  VCoils = {"VR_USB_SEL_DP"}
  RCoils = {"CON3_MUX1_SEL"}
  Pins = {1}
  Channels = {2, 3}
  FifoDepth = 8
  MaxFailures = 0
INVARIANTS TestReaches
