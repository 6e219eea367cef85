SPECIFICATION Spec
CONSTANTS
  Muxes = {"CON1_MUX2", "GPIO_MUX", "CON3_MUX4"}
  VCoils = {"CON1_MUX1_SEL", "CON2_MUX2_SEL", "VR_USB_SEL_DN", "VR_UART_SEL_RX"}
  RCoils = {"CON3_MUX3_SEL"}
  Pins = {6, 9}
  Channels = {1, 2, 3}
  FifoDepth = 3
  MaxFailures = 1
INVARIANTS ConversionRight RestRight
PROPERTIES BreakBeforeMake CoilClosesUnpowered
