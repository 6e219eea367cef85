SPECIFICATION StuckSpec
CONSTANTS
  Devices = {d1}
  Flaky = {}
  Bytes = {0, 1}
  FifoDepth = 3
  Stalls = TRUE
PROPERTIES CallReturns
