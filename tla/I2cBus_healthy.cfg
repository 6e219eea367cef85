SPECIFICATION FairSpec
CONSTANTS
  Devices = {d1, d2}
  Flaky = {}
  Bytes = {0, 1}
  FifoDepth = 4
  Stalls = FALSE
PROPERTIES ImplementsRegisterFile
