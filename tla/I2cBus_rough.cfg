SPECIFICATION FairSpec
CONSTANTS
  Devices = {d1}
  Flaky = {d1}
  Bytes = {0, 1}
  FifoDepth = 3
  Stalls = TRUE
INVARIANTS TypeOK NackReported NeverRefused ReceiveInBounds
PROPERTIES CallReturns
