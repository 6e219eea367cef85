SPECIFICATION FairSpec
CONSTANTS
  Devices = {d1, d2}
  Flaky = {d1, d2}
  Bytes = {0, 1}
  FifoDepth = 4
  Stalls = FALSE
INVARIANTS VerifyHonest
