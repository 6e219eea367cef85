SPECIFICATION FairSpec
CONSTANTS
  Period = 4
  Wrap = 3
  Laps = 2
  Timeout = 7
INVARIANTS GetExact NotEarly
PROPERTIES NotLate WaitEnds
