SPECIFICATION FairSpec
CONSTANTS
  Chars = {a}
  EOL = EOL
  RxDepth = 2
  TxLoads = 2
  MaxCmdLen = 3
INVARIANTS TypeOK LinkAlive PartialIsTimed
PROPERTIES Rearmed PartialFlushed
