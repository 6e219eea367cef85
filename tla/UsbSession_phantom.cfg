SPECIFICATION SessionSpec
CONSTANTS
  Chars = {a, b}
  EOL = EOL
  RxDepth = 2
  TxLoads = 2
  MaxCmdLen = 3
  MaxLines = 1
INVARIANTS TakenByteIsNew

