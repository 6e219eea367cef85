SPECIFICATION SessionSpec
CONSTANTS
  Chars = {a, b}
  EOL = EOL
  RxDepth = 2
  TxLoads = 2
  MaxCmdLen = 3
  MaxLines = 3
INVARIANTS ResponseUndisturbed
PROPERTIES ImplementsChannel ComesBack
CHECK_DEADLOCK FALSE
