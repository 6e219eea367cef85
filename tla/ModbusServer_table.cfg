SPECIFICATION Spec
CONSTANTS
  Wrap = 8
  NumRegs = 2
  MaxQuantity = 2
  Illegal = {7}
  Registered = {0, 1}
  ErrorReg = 1
  Starts = {1, 2, 7}
  Quantities = {2, 7}
  Values = {5, 6}
  Datas <- MCDatas
  Requests <- MCRequests
  MaxNoise = 1
PROPERTIES TableOnly
