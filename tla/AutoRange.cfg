SPECIFICATION Spec
CONSTANTS
  Resistors = {0, 44670, 9669, 4899999, 4900000}
  Garbage = {0, 5000000}
  MaxFailures = 1
  MaxChanges = 1
INVARIANTS ResultRight LostReadsZero
PROPERTIES NeverSwings MeasureEnds
