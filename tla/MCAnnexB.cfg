CONSTANTS
  Units <- MCUnits
  MaxUnits = 3
  MaxZeros = 2
SPECIFICATION Spec
INVARIANTS ReadInOrder
CHECK_DEADLOCK FALSE
