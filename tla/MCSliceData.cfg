SPECIFICATION SliceSpec
CONSTANTS
  Bytes = {0, 3, 4}
  Headers <- SomeHeaders
  MaxBytes = 9
  MaxWords = 2
  MaxParts = 4
INVARIANTS NoStartCode ReadsBack SubstreamsMatch EntryPointsExact
CHECK_DEADLOCK FALSE
