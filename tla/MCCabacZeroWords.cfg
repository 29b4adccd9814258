SPECIFICATION PaddingSpec
CONSTANTS
  Scale = 32
  RawBits = 5
  SizeT <- TwoTo10
  SliceBins <- SomeBins
  SliceBytes <- SomeBytes
  MaxBins = 130
  MaxBytes = 11
INVARIANTS AsRequired
CHECK_DEADLOCK FALSE
