SPECIFICATION Spec
CONSTANTS
  None = None
  Prices = {1, 2}
  MaxBucket = 2
  MaxTicks = 4
  MaxInFlight = 3
INVARIANTS
  CandleOfOneBucket
  ExactUnlessDisturbed
PROPERTIES
  RowsAreFinal
