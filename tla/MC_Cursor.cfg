CONSTANTS
  NRows = 2
  ALL = 100
  BACKWARD_ALL <- MCBackwardAll
  MaxStride = 2

SPECIFICATION Spec

INVARIANT TypeOK
INVARIANT DoneMeansExhausted
