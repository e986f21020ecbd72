SPECIFICATION Spec
CONSTANTS
  MaxBytes = 3
  BufSize = 2
  Limit = 2
INVARIANT TypeOK
INVARIANT LastWordsDelivered
PROPERTY SessionEnds
CHECK_DEADLOCK FALSE
