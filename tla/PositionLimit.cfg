\* Orders executed in parts: the limit is exceeded.
\* A refused authentication ends the session: deadlock is not an error.
SPECIFICATION Spec
CONSTANTS
  None = None
  ReqIds = {q1, q2}
  OrderIds = {o1, o2, o3}
  Quantity = 2
  PositionSizeMax = 1
  Interest = 1
  Shift = 1
  UseConfigStartPositionSize = FALSE
  PositionSizeStart = 0
  ResponseFirst = TRUE
  PartialFills = TRUE
  StartPositions <- MCStartPositions
  PositionBound = 3
  Increments = {1}
  BookUpdates <- MCBookUpdates
  MaxUnsent = 2
SYMMETRY OrderIdSymmetry
CHECK_DEADLOCK FALSE
INVARIANTS
  PositionLimit
