\* Orders executed whole, room for the position to exceed the limit;
\* an update may arrive before the answer that names the order.
\* A refused authentication ends the session: deadlock is not an error.
SPECIFICATION Spec
CONSTANTS
  None = None
  ReqIds = {q1, q2}
  OrderIds = {o1, o2, o3}
  Quantity = 2
  PositionSizeMax = 1
  Interest = 1
  Shift = 1
  UseConfigStartPositionSize = FALSE
  PositionSizeStart = 0
  ResponseFirst = FALSE
  PartialFills = FALSE
  StartPositions <- MCStartPositions
  PositionBound = 4
  Increments = {1, 2}
  BookUpdates <- MCBookUpdates
  MaxUnsent = 2
SYMMETRY OrderIdSymmetry
CHECK_DEADLOCK FALSE
INVARIANTS
  OneOrderPerSide
  ResponsesKnown
  PositionLimit
  OnlyBelowLimit
PROPERTY Implemented
