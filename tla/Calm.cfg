\* Liveness; no symmetry.
\* A refused authentication ends the session: deadlock is not an error.
SPECIFICATION CalmSpec
CONSTANTS
  None = None
  ReqIds = {q1, q2}
  OrderIds = {o1, o2}
  Quantity = 2
  PositionSizeMax = 1
  Interest = 1
  Shift = 1
  UseConfigStartPositionSize = FALSE
  PositionSizeStart = 0
  ResponseFirst = TRUE
  PartialFills = FALSE
  StartPositions <- MCStartPositions
  PositionBound = 4
  Increments = {2}
  BookUpdates <- MCBookUpdates
  MaxUnsent = 1
CHECK_DEADLOCK FALSE
PROPERTIES
  SettlesWhenCalm
  ReplacementCompletes
