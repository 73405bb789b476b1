\* Whole prices, an interest of one half: nothing is rounded by a double.
SPECIFICATION Spec
CONSTANTS
  None = None
  Precision = 12
  BidPrices = {100}
  AskPrices = {110}
  Exponents = {0}
  MinExponent <- MCFormulaExponent
  Increments <- MCFormulaIncrements
  Positions = {0}
  Interest = 5
  Shift = 0
  MaxInFlight = 2
INVARIANT FollowsFormula
