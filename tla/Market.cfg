\* Levels that come and go, three exponents, doubles of twelve bits.
SPECIFICATION Spec
CONSTANTS
  None = None
  Precision = 12
  BidPrices = {100, 109}
  AskPrices = {110, 200}
  Exponents <- MCExponents
  MinExponent <- MCMinExponent
  Increments <- MCIncrements
  Positions <- MCPositions
  Interest = 7
  Shift = 2
  MaxInFlight = 2
INVARIANTS
  TypeOK
  BookInSync
  BestInSync
  QuotesDontCross
  NearFormula
