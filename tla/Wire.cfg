\* The six secrets, one order at a time with every combination of terms.
\* A session the exchange refuses, or a process that FromHex ends, takes no
\* step: deadlock is not an error.
SPECIFICATION Spec
CONSTANTS
  None = None
  OrderIds = {7}
  Prices <- MCPrices
  Quantities = {1, 3}
  Secrets <- MCSecrets
  KeyId = KeyId
  Instrument = 1
  Times = {5, 200}
  Hmac <- MCHmac
CHECK_DEADLOCK FALSE
INVARIANTS
  RequestsUnderstood
  EchoUnderstood
  DigestAccepted
