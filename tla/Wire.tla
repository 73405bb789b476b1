-------------------------------- MODULE Wire --------------------------------
(***************************************************************************)
(* What is written on the websocket and read from it: the requests of      *)
(* Request.cpp as JSON objects, the names Types.hpp has for directions,    *)
(* types, lifetimes and statuses, the orders, numbers and defaults of      *)
(* Types.cpp.  An object is a function from the names of its members; a    *)
(* number written as a string is wrapped.  The exchange reads requests by  *)
(* the vocabulary the comments of Request.hpp give, keeps the orders as it *)
(* understood them, and publishes them in its own words.                   *)
(***************************************************************************)
EXTENDS Digest

CONSTANTS
  None,
  OrderIds,         (* ids of orders, positive integers                    *)
  Prices,           (* Numbers: [significand, exponent]                    *)
  Quantities,
  Secrets,          (* sequences of digits, see Digest                     *)
  KeyId, Instrument,
  Times             (* seconds                                             *)

ASSUME PricesAssumption == Prices \subseteq [significand : Int, exponent : Int]

(* A secret is digits and other characters; the HMAC is bytes.             *)
ASSUME SecretsAssumption ==
  \A hex \in Secrets :
    /\ hex \in Seq(0..NoDigit)
    /\ \A now \in Times :
         Hmac(SecretBytes(hex), <<KeyId, now>>) \in Seq(0..255)

VARIABLES
  secret,           (* conf: keySecret                                     *)
  session,          (* "new", "accepted", "refused", "aborted"             *)
  channels,         (* channels the exchange publishes to the session      *)
  orders,           (* the orders as the exchange understood them          *)
  meant,            (* the orders as the robot meant them                  *)
  read              (* an update the robot has just read: what the         *)
                    (* exchange says of the order, what the robot takes    *)

vars == <<secret, session, channels, orders, meant, read>>

-----------------------------------------------------------------------------
(* The enumerations and their names.                                       *)

DirectionName == [Buy |-> "BUY", Sell |-> "SELL", _undef |-> "N/A"]

(* Mutant: two lifetimes have each other's name.                           *)
LifetimeNameMutant ==
  [FoK |-> "FOK", Gtc |-> "IOC", IoC |-> "GTC", _undef |-> "N/A"]

TypeName == [Limit |-> "LIMIT", PostOnly |-> "POST_ONLY", _undef |-> "N/A"]

LifetimeName == [FoK |-> "FOK", Gtc |-> "GTC", IoC |-> "IOC", _undef |-> "N/A"]

StatusName ==
  [Cancelled |-> "CANCELLED", Filled |-> "FILLED", New |-> "NEW",
   PartiallyFilled |-> "PARTIALLY_FILLED", _undef |-> "N/A"]

ChannelName ==
  [Instruments |-> "instruments", OrderBook |-> "orderbook",
   Orders |-> "orders", Positions |-> "positions"]

(* From...Name: the value with that name, else _undef.                     *)
Named(names, name) ==
  IF \E v \in DOMAIN names : v # "_undef" /\ names[v] = name
  THEN CHOOSE v \in DOMAIN names : v # "_undef" /\ names[v] = name
  ELSE "_undef"

-----------------------------------------------------------------------------
(* JsonSerializer: members are added at the end, the first of a name is    *)
(* the one that is found, a missing one has a default.                     *)

Object == [name \in {} |-> None]

Add(o, name, v) ==
  [n \in DOMAIN o \cup {name} |-> IF n \in DOMAIN o THEN o[n] ELSE v]

GetInt(o, name, default) == IF name \in DOMAIN o THEN o[name] ELSE default

GetString(o, name) == IF name \in DOMAIN o THEN o[name] ELSE ""

(* Number::Serialize and Deserialize.                                      *)
SerializeNumber(n) ==
  Add(Add(Object, "mantissa", n.significand), "exponent", n.exponent)

DeserializeNumber(o, old) ==
  [significand |-> GetInt(o, "mantissa", old.significand),
   exponent    |-> GetInt(o, "exponent", -1)]

-----------------------------------------------------------------------------
(* The requests: SerializeBase around the Serialize of each class.  The    *)
(* member "id" is the subject of module RequestIds.                        *)

MethodIdSubscribe == 1
MethodIdRequest == 9

Request(data) ==
  [method |-> MethodIdRequest, params |-> [data |-> data]]

Method(name, params) == Add(Add(Object, "method", name), "params", params)

SubscribeRequest(channel) ==
  [method |-> MethodIdSubscribe,
   params |-> [channel |-> ChannelName[channel]]]

AuthRequest(keySecret, now) == Request(Method("loginSessionByApiToken",
  [time       |-> [seconds |-> now, nanos |-> 0],
   apiKey     |-> KeyId,
   hmacDigest |-> Calculate(KeyId, keySecret, now)]))

PlaceOrderRequest(order) == Request(Method("placeOrder",
  [instrument  |-> order.instrument,
   size        |-> order.quantity,
   type        |-> TypeName[order.type],
   side        |-> DirectionName[order.direction],
   timeInForce |-> LifetimeName[order.lifetime],
   price       |-> SerializeNumber(order.price)]))

ReplaceOrderRequest(orderId, price, quantity) == Request(Method("replaceOrder",
  [orderId |-> orderId, price |-> SerializeNumber(price), size |-> quantity]))

CancelOrderRequest(orderId) == Request(Method("cancelOrder", orderId))

-----------------------------------------------------------------------------
(* The reading side of the robot.                                          *)

(* Mutant: the sizes are read from each other's member.                    *)
DeserializeOrderMutant(o) ==
  [id         |-> GetInt(o, "id", -1),
   instrument |-> GetInt(o, "instrument", -1),
   type       |-> Named(TypeName, GetString(o, "type")),
   lifetime   |-> Named(LifetimeName, GetString(o, "timeInForce")),
   direction  |-> Named(DirectionName, GetString(o, "side")),
   status     |-> Named(StatusName, GetString(o, "status")),
   price      |-> DeserializeNumber(o["price"], [significand |-> None]),
   quantity   |-> GetInt(o, "remainingSize", -1),
   remaining  |-> GetInt(o, "initialSize", -1)]

(* OrderEntry::Deserialize.                                                *)
DeserializeOrder(o) ==
  [id         |-> GetInt(o, "id", -1),
   instrument |-> GetInt(o, "instrument", -1),
   type       |-> Named(TypeName, GetString(o, "type")),
   lifetime   |-> Named(LifetimeName, GetString(o, "timeInForce")),
   direction  |-> Named(DirectionName, GetString(o, "side")),
   status     |-> Named(StatusName, GetString(o, "status")),
   price      |-> DeserializeNumber(o["price"], [significand |-> None]),
   quantity   |-> GetInt(o, "initialSize", -1),
   remaining  |-> GetInt(o, "remainingSize", -1)]

-----------------------------------------------------------------------------
(* The exchange: the words it knows, from Request.hpp:146-152 and from     *)
(* what the robot reads.                                                   *)

Direction == [BUY |-> "Buy", SELL |-> "Sell"]
Type == [LIMIT |-> "Limit", POST_ONLY |-> "PostOnly"]
Lifetime == [GTC |-> "Gtc", IOC |-> "IoC", FOK |-> "FoK"]
Status == [NEW |-> "New", FILLED |-> "Filled", CANCELLED |-> "Cancelled",
           PARTIALLY_FILLED |-> "PartiallyFilled"]

WordFor(vocabulary, v) == CHOOSE w \in DOMAIN vocabulary : vocabulary[w] = v

ReadPrice(o) == [significand |-> o.mantissa, exponent |-> o.exponent]

WritePrice(n) == [mantissa |-> n.significand, exponent |-> n.exponent]

Order == [instrument : {Instrument}, quantity : Quantities,
          type : {"Limit", "PostOnly"}, direction : {"Buy", "Sell"},
          lifetime : {"Gtc", "IoC", "FoK"}, price : Prices]

Init ==
  /\ secret \in Secrets
  /\ session = "new"
  /\ channels = {}
  /\ orders = [o \in OrderIds |-> None]
  /\ meant = [o \in OrderIds |-> None]
  /\ read = None

(* The digest is compared with the exchange's own, of the time it reads.   *)
(* An exception of FromHex ends the process.                               *)
Authenticate == \E now \in Times :
  /\ session = "new"
  /\ session' = IF FromHexThrows(secret) THEN "aborted"
                ELSE LET params == AuthRequest(secret, now).params.data.params
                         own    == Hmac(SecretBytes(secret),
                                        <<params.apiKey, params.time.seconds>>)
                     IN  IF /\ Hexadecimal(secret)
                            /\ params.hmacDigest
                                 = DigitsOf(NumberOf(own, 256), 2 * Len(own), 16)
                         THEN "accepted" ELSE "refused"
  /\ UNCHANGED <<secret, channels, orders, meant, read>>

Subscribe == \E channel \in DOMAIN ChannelName :
  /\ session = "accepted"
  /\ channels' = channels \cup {SubscribeRequest(channel).params.channel}
  /\ read' = None
  /\ UNCHANGED <<secret, session, orders, meant>>

Place == \E o \in OrderIds, order \in Order :
  /\ session = "accepted"
  /\ orders[o] = None
  /\ LET params == PlaceOrderRequest(order).params.data.params
     IN  orders' = [orders EXCEPT ![o] =
           [instrument |-> params.instrument, quantity |-> params.size,
            type |-> Type[params.type], direction |-> Direction[params.side],
            lifetime |-> Lifetime[params.timeInForce],
            price |-> ReadPrice(params.price)]]
  /\ meant' = [meant EXCEPT ![o] = order]
  /\ read' = None
  /\ UNCHANGED <<secret, session, channels>>

(* A class of the connector that the robot does not use.                   *)
Replace == \E o \in OrderIds, price \in Prices, quantity \in Quantities :
  /\ orders[o] # None
  /\ LET params == ReplaceOrderRequest(o, price, quantity).params.data.params
     IN  orders' = [orders EXCEPT
           ![params.orderId].price = ReadPrice(params.price),
           ![params.orderId].quantity = params.size]
  /\ meant' = [meant EXCEPT ![o].price = price, ![o].quantity = quantity]
  /\ read' = None
  /\ UNCHANGED <<secret, session, channels>>

Cancel == \E o \in OrderIds :
  /\ orders[o] # None
  /\ orders' = [orders EXCEPT ![CancelOrderRequest(o).params.data.params] = None]
  /\ meant' = [meant EXCEPT ![o] = None]
  /\ read' = None
  /\ UNCHANGED <<secret, session, channels>>

Publish == \E o \in OrderIds, status \in DOMAIN Status :
  /\ "orders" \in channels
  /\ orders[o] # None
  /\ \E remaining \in 0..orders[o].quantity :
       read' = [channel   |-> Named(ChannelName, "orders"),
                id        |-> o,
                status    |-> Status[status],
                remaining |-> remaining,
                taken     |-> DeserializeOrder(
                  [id |-> o, instrument |-> orders[o].instrument,
                   type |-> WordFor(Type, orders[o].type),
                   timeInForce |-> WordFor(Lifetime, orders[o].lifetime),
                   side |-> WordFor(Direction, orders[o].direction),
                   status |-> status, price |-> WritePrice(orders[o].price),
                   initialSize |-> orders[o].quantity,
                   remainingSize |-> remaining])]
  /\ UNCHANGED <<secret, session, channels, orders, meant>>

Next == Authenticate \/ Subscribe \/ Place \/ Replace \/ Cancel \/ Publish

Spec == Init /\ [][Next]_vars

-----------------------------------------------------------------------------
(* The terms of every order the exchange keeps are the ones the robot had  *)
(* in mind when it placed or replaced it, whatever lies between the enum   *)
(* and the member of the JSON object: direction, type, lifetime, price     *)
(* with its exponent, quantity.                                            *)
RequestsUnderstood == orders = meant

(* What the robot reads of an order is what it meant when it asked for it, *)
(* with the status and the remaining quantity the exchange states, and it  *)
(* reaches the handler of orders: the names of Types.hpp are inverted by   *)
(* From...Name, and no value becomes the default of another.               *)
EchoUnderstood ==
  read # None =>
    /\ read.channel = "Orders"
    /\ LET order == meant[read.id]
       IN  read.taken =
             [id |-> read.id, instrument |-> order.instrument,
              type |-> order.type, lifetime |-> order.lifetime,
              direction |-> order.direction, status |-> read.status,
              price |-> order.price, quantity |-> order.quantity,
              remaining |-> read.remaining]

(* A secret that is hexadecimal, with any number of digits and any leading *)
(* zeros, opens the session: the digest sent is the one the exchange makes *)
(* of the secret's bytes and of the time it is sent.                       *)
DigestAccepted ==
  Hexadecimal(secret) => session \in {"new", "accepted"}

=============================================================================
