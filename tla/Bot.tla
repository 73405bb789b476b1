-------------------------------- MODULE Bot --------------------------------
(***************************************************************************)
(* The robot of src/src/bot.cpp.  Its state is one record, `bot', with the *)
(* members of class bot; each method is an operator from such a record to  *)
(* the record it leaves, so that the calls a handler makes compose in the  *)
(* order of the code.  Every handler runs to its end on the connector's    *)
(* client thread, the only thread that touches this state: one message is  *)
(* one step.                                                               *)
(***************************************************************************)
EXTENDS Protocol, SequencesExt

CONSTANTS
  PositionSizeMax, Interest, Shift,                  (* conf: integers in  *)
  UseConfigStartPositionSize, PositionSizeStart      (* price units        *)

ASSUME ConfAssumption ==
  /\ PositionSizeMax \in Nat \ {0}
  /\ Interest \in Int
  /\ Shift \in Int
  /\ UseConfigStartPositionSize \in BOOLEAN
  /\ PositionSizeStart \in Int

VARIABLE bot

(* The PlaceOrderRequestWs object the robot keeps for an order.            *)
OrderReq == [direction : Side, price : Int, quantity : 1..Quantity,
             isReplaceOrder : BOOLEAN]

ASSUME NoOrderReqAssumption == None \notin OrderReq

(* bot::bot: nothing known yet but, if configured, the start position.     *)
BotInit ==
  bot = [minPriceIncrement |-> None,
         bestBuyPrice |-> None,
         bestSellPrice |-> None,
         positionSize |-> IF UseConfigStartPositionSize
                          THEN PositionSizeStart ELSE None,
         isOrderPlaced |-> [d \in Side |-> FALSE],
         orderReqMap |-> [i \in ReqIds |-> None],
         ordersMap |-> [d \in Side |-> [o \in OrderIds |-> None]],
         orderBookBid |-> {},
         orderBookAsk |-> {},
         sent |-> <<>>]

-----------------------------------------------------------------------------
(* Prices.  A price is the integer significand of a Number at the one      *)
(* exponent the exchange uses for this instrument.                         *)

(* Number::Div( 2 ): the double quotient stored back into an int64_t.      *)
Half(s) == IF s >= 0 THEN s \div 2 ELSE -((-s) \div 2)

(* Number::ModRing: the multiple of m nearest to p, halves away from zero. *)
ModRing(p, m) ==
  m * (IF p >= 0 THEN (2 * p + m) \div (2 * m)
                 ELSE -((m - 2 * p) \div (2 * m)))

(* bot::calculateOrderPrice.                                               *)
calculateOrderPrice(b, d) ==
  LET mid    == Half(b.bestBuyPrice + b.bestSellPrice)
      margin == IF d = "Buy" THEN -Interest ELSE Interest
  IN  ModRing(mid + margin - Shift * b.positionSize, b.minPriceIncrement)

-----------------------------------------------------------------------------
(* The methods that send requests.                                         *)

(* Mutant: the request counter is not advanced.                            *)
NextReqIdMutant(b) == CHOOSE i \in ReqIds : TRUE

(* The id ConnectorWs::Send returns: one no unanswered request carries.    *)
NextReqId(b) == CHOOSE i \in ReqIds : b.orderReqMap[i] = None

(* Mutant: isPlaced is not set.                                            *)
placeOrderUnflagged(b, d, quantity) ==
  LET price == calculateOrderPrice(b, d)
      reqId == NextReqId(b)
  IN  [b EXCEPT
         !.orderReqMap[reqId] = [direction |-> d, price |-> price,
                                 quantity |-> Quantity,
                                 isReplaceOrder |-> FALSE],
         !.sent = Append(@, PlaceOrderRequest(reqId, d, price, Quantity))]

(* Mutant: the price is not brought to the instrument's grid.              *)
placeOrderUnrounded(b, d, quantity) ==
  LET price == calculateOrderPrice([b EXCEPT !.minPriceIncrement = 1], d)
      reqId == NextReqId(b)
  IN  [b EXCEPT
         !.orderReqMap[reqId] = [direction |-> d, price |-> price,
                                 quantity |-> Quantity,
                                 isReplaceOrder |-> FALSE],
         !.isOrderPlaced[d] = TRUE,
         !.sent = Append(@, PlaceOrderRequest(reqId, d, price, Quantity))]

(* bot::placeOrder.  The order is for the configured quantity: the         *)
(* parameter of that name is not used.                                     *)
placeOrder(b, d, quantity) ==
  LET price == calculateOrderPrice(b, d)
      reqId == NextReqId(b)
  IN  [b EXCEPT
         !.orderReqMap[reqId] = [direction |-> d, price |-> price,
                                 quantity |-> Quantity,
                                 isReplaceOrder |-> FALSE],
         !.isOrderPlaced[d] = TRUE,
         !.sent = Append(@, PlaceOrderRequest(reqId, d, price, Quantity))]

(* Mutant: the new price is not remembered.                                *)
replaceOrderForgetful(b, d) ==
  LET price == calculateOrderPrice(b, d)
      stale == {o \in OrderIds : /\ b.ordersMap[d][o] # None
                                 /\ b.ordersMap[d][o].price # price}
  IN  [b EXCEPT
         !.ordersMap[d] = [o \in OrderIds |->
           IF o \in stale THEN [@[o] EXCEPT !.isReplaceOrder = TRUE] ELSE @[o]],
         !.sent = @ \o SetToSeq({CancelOrderRequest(o) : o \in stale})]

(* Mutant: only a price that rises makes the order stale.                  *)
replaceOrderIfPriceRose(b, d) ==
  LET price == calculateOrderPrice(b, d)
      stale == {o \in OrderIds : /\ b.ordersMap[d][o] # None
                                 /\ b.ordersMap[d][o].price < price}
  IN  [b EXCEPT
         !.ordersMap[d] = [o \in OrderIds |->
           IF o \in stale
           THEN [@[o] EXCEPT !.price = price, !.isReplaceOrder = TRUE]
           ELSE @[o]],
         !.sent = @ \o SetToSeq({CancelOrderRequest(o) : o \in stale})]

(* Mutant: the successor is sent together with the cancellation.           *)
replaceOrderAtOnce(b, d) ==
  LET price == calculateOrderPrice(b, d)
      stale == {o \in OrderIds : /\ b.ordersMap[d][o] # None
                                 /\ b.ordersMap[d][o].price # price}
      cancels == SetToSeq({CancelOrderRequest(o) : o \in stale})
      cleared == [b EXCEPT !.sent = @ \o cancels,
                           !.ordersMap[d] = [o \in OrderIds |-> None]]
  IN  IF stale = {} THEN b ELSE placeOrder(cleared, d, Quantity)

(* bot::replaceOrderIfPriceChanged.  An order to replace is cancelled; its *)
(* successor is placed when the cancellation comes back.                   *)
replaceOrderIfPriceChanged(b, d) ==
  LET price == calculateOrderPrice(b, d)
      stale == {o \in OrderIds : /\ b.ordersMap[d][o] # None
                                 /\ b.ordersMap[d][o].price # price}
      cancels == SetToSeq({CancelOrderRequest(o) : o \in stale})
  IN  [b EXCEPT
         !.ordersMap[d] = [o \in OrderIds |->
           IF o \in stale
           THEN [@[o] EXCEPT !.price = price, !.isReplaceOrder = TRUE]
           ELSE @[o]],
         !.sent = @ \o cancels]

(* The tail of bot::messageHandler, run after every message.               *)
HasOrder(b, d) == \E o \in OrderIds : b.ordersMap[d][o] # None

Ready(b) == None \notin {b.bestBuyPrice, b.bestSellPrice,
                         b.minPriceIncrement, b.positionSize}

(* Mutant: <= for <.                                                       *)
BelowLimitInclusive(b, d) ==
  IF d = "Buy" THEN b.positionSize <= PositionSizeMax
               ELSE b.positionSize >= -PositionSizeMax

BelowLimit(b, d) == IF d = "Buy" THEN b.positionSize < PositionSizeMax
                                 ELSE b.positionSize > -PositionSizeMax

placeOrderIfNone(b, d) ==
  IF ~b.isOrderPlaced[d] /\ BelowLimit(b, d) /\ ~HasOrder(b, d)
  THEN placeOrder(b, d, Quantity) ELSE b

Requote(b) ==
  LET placed == placeOrderIfNone(placeOrderIfNone(b, "Buy"), "Sell")
  IN  IF Ready(b)
      THEN replaceOrderIfPriceChanged(
             replaceOrderIfPriceChanged(placed, "Buy"), "Sell")
      ELSE b

(* A handler that has reached state b runs the tail and hands what it sent *)
(* to the websocket.                                                       *)
Finish(b) ==
  LET done == Requote(b)
  IN  /\ bot' = [done EXCEPT !.sent = <<>>]
      /\ toExchange' = toExchange \o done.sent

-----------------------------------------------------------------------------
(* bot::connectHandler, then bot::messageHandler on the same response.     *)
connectHandler(isOk) ==
  Finish([bot EXCEPT !.sent =
            IF isOk THEN << SubscribeRequest("instruments"),
                            SubscribeRequest("orders"),
                            SubscribeRequest("orderbook"),
                            SubscribeRequest("positions") >>
                    ELSE <<>>])

(* case ResponseType::PlaceOrder, refused.                                 *)
PlaceOrderRejected(m) ==
  /\ m.type = "placeOrder" /\ ~m.isOk
  /\ LET req == bot.orderReqMap[m.id]
     IN  /\ req # None
         /\ Finish([bot EXCEPT !.isOrderPlaced[req.direction] = FALSE,
                               !.orderReqMap[m.id] = None])

(* case ResponseType::PlaceOrder, accepted: the request becomes an order.  *)
PlaceOrderAccepted(m) ==
  /\ m.type = "placeOrder" /\ m.isOk
  /\ LET req == bot.orderReqMap[m.id]
     IN  /\ req # None
         /\ Finish([bot EXCEPT !.ordersMap[req.direction][m.orderId] = req,
                               !.orderReqMap[m.id] = None])

(* Mutant: the order's quantity is not brought up to date.                 *)
AfterFillForgetful(b, m) ==
  LET d      == m.direction
      filled == b.ordersMap[d][m.orderId].quantity - m.remaining
  IN  [b EXCEPT
         !.positionSize = IF d = "Buy" THEN @ + filled ELSE @ - filled,
         !.ordersMap[d][m.orderId] = IF m.remaining = 0 THEN None ELSE @,
         !.isOrderPlaced[d] = @ /\ m.remaining # 0]

(* Mutant: a filled order stays in the map.                                *)
AfterFillKeepsOrder(b, m) ==
  LET d      == m.direction
      order  == b.ordersMap[d][m.orderId]
      filled == order.quantity - m.remaining
  IN  [b EXCEPT
         !.positionSize = IF d = "Buy" THEN @ + filled ELSE @ - filled,
         !.ordersMap[d][m.orderId] = [order EXCEPT !.quantity = m.remaining],
         !.isOrderPlaced[d] = @ /\ m.remaining # 0]

(* bot::orderUpdateHandler on an order it knows: a fill moves the position *)
(* by what the order lost since the last update.                           *)
AfterFill(b, m) ==
  LET d      == m.direction
      order  == b.ordersMap[d][m.orderId]
      filled == order.quantity - m.remaining
  IN  [b EXCEPT
         !.positionSize = IF d = "Buy" THEN @ + filled ELSE @ - filled,
         !.ordersMap[d][m.orderId] =
            IF m.remaining = 0 THEN None
            ELSE [order EXCEPT !.quantity = m.remaining],
         !.isOrderPlaced[d] = @ /\ m.remaining # 0]

(* Mutant: a cancelled order stays in the map when its successor is placed. *)
AfterCancelKeepsOrder(b, m) ==
  LET d     == m.direction
      order == b.ordersMap[d][m.orderId]
  IN  IF order.isReplaceOrder /\ order.quantity > 0
      THEN placeOrder(b, d, order.quantity)
      ELSE [b EXCEPT !.isOrderPlaced[d] = FALSE,
                     !.ordersMap[d][m.orderId] = None]

(* A cancelled order leaves the map; one that was to be replaced is placed *)
(* anew, whatever the position is by now.                                  *)
AfterCancel(b, m) ==
  LET d     == m.direction
      order == b.ordersMap[d][m.orderId]
      next  == IF order.isReplaceOrder /\ order.quantity > 0
               THEN placeOrder(b, d, order.quantity)
               ELSE [b EXCEPT !.isOrderPlaced[d] = FALSE]
  IN  [next EXCEPT !.ordersMap[d][m.orderId] = None]

(* case ResponseType::ChannelOrders.                                       *)
Knows(m) == bot.ordersMap[m.direction][m.orderId] # None

OrderFilled(m) ==
  /\ m.type = "orders" /\ m.status \in {"Filled", "PartiallyFilled"}
  /\ Knows(m)
  /\ Finish(AfterFill(bot, m))

OrderCancelled(m) ==
  /\ m.type = "orders" /\ m.status = "Cancelled"
  /\ Knows(m)
  /\ Finish(AfterCancel(bot, m))

OrderUnknown(m) ==
  /\ m.type = "orders"
  /\ ~Knows(m)
  /\ Finish(bot)

(* Mutant: every positions message counts.                                 *)
PositionsMessageAlways(m) ==
  /\ m.type = "positions"
  /\ Finish([bot EXCEPT !.positionSize =
               IF m.size = None THEN 0 ELSE m.size])

(* case ResponseType::ChannelPositions: only the first one counts; an      *)
(* instrument that is not listed has no position.                          *)
PositionsMessage(m) ==
  /\ m.type = "positions"
  /\ Finish([bot EXCEPT !.positionSize =
               IF @ # None THEN @ ELSE IF m.size = None THEN 0 ELSE m.size])

(* case ResponseType::ChannelInstruments.                                  *)
InstrumentsMessage(increment) ==
  Finish([bot EXCEPT !.minPriceIncrement = increment])

(* The loops of case ResponseType::ChannelOrderBook over one side of the   *)
(* message: the last item for a price decides whether the level exists.    *)
ApplyItems(levels, items) ==
  LET at(p) == {i \in DOMAIN items : items[i].price = p}
  IN  {p \in levels \cup {items[i].price : i \in DOMAIN items} :
         \A i \in at(p) : (\A j \in at(p) : j <= i) => items[i].quantity > 0}

(* Mutant: an empty side has no best level.                                *)
HighestOrNone(levels, old) ==
  IF levels = {} THEN {None} ELSE {p \in levels : \A q \in levels : q <= p}

(* The best level, or what was known before when the side is empty.        *)
Highest(levels, old) ==
  IF levels = {} THEN {old} ELSE {p \in levels : \A q \in levels : q <= p}

Lowest(levels, old) ==
  IF levels = {} THEN {old} ELSE {p \in levels : \A q \in levels : p <= q}

OrderBookMessage(bidItems, askItems) ==
  LET bid == ApplyItems(bot.orderBookBid, bidItems)
      ask == ApplyItems(bot.orderBookAsk, askItems)
  IN  \E buy \in Highest(bid, bot.bestBuyPrice),
         sell \in Lowest(ask, bot.bestSellPrice) :
        Finish([bot EXCEPT !.orderBookBid = bid, !.orderBookAsk = ask,
                           !.bestBuyPrice = buy, !.bestSellPrice = sell])

(* Any other message: a response of no known type, a channel message about *)
(* another instrument, an order update of status New.                      *)
OtherMessage == Finish(bot)

=============================================================================
