------------------------------ MODULE Protocol ------------------------------
(***************************************************************************)
(* What the trading robot and the exchange share: the two directions an    *)
(* order can have, the channels a client subscribes to, the messages that  *)
(* travel over the websocket and the two queues that carry them.  A        *)
(* websocket delivers in order and loses nothing while it is open, so each *)
(* queue is a sequence, appended at its end and consumed at its head.      *)
(***************************************************************************)
EXTENDS Integers, Sequences, FiniteSets

CONSTANTS
  ReqIds,       (* request ids the connector hands out                     *)
  OrderIds,     (* order ids the exchange hands out                        *)
  Quantity,     (* conf: the size of an order                              *)
  None          (* "no value": INT64_MAX in Number, INT_MAX in the         *)
                (* position, an id a map does not hold                     *)

(* One order per side can be waiting for its answer, so that with two ids  *)
(* one is free whenever the connector needs one.                           *)
ASSUME ReqIdsAssumption == \E i, j \in ReqIds : i # j

ASSUME OrderIdsAssumption == IsFiniteSet(OrderIds)

ASSUME QuantityAssumption == Quantity \in Nat \ {0}

ASSUME NoneAssumption == /\ None \notin Int
                         /\ None \notin OrderIds

VARIABLES
  toExchange,   (* requests sent and not yet processed by the exchange     *)
  toBot         (* messages of the exchange not yet handled by the robot   *)

(* enum class OrderDirection without the _undef no message carries.        *)
Side == {"Buy", "Sell"}

(* The channels connectHandler subscribes to.                              *)
Channel == {"instruments", "orders", "orderbook", "positions"}

-----------------------------------------------------------------------------
(* Requests.                                                               *)

SubscribeRequest(channel) == [type |-> "subscribe", channel |-> channel]

PlaceOrderRequest(id, direction, price, quantity) ==
  [type |-> "placeOrder", id |-> id, direction |-> direction,
   price |-> price, quantity |-> quantity]

CancelOrderRequest(orderId) == [type |-> "cancelOrder", orderId |-> orderId]

(* Messages of the exchange.  The answers the robot has no handler for (to *)
(* a subscription, to a cancellation) carry nothing and are not queued:    *)
(* see OtherMessage in module Bot.                                         *)

PlaceOrderResponse(id, isOk, orderId) ==
  [type |-> "placeOrder", id |-> id, isOk |-> isOk, orderId |-> orderId]

OrderUpdate(orderId, direction, status, remaining) ==
  [type |-> "orders", orderId |-> orderId, direction |-> direction,
   status |-> status, remaining |-> remaining]

PositionsSnapshot(size) == [type |-> "positions", size |-> size]

-----------------------------------------------------------------------------
(* Types of the messages.                                                  *)

Request ==
  [type : {"subscribe"}, channel : Channel]
    \cup [type : {"placeOrder"}, id : ReqIds, direction : Side,
          price : Int, quantity : 1..Quantity]
    \cup [type : {"cancelOrder"}, orderId : OrderIds]

Message ==
  [type : {"placeOrder"}, id : ReqIds, isOk : {TRUE}, orderId : OrderIds]
    \cup [type : {"placeOrder"}, id : ReqIds, isOk : {FALSE}, orderId : {None}]
    \cup [type : {"orders"}, orderId : OrderIds, direction : Side,
          status : {"Filled", "PartiallyFilled", "Cancelled"}, remaining : 0..Quantity]
    \cup [type : {"positions"}, size : Int \cup {None}]

=============================================================================
