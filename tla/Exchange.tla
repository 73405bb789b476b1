------------------------------ MODULE Exchange ------------------------------
(***************************************************************************)
(* The exchange, as the robot's code relies on it: an external service     *)
(* that processes the requests of a session in order, accepts or refuses   *)
(* an order, and tells the robot about every change of an order it         *)
(* accepted.  Two of its liberties are constants, so that a run can say    *)
(* which of the robot's promises depend on them.                           *)
(***************************************************************************)
EXTENDS Protocol

CONSTANTS
  ResponseFirst,    (* the answer to a placement is sent before any update *)
                    (* about the order it accepts                          *)
  PartialFills,     (* an order may be executed in parts                   *)
  StartPositions,   (* position the account may have at the start          *)
  PositionBound     (* bound: no fill takes the position past it           *)

ASSUME ExchangeAssumption ==
  /\ ResponseFirst \in BOOLEAN
  /\ PartialFills \in BOOLEAN
  /\ StartPositions \subseteq Int
  /\ PositionBound \in Nat

VARIABLES
  subscribed,       (* channels the session receives                       *)
  live,             (* the robot's orders that can be executed             *)
  position,         (* the account's position in the instrument            *)
  owed              (* answers to accepted placements not yet sent         *)

exchangeVars == <<subscribed, live, position, owed>>

LiveOrder == [direction : Side, price : Int, remaining : 1..Quantity]

ASSUME NoLiveOrderAssumption == None \notin LiveOrder

ExchangeTypeOK ==
  /\ subscribed \subseteq Channel
  /\ live \in [OrderIds -> LiveOrder \cup {None}]
  /\ position \in Int
  /\ owed \subseteq [id : ReqIds, orderId : OrderIds]

ExchangeInit ==
  /\ subscribed = {}
  /\ live = [o \in OrderIds |-> None]
  /\ position \in StartPositions
  /\ owed = {}

-----------------------------------------------------------------------------
(* An update reaches the robot only over the channel it subscribed to.     *)
Publish(channel, m) == IF channel \in subscribed THEN Append(toBot, m)
                                                 ELSE toBot

(* The request at the head of the queue.                                   *)
Receives(type) == /\ toExchange # <<>>
                  /\ Head(toExchange).type = type
                  /\ toExchange' = Tail(toExchange)

(* A subscription to the positions is answered by a snapshot that lists    *)
(* only the instruments held.                                              *)
ProcessSubscribe ==
  /\ Receives("subscribe")
  /\ LET channel == Head(toExchange).channel
     IN  /\ subscribed' = subscribed \cup {channel}
         /\ toBot' = IF channel = "positions"
                     THEN Append(toBot, PositionsSnapshot(
                            IF position = 0 THEN None ELSE position))
                     ELSE toBot
  /\ UNCHANGED <<live, position, owed>>

AcceptOrder(o) ==
  /\ Receives("placeOrder")
  /\ LET r == Head(toExchange)
     IN  /\ live' = [live EXCEPT ![o] = [direction |-> r.direction,
                                         price     |-> r.price,
                                         remaining |-> r.quantity]]
         /\ IF ResponseFirst
            THEN /\ toBot' = Append(toBot, PlaceOrderResponse(r.id, TRUE, o))
                 /\ owed' = owed
            ELSE /\ owed' = owed \cup {[id |-> r.id, orderId |-> o]}
                 /\ toBot' = toBot
  /\ UNCHANGED <<subscribed, position>>

(* The answer to an accepted placement, sent after the fact.               *)
SendOwedResponse ==
  \E a \in owed :
    /\ toBot' = Append(toBot, PlaceOrderResponse(a.id, TRUE, a.orderId))
    /\ owed' = owed \ {a}
    /\ UNCHANGED <<toExchange, subscribed, live, position>>

RejectOrder ==
  /\ Receives("placeOrder")
  /\ toBot' = Append(toBot,
                PlaceOrderResponse(Head(toExchange).id, FALSE, None))
  /\ UNCHANGED <<subscribed, live, position, owed>>

(* The order leaves the book and the robot is told what was left of it.    *)
Withdraw(o) ==
  /\ live' = [live EXCEPT ![o] = None]
  /\ toBot' = Publish("orders",
       OrderUpdate(o, live[o].direction, "Cancelled", live[o].remaining))

(* A cancellation that comes too late is refused: nothing changes and the  *)
(* robot has no handler for the answer.                                    *)
ProcessCancel ==
  /\ Receives("cancelOrder")
  /\ LET o == Head(toExchange).orderId
     IN  IF live[o] # None THEN Withdraw(o) ELSE UNCHANGED <<live, toBot>>
  /\ UNCHANGED <<subscribed, position, owed>>

(* The exchange withdraws an order nobody asked it to withdraw.            *)
CancelByExchange(o) ==
  /\ live[o] # None
  /\ Withdraw(o)
  /\ UNCHANGED <<toExchange, subscribed, position, owed>>

Fill(o, k) ==
  /\ live[o] # None
  /\ k \in 1..live[o].remaining
  /\ PartialFills \/ k = live[o].remaining
  /\ LET d    == live[o].direction
         left == live[o].remaining - k
     IN  /\ position' = IF d = "Buy" THEN position + k ELSE position - k
         /\ position' \in -PositionBound..PositionBound
         /\ live' = [live EXCEPT ![o] = IF left = 0 THEN None
                                        ELSE [@ EXCEPT !.remaining = left]]
         /\ toBot' = Publish("orders",
              OrderUpdate(o, d, IF left = 0 THEN "Filled"
                                ELSE "PartiallyFilled", left))
  /\ UNCHANGED <<toExchange, subscribed, owed>>

=============================================================================
