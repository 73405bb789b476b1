------------------------------ MODULE Trading ------------------------------
(***************************************************************************)
(* The robot trading with the exchange over one session: Bot and Exchange  *)
(* composed through the two queues of Protocol.  The robot handles one     *)
(* message at a time, in order; market data (instruments, order book) is   *)
(* an input drawn when it is handled, because nothing else depends on when *)
(* the exchange sent it.                                                   *)
(***************************************************************************)
EXTENDS Bot, Exchange

CONSTANTS
  Increments,       (* minimal price increments an instrument can have     *)
  BookUpdates,      (* order book messages: [bid |-> items, ask |-> items] *)
  MaxUnsent         (* bound: market data waits while the exchange has     *)
                    (* this many requests to process                       *)

ASSUME MarketAssumption ==
  /\ Increments \subseteq Nat \ {0}
  /\ \A u \in BookUpdates :
       /\ DOMAIN u = {"bid", "ask"}
       /\ \A side \in {"bid", "ask"} :
            u[side] \in Seq([price : Int, quantity : Nat])
  /\ MaxUnsent \in Nat \ {0}

VARIABLE session    (* "opening", "ready", or "refused" by authentication  *)

vars == <<bot, toExchange, toBot, exchangeVars, session>>

Init ==
  /\ BotInit
  /\ ExchangeInit
  /\ toExchange = <<>>
  /\ toBot = <<>>
  /\ session = "opening"

-----------------------------------------------------------------------------
(* The exchange's steps.                                                   *)

(* An order id is new to everybody who could confuse it with an older one. *)
Fresh(o) ==
  /\ live[o] = None
  /\ \A d \in Side : bot.ordersMap[d][o] = None
  /\ \A a \in owed : a.orderId # o
  /\ \A i \in DOMAIN toBot : toBot[i].type # "positions" => toBot[i].orderId # o
  /\ \A i \in DOMAIN toExchange :
       toExchange[i].type = "cancelOrder" => toExchange[i].orderId # o

Accept == \E o \in OrderIds : Fresh(o) /\ AcceptOrder(o)

ExchangeStep(A) == A /\ UNCHANGED <<bot, session>>

(* What the exchange does because it was asked to.                         *)
Serve == ExchangeStep(\/ ProcessSubscribe \/ Accept \/ ProcessCancel
                      \/ SendOwedResponse)

(* What it does of its own accord.                                         *)
Trade == \E o \in OrderIds :
  ExchangeStep(\E k \in 1..Quantity : Fill(o, k))

Refuse == ExchangeStep(RejectOrder)

Withdrawn == \E o \in OrderIds : ExchangeStep(CancelByExchange(o))

-----------------------------------------------------------------------------
(* The robot's steps.                                                      *)

RobotStep(A) == A /\ UNCHANGED <<exchangeVars, session>>

(* ConnectorWs::OnWsMessage on the answer to the authentication.           *)
Connect == \E isOk \in BOOLEAN :
  /\ session = "opening"
  /\ connectHandler(isOk)
  /\ session' = IF isOk THEN "ready" ELSE "refused"
  /\ UNCHANGED <<toBot, exchangeVars>>

Deliver ==
  /\ session = "ready"
  /\ toBot # <<>>
  /\ LET m == Head(toBot)
     IN  RobotStep(\/ PlaceOrderRejected(m) \/ PlaceOrderAccepted(m)
                   \/ OrderFilled(m) \/ OrderCancelled(m) \/ OrderUnknown(m)
                   \/ PositionsMessage(m))
  /\ toBot' = Tail(toBot)

Market ==
  /\ session = "ready"
  /\ Len(toExchange) < MaxUnsent
  /\ RobotStep(
       \/ "instruments" \in subscribed
          /\ \E increment \in Increments : InstrumentsMessage(increment)
       \/ "orderbook" \in subscribed
          /\ \E u \in BookUpdates : OrderBookMessage(u.bid, u.ask)
       \/ OtherMessage)
  /\ UNCHANGED toBot

-----------------------------------------------------------------------------
Next == Serve \/ Trade \/ Refuse \/ Withdrawn \/ Connect \/ Deliver \/ Market

Spec == Init /\ [][Next]_vars

-----------------------------------------------------------------------------
(* Type correctness of every variable of the composition.                  *)
BotTypeOK ==
  bot \in [minPriceIncrement : (Nat \ {0}) \cup {None},
           bestBuyPrice : Int \cup {None},
           bestSellPrice : Int \cup {None},
           positionSize : Int \cup {None},
           isOrderPlaced : [Side -> BOOLEAN],
           orderReqMap : [ReqIds -> OrderReq \cup {None}],
           ordersMap : [Side -> [OrderIds -> OrderReq \cup {None}]],
           orderBookBid : SUBSET Int,
           orderBookAsk : SUBSET Int,
           sent : {<<>>}]

TypeOK ==
  /\ BotTypeOK
  /\ ExchangeTypeOK
  /\ toExchange \in Seq(Request)
  /\ toBot \in Seq(Message)
  /\ session \in {"opening", "ready", "refused"}

-----------------------------------------------------------------------------
(* What the properties speak of.                                           *)

PendingIn(b, d) == {i \in ReqIds : /\ b.orderReqMap[i] # None
                                    /\ b.orderReqMap[i].direction = d}

KnownIn(b, d) == {o \in OrderIds : b.ordersMap[d][o] # None}

Pending(d) == PendingIn(bot, d)

Known(d) == KnownIn(bot, d)

LiveOn(d) == {o \in OrderIds : live[o] # None /\ live[o].direction = d}

Sent(d) == {i \in DOMAIN toExchange : /\ toExchange[i].type = "placeOrder"
                                      /\ toExchange[i].direction = d}

(* Nothing under way in either direction.                                  *)
Quiet == session = "ready" /\ toExchange = <<>> /\ toBot = <<>> /\ owed = {}

(* The slot of a side that Quoting speaks of, as the flag and the two maps *)
(* hold it.                                                                *)
SlotOf(b, d) ==
  IF ~b.isOrderPlaced[d] THEN [stage |-> "none", left |-> 0]
  ELSE IF KnownIn(b, d) = {} THEN [stage |-> "asked", left |-> Quantity]
  ELSE LET order == b.ordersMap[d][CHOOSE o \in KnownIn(b, d) : TRUE]
       IN  [stage |-> IF order.isReplaceOrder THEN "replacing" ELSE "quoted",
            left  |-> order.quantity]

Promise == INSTANCE Quoting WITH
  WholeFills <- ~PartialFills,
  ready      <- Ready(bot),
  position   <- bot.positionSize,
  slot       <- [d \in Side |-> SlotOf(bot, d)]

-----------------------------------------------------------------------------
(* SlotInv: the flag m_isBuyOrderPlaced (m_isSellOrderPlaced) is set       *)
(* exactly while the side has one order, waiting for its answer in         *)
(* m_orderReqMap or known in the side's map, and never two.  The flag, the *)
(* request map and the order map are updated by different handlers.        *)
SlotOK(b, d) ==
  \/ /\ ~b.isOrderPlaced[d]
     /\ PendingIn(b, d) = {} /\ KnownIn(b, d) = {}
  \/ /\ b.isOrderPlaced[d]
     /\ \/ KnownIn(b, d) = {} /\ \E i \in ReqIds : PendingIn(b, d) = {i}
        \/ PendingIn(b, d) = {} /\ \E o \in OrderIds : KnownIn(b, d) = {o}

SlotInv == \A d \in Side : SlotOK(bot, d)

(* MarketKnown: while the robot has an order, waiting or known, it knows   *)
(* both best prices, the increment and its position: orderUpdateHandler    *)
(* places the successor of a cancelled order without asking whether it     *)
(* can compute a price.                                                    *)
MarketKnown == \A d \in Side : bot.isOrderPlaced[d] => Ready(bot)

(* OneOrderPerSide: at the exchange, counting what is still on the wire, a *)
(* side never has two orders, whatever races with a replacement: the       *)
(* successor of a cancelled order is sent only when the order is gone.     *)
OneOrderPerSide == \A d \in Side :
  Cardinality(LiveOn(d)) + Cardinality(Sent(d)) <= 1

(* ResponsesKnown: an answer to a placement names a request the robot      *)
(* still holds, once: messageHandler dereferences m_orderReqMap[ id ]      *)
(* without looking whether it is there.                                    *)
ResponsesKnown ==
  LET answers == {i \in DOMAIN toBot : toBot[i].type = "placeOrder"}
  IN  /\ \A i \in answers : bot.orderReqMap[toBot[i].id] # None
      /\ \A i, j \in answers : toBot[i].id = toBot[j].id => i = j

(* Steady: the tail of messageHandler, run again in the state it left,     *)
(* does nothing: a message that changes nothing makes the robot send       *)
(* nothing, so a stream of such messages does not become a stream of       *)
(* cancellations.                                                          *)
Steady == session = "ready" => Requote(bot) = bot

(* PositionAccounting: whenever nothing is under way, the position the     *)
(* robot has added up from the updates it handled is the account's, or,    *)
(* with a configured start, has moved from there as the account's has.     *)
PositionAccounting ==
  Quiet /\ bot.positionSize # None /\ "positions" \in subscribed
    => \E start \in StartPositions :
         bot.positionSize - position =
           IF UseConfigStartPositionSize THEN PositionSizeStart - start ELSE 0

(* NoGhostOrder: whenever nothing is under way, the orders the robot       *)
(* believes in are the orders that live at the exchange, each with the     *)
(* price and the quantity it has there, and none waits for a replacement.  *)
NoGhostOrder ==
  Quiet => \A d \in Side :
    /\ Pending(d) = {}
    /\ Known(d) = LiveOn(d)
    /\ \A o \in Known(d) :
         /\ bot.ordersMap[d][o].price = live[o].price
         /\ bot.ordersMap[d][o].quantity = live[o].remaining
         /\ ~bot.ordersMap[d][o].isReplaceOrder

(* Quoted: whenever nothing is under way and the robot knows the market,   *)
(* every live order stands at the price the formula gives for the present  *)
(* market and the account's position, and each side the position limit     *)
(* allows has its order.                                                   *)
Quoted ==
  Quiet /\ Ready(bot) => \A d \in Side :
    /\ \A o \in LiveOn(d) : live[o].price = calculateOrderPrice(bot, d)
    /\ BelowLimit(bot, d) => LiveOn(d) # {}

(* PositionLimit: the account's position never exceeds positionSizeMax by  *)
(* more than what the last order placed below it adds.                     *)
PositionLimit ==
  position \in -(PositionSizeMax + Quantity - 1) .. PositionSizeMax + Quantity - 1

(* OnlyBelowLimit: if every order is executed whole, a side with an order  *)
(* is below its limit, the successor of a cancelled order included, which  *)
(* orderUpdateHandler places without looking at the limit.                 *)
OnlyBelowLimit == Promise!OutstandingBelow

(* Implemented: every message handled moves at most one side's slot, and   *)
(* only as Quoting lets it: an order is asked for once, quoted once, its   *)
(* executions move the position by what it loses, its end is taken once,   *)
(* and one that is being replaced is asked for again only when it is gone. *)
(* Several handlers and both queues take part in every such step.          *)
Implemented == Promise!Spec

=============================================================================
