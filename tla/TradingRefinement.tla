------------------------- MODULE TradingRefinement -------------------------
(***************************************************************************)
(* Trading implements Quoting, for every value of the constants: whatever  *)
(* message the robot handles, at most one side's slot moves, and only as   *)
(* Quoting lets it.  From there, the limit of the account's position.      *)
(*                                                                         *)
(* The exchange's steps do not touch the slots.  Of the robot's, only an   *)
(* execution needs to know more than the robot's own state: that the       *)
(* quantity the update gives is less than the one the robot remembers.     *)
(* The invariant says so of every update under way (FillInv), which takes  *)
(* what the exchange still has of the order into account (LeftInv).        *)
(*                                                                         *)
(* Steady, which is about the robot alone, comes next: what is known of    *)
(* the tail of messageHandler for the refinement makes it idempotent.      *)
(*                                                                         *)
(* PositionLimit is at the end.  The robot only compares its own position  *)
(* with the limit, so the argument is about what separates it from the     *)
(* account's: an execution it has not read yet, or has read without        *)
(* knowing the order, because the answer that names it was overtaken.  In  *)
(* both cases the side's slot still holds the executed order, so that      *)
(* there is at most one on a side, and the side was below its limit.       *)
(***************************************************************************)
EXTENDS TradingProofs

USE QuantityAssumption, NoneAssumption, ConfAssumption

(* A request waiting for its answer is for a whole order, not yet stale.   *)
Whole(r) == r.quantity = Quantity /\ ~r.isReplaceOrder

RequestInv == \A i \in ReqIds :
  bot.orderReqMap[i] # None => Whole(bot.orderReqMap[i])

IsFill(m) == m.type = "orders" /\ m.status \in {"Filled", "PartiallyFilled"}

(* An update says that less is left than the robot remembers, or any       *)
(* earlier update said, and no less than the exchange has.                 *)
FillOK(q, orders, m) ==
  /\ m.remaining < Quantity
  /\ ~PartialFills => m.remaining = 0
  /\ orders[m.direction][m.orderId] # None
       => m.remaining < orders[m.direction][m.orderId].quantity
  /\ q[m.orderId] # None => q[m.orderId].remaining <= m.remaining

FillInv ==
  /\ \A k \in DOMAIN toBot :
       IsFill(toBot[k]) => FillOK(live, bot.ordersMap, toBot[k])
  /\ \A j, k \in DOMAIN toBot :
       j < k /\ IsFill(toBot[j]) /\ IsFill(toBot[k])
             /\ toBot[j].orderId = toBot[k].orderId
         => toBot[k].remaining < toBot[j].remaining

(* The exchange never has more of an order than the robot remembers.       *)
LeftInv == \A o \in OrderIds :
  live[o] # None /\ bot.ordersMap[live[o].direction][o] # None
    => live[o].remaining <= bot.ordersMap[live[o].direction][o].quantity

QuantityInv == RequestInv /\ FillInv /\ LeftInv

-----------------------------------------------------------------------------
(* The robot's steps keep the quantities.                                  *)

(* The invariant's parts, of a map of requests, and of a map of orders and *)
(* the messages it will meet.                                              *)
AllWhole(R) == \A i \in ReqIds : R[i] # None => Whole(R[i])

Fits(orders) ==
  /\ \A k \in DOMAIN toBot' :
       IsFill(toBot'[k]) => FillOK(live, orders, toBot'[k])
  /\ \A o \in OrderIds :
       live[o] # None /\ orders[live[o].direction][o] # None
         => live[o].remaining <= orders[live[o].direction][o].quantity

(* What Requote does to an order does not change its quantity.             *)
LEMMA KeptQuantity ==
  ASSUME NEW c \in BotRecord, NEW b \in BotRecord, Kept(c, b),
         NEW d \in Side, NEW o \in OrderIds, b.ordersMap[d][o] # None
  PROVE  /\ c.ordersMap[d][o] # None
         /\ b.ordersMap[d][o].quantity = c.ordersMap[d][o].quantity
<1>1. c.ordersMap[d][o] # None
  BY KeptNone
<1>2. c.ordersMap[d][o] \in OrderReq
  BY <1>1 DEF BotRecord
<1>3. CASE b.ordersMap[d][o] # c.ordersMap[d][o]
  <2>1. PICK p \in Int : b.ordersMap[d][o] =
          [c.ordersMap[d][o] EXCEPT !.price = p, !.isReplaceOrder = TRUE]
    BY <1>3 DEF Kept, Requoted
  <2> QED
    BY <1>1, <1>2, <2>1 DEF OrderReq
<1> QED
  BY <1>1, <1>3

(* The messages that are left were under way before.                       *)
LEMMA LeftMessages ==
  ASSUME WireTypeOK, toBot' = toBot \/ (toBot # <<>> /\ toBot' = Tail(toBot))
  PROVE  \E n \in {0, 1} : \A k \in DOMAIN toBot' :
           /\ k \in Nat \ {0} /\ k + n \in DOMAIN toBot
           /\ toBot'[k] = toBot[k + n] /\ toBot'[k] \in Message
<1>1. toBot \in Seq(Message)
  BY DEF WireTypeOK
<1>2. \A k \in DOMAIN toBot : k \in Nat \ {0} /\ toBot[k] \in Message
  BY <1>1, LenProperties
<1>3. CASE toBot' = toBot
  <2>1. \A k \in DOMAIN toBot' :
           /\ k \in Nat \ {0} /\ k + 0 \in DOMAIN toBot
           /\ toBot'[k] = toBot[k + 0] /\ toBot'[k] \in Message
    BY <1>2, <1>3
  <2> QED
    BY <2>1
<1>4. CASE toBot # <<>> /\ toBot' = Tail(toBot)
  <2>1. \A k \in DOMAIN toBot' :
           /\ k \in Nat \ {0} /\ k + 1 \in DOMAIN toBot
           /\ toBot'[k] = toBot[k + 1]
    BY <1>1, <1>4, QueueTail
  <2> QED
    BY <1>2, <2>1
<1> QED
  BY <1>3, <1>4

LEMMA RobotQuantities ==
  ASSUME RobotInv, WireTypeOK, QuantityInv, UNCHANGED exchangeVars,
         toBot' = toBot \/ (toBot # <<>> /\ toBot' = Tail(toBot)),
         NEW c, Good(c), NEW R, Orderly(R, c), Finish(c),
         AllWhole(R), Fits(c.ordersMap)
  PROVE  QuantityInv'
<1>1. PICK done \in BotRecord :
        /\ Orderly(R, done) /\ Kept(c, done)
        /\ bot'.orderReqMap = done.orderReqMap
        /\ bot'.ordersMap = done.ordersMap
  BY FinishOrderly
<1>2. c \in BotRecord
  BY DEF Good
<1>3. RequestInv'
  <2> SUFFICES ASSUME NEW i \in ReqIds, done.orderReqMap[i] # None
               PROVE  Whole(done.orderReqMap[i])
    BY <1>1 DEF RequestInv
  <2>1. CASE R[i] # None
    BY <1>1, <2>1 DEF Orderly, AllWhole
  <2>2. CASE i \in Ids(done.sent)
    <3>1. PICK k \in Placements(done.sent) : i = done.sent[k].id
      BY <2>2 DEF Ids
    <3>2. /\ done.orderReqMap[i] = Record(done.sent[k])
          /\ done.sent[k].quantity = Quantity
      BY <1>1, <3>1 DEF Orderly
    <3> QED
      BY <3>2 DEF Record, Whole
  <2> QED
    BY <1>1, <2>1, <2>2 DEF Orderly
<1>4. \A d \in Side, o \in OrderIds : done.ordersMap[d][o] # None
        => /\ c.ordersMap[d][o] # None
           /\ done.ordersMap[d][o].quantity = c.ordersMap[d][o].quantity
  BY <1>1, <1>2, KeptQuantity
<1>5. PICK n \in {0, 1} : \A k \in DOMAIN toBot' :
        /\ k \in Nat \ {0} /\ k + n \in DOMAIN toBot
        /\ toBot'[k] = toBot[k + n] /\ toBot'[k] \in Message
  BY LeftMessages
<1>6. UNCHANGED live
  BY DEF exchangeVars
<1>7. ASSUME NEW k \in DOMAIN toBot', IsFill(toBot'[k])
      PROVE  FillOK(live, done.ordersMap, toBot'[k])
  <2>1. FillOK(live, c.ordersMap, toBot'[k])
    BY <1>7 DEF Fits
  <2>2. toBot'[k].direction \in Side /\ toBot'[k].orderId \in OrderIds
    BY <1>5, <1>7, UpdateFields DEF IsFill
  <2> QED
    BY <1>4, <2>1, <2>2 DEF FillOK
<1>8. FillInv'
  <2>1. ASSUME NEW j \in DOMAIN toBot', NEW k \in DOMAIN toBot', j < k,
               IsFill(toBot'[j]), IsFill(toBot'[k]),
               toBot'[j].orderId = toBot'[k].orderId
        PROVE  toBot'[k].remaining < toBot'[j].remaining
    <3>1. j + n < k + n /\ j + n \in DOMAIN toBot /\ k + n \in DOMAIN toBot
          /\ toBot'[j] = toBot[j + n] /\ toBot'[k] = toBot[k + n]
      BY <1>5, <2>1
    <3> QED
      BY <2>1, <3>1 DEF QuantityInv, FillInv
  <2> QED
    BY <1>1, <1>6, <1>7, <2>1 DEF FillInv, IsFill
<1>9. LeftInv'
  <2> SUFFICES ASSUME NEW o \in OrderIds, live[o] # None,
                      done.ordersMap[live[o].direction][o] # None
               PROVE  live[o].remaining <= done.ordersMap[live[o].direction][o].quantity
    BY <1>1, <1>6 DEF LeftInv
  <2>1. live[o].direction \in Side
    BY DEF WireTypeOK, ExchangeTypeOK, LiveOrder
  <2> QED
    BY <1>4, <2>1 DEF Fits
<1> QED
  BY <1>3, <1>8, <1>9 DEF QuantityInv

(* The messages left fit the orders the robot had.                         *)
LEMMA BotFits ==
  ASSUME WireTypeOK, QuantityInv,
         toBot' = toBot \/ (toBot # <<>> /\ toBot' = Tail(toBot))
  PROVE  Fits(bot.ordersMap) /\ AllWhole(bot.orderReqMap)
<1>1. PICK n \in {0, 1} : \A k \in DOMAIN toBot' :
        k + n \in DOMAIN toBot /\ toBot'[k] = toBot[k + n]
  BY LeftMessages
<1>2. \A k \in DOMAIN toBot' :
        IsFill(toBot'[k]) => FillOK(live, bot.ordersMap, toBot'[k])
  BY <1>1 DEF QuantityInv, FillInv
<1> QED
  BY <1>2 DEF QuantityInv, RequestInv, LeftInv, Fits, AllWhole

LEMMA NewsQuantities ==
  ASSUME RobotInv, WireTypeOK, QuantityInv, UNCHANGED exchangeVars,
         toBot' = toBot \/ (toBot # <<>> /\ toBot' = Tail(toBot)),
         NEW c, Good(c), Finish(c), News(bot, c)
  PROVE  QuantityInv'
<1>1. Placements(c.sent) = {} /\ SameOrders(bot, c)
  BY DEF News, Placements
<1>2. Orderly(c.orderReqMap, c)
  BY <1>1, SilentOrderly
<1>3. Fits(c.ordersMap) /\ AllWhole(c.orderReqMap)
  BY <1>1, BotFits DEF SameOrders
<1> QED
  BY <1>2, <1>3, RobotQuantities

LEMMA DeliverQuantities ==
  ASSUME RobotInv, WireTypeOK, QuantityInv, Deliver
  PROVE  QuantityInv'
<1> DEFINE m == Head(toBot)
<1>1. /\ toBot # <<>> /\ toBot' = Tail(toBot) /\ UNCHANGED exchangeVars
      /\ m \in Message /\ 1 \in DOMAIN toBot /\ m = toBot[1]
  BY QueueTail DEF Deliver, RobotStep, WireTypeOK
<1>2. \/ PlaceOrderRejected(m) \/ PlaceOrderAccepted(m)
      \/ OrderFilled(m) \/ OrderCancelled(m) \/ OrderUnknown(m)
      \/ PositionsMessage(m)
  BY DEF Deliver, RobotStep
<1>3. Fits(bot.ordersMap) /\ AllWhole(bot.orderReqMap)
  BY <1>1, BotFits
<1>4. \A k \in DOMAIN toBot' : /\ k + 1 \in DOMAIN toBot /\ 1 < k + 1
                              /\ toBot'[k] = toBot[k + 1] /\ toBot'[k] \in Message
  <2>1. toBot \in Seq(Message)
    BY DEF WireTypeOK
  <2>2. \A k \in DOMAIN toBot' : /\ k \in Nat \ {0} /\ k + 1 \in DOMAIN toBot
                                /\ toBot'[k] = toBot[k + 1]
    BY <1>1, <2>1, QueueTail
  <2>3. \A k \in DOMAIN toBot : toBot[k] \in Message
    BY <2>1, LenProperties
  <2> QED
    BY <2>2, <2>3
<1>5. \A k \in DOMAIN toBot' : IsFill(toBot'[k])
        => toBot'[k].direction \in Side /\ toBot'[k].orderId \in OrderIds
  BY <1>4, UpdateFields DEF IsFill
<1>6. \A o \in OrderIds : live[o] # None
        => live[o].direction \in Side /\ live[o].remaining \in 1..Quantity
  BY DEF WireTypeOK, ExchangeTypeOK, LiveOrder
<1> HIDE DEF m
<1>7. CASE PlaceOrderRejected(m)
  <2>1. PICK c : Good(c) /\ Finish(c) /\ Refuses(bot, c, m)
    BY <1>1, <1>7, RejectedGood
  <2>2. Orderly(c.orderReqMap, c)
    BY <2>1, SilentOrderly DEF Refuses, Forgets, Placements
  <2>3. AllWhole(c.orderReqMap) /\ Fits(c.ordersMap)
    BY <1>3, <2>1 DEF Refuses, Forgets, AllWhole
  <2> QED
    BY <1>1, <2>1, <2>2, <2>3, RobotQuantities
<1>8. CASE PlaceOrderAccepted(m)
  <2>1. PICK c : Good(c) /\ Finish(c) /\ Confirms(bot, c, m)
    BY <1>1, <1>8, AcceptedGood
  <2>2. Orderly(c.orderReqMap, c)
    BY <2>1, SilentOrderly DEF Confirms, Forgets, Placements
  <2>3. AllWhole(c.orderReqMap)
    BY <1>3, <2>1 DEF Confirms, Forgets, AllWhole
  <2> DEFINE d == bot.orderReqMap[m.id].direction
  <2>4. /\ d \in Side /\ m.orderId \in OrderIds
        /\ ElsewhereSame(bot, c, d, m.orderId)
        /\ c.ordersMap[d][m.orderId].quantity = Quantity
    BY <1>3, <2>1, NoOrderReqAssumption DEF Confirms, AllWhole, Whole
  <2> HIDE DEF d
  <2>5. \A k \in DOMAIN toBot' :
          IsFill(toBot'[k]) => FillOK(live, c.ordersMap, toBot'[k])
    BY <1>3, <1>5, <2>4 DEF Fits, FillOK, ElsewhereSame
  <2>6. Fits(c.ordersMap)
    BY <1>3, <1>6, <2>4, <2>5 DEF Fits, ElsewhereSame
  <2> QED
    BY <1>1, <2>1, <2>2, <2>3, <2>6, RobotQuantities
<1>9. CASE OrderFilled(m)
  <2>1. PICK c : Good(c) /\ Finish(c) /\ Executes(bot, c, m)
    BY <1>1, <1>9, FilledGood
  <2>2. Orderly(bot.orderReqMap, c)
    BY <2>1, SilentOrderly DEF Executes, Placements
  <2>3. IsFill(m)
    BY <1>9 DEF OrderFilled, IsFill
  <2>4. /\ m.direction \in Side /\ m.orderId \in OrderIds
        /\ ElsewhereSame(bot, c, m.direction, m.orderId)
        /\ c.ordersMap[m.direction][m.orderId] # None
             => c.ordersMap[m.direction][m.orderId].quantity = m.remaining
    BY <2>1 DEF Executes, Reduced
  <2>5. \A k \in DOMAIN toBot' : IsFill(toBot'[k]) /\ toBot'[k].orderId = m.orderId
          => toBot'[k].remaining < m.remaining
    BY <1>1, <1>4, <2>3 DEF QuantityInv, FillInv
  <2>6. live[m.orderId] # None => live[m.orderId].remaining <= m.remaining
    BY <1>1, <2>3 DEF QuantityInv, FillInv, FillOK
  <2>7. \A k \in DOMAIN toBot' :
          IsFill(toBot'[k]) => FillOK(live, c.ordersMap, toBot'[k])
    BY <1>3, <1>5, <2>4, <2>5 DEF Fits, FillOK, ElsewhereSame
  <2>8. Fits(c.ordersMap)
    BY <1>3, <1>6, <2>4, <2>6, <2>7 DEF Fits, ElsewhereSame
  <2> QED
    BY <1>1, <1>3, <2>1, <2>2, <2>8, RobotQuantities
<1>10. CASE OrderCancelled(m)
  <2>1. PICK c : Good(c) /\ Finish(c) /\ Withdraws(bot, c, m)
    BY <1>1, <1>10, CancelledGood
  <2>2. Orderly(bot.orderReqMap, c)
    BY <2>1, WithdrawOrderly
  <2>3. /\ m.direction \in Side /\ m.orderId \in OrderIds
        /\ ElsewhereSame(bot, c, m.direction, m.orderId)
        /\ c.ordersMap[m.direction][m.orderId] = None
    BY <2>1 DEF Withdraws
  <2>4. \A k \in DOMAIN toBot' :
          IsFill(toBot'[k]) => FillOK(live, c.ordersMap, toBot'[k])
    BY <1>3, <1>5, <2>3 DEF Fits, FillOK, ElsewhereSame
  <2>5. Fits(c.ordersMap)
    BY <1>3, <1>6, <2>3, <2>4 DEF Fits, ElsewhereSame
  <2> QED
    BY <1>1, <1>3, <2>1, <2>2, <2>5, RobotQuantities
<1>11. CASE OrderUnknown(m)
  BY <1>1, <1>11, NoNews, NewsQuantities DEF OrderUnknown, Unmoved
<1>12. CASE PositionsMessage(m)
  BY <1>1, <1>12, PositionsGood, NewsQuantities DEF Adopts
<1> QED
  BY <1>2, <1>7, <1>8, <1>9, <1>10, <1>11, <1>12

-----------------------------------------------------------------------------
(* The exchange's steps keep the quantities.                               *)

(* Steps that execute nothing: an order of the robot may go, or come under *)
(* a fresh id.                                                             *)
LEMMA SayQuantities ==
  ASSUME RobotInv, WireTypeOK, WireTypeOK', QuantityInv, UNCHANGED bot,
         NEW m \in Message, ~IsFill(m), Says(m),
         \A o \in OrderIds : live'[o] # None => live'[o] = live[o] \/ Fresh(o)
  PROVE  QuantityInv'
<1>1. toBot \in Seq(Message)
  BY DEF WireTypeOK
<1>2. \A k \in DOMAIN toBot' : \/ k \in DOMAIN toBot /\ toBot'[k] = toBot[k]
                               \/ toBot'[k] = m
  BY <1>1, SaysFields
<1>3. \A k \in DOMAIN toBot' : IsFill(toBot'[k])
        => /\ k \in DOMAIN toBot /\ toBot'[k] = toBot[k]
           /\ toBot[k].orderId \in OrderIds
  <2> SUFFICES ASSUME NEW k \in DOMAIN toBot', IsFill(toBot'[k])
               PROVE  /\ k \in DOMAIN toBot /\ toBot'[k] = toBot[k]
                      /\ toBot[k].orderId \in OrderIds
    OBVIOUS
  <2>1. k \in DOMAIN toBot /\ toBot'[k] = toBot[k]
    BY <1>2
  <2>2. toBot[k] \in Message
    BY <1>1, <2>1, LenProperties
  <2> QED
    BY <2>1, <2>2, UpdateFields DEF IsFill
<1>4. ASSUME NEW k \in DOMAIN toBot', IsFill(toBot'[k])
      PROVE  FillOK(live', bot.ordersMap, toBot'[k])
  <2> DEFINE o == toBot[k].orderId
  <2>1. k \in DOMAIN toBot /\ toBot'[k] = toBot[k] /\ o \in OrderIds
    BY <1>3, <1>4
  <2>2. FillOK(live, bot.ordersMap, toBot[k])
    BY <1>4, <2>1 DEF QuantityInv, FillInv
  <2>3. ~Fresh(o)
    BY <1>4, <2>1 DEF Fresh, IsFill
  <2>4. live'[o] # None => live'[o] = live[o]
    BY <2>1, <2>3
  <2> QED
    BY <2>1, <2>2, <2>4 DEF FillOK
<1>5. FillInv'
  <2>1. \A j, k \in DOMAIN toBot' :
          j < k /\ IsFill(toBot'[j]) /\ IsFill(toBot'[k])
                /\ toBot'[j].orderId = toBot'[k].orderId
            => toBot'[k].remaining < toBot'[j].remaining
    BY <1>3 DEF QuantityInv, FillInv
  <2> QED
    BY <1>4, <2>1 DEF FillInv, IsFill
<1>6. LeftInv'
  <2> SUFFICES ASSUME NEW o \in OrderIds, live'[o] # None,
                      bot.ordersMap[live'[o].direction][o] # None
               PROVE  live'[o].remaining
                        <= bot.ordersMap[live'[o].direction][o].quantity
    BY DEF LeftInv
  <2>1. live'[o].direction \in Side
    BY DEF WireTypeOK, ExchangeTypeOK, LiveOrder
  <2>2. ~Fresh(o)
    BY <2>1 DEF Fresh
  <2>3. live'[o] = live[o]
    BY <2>2
  <2> QED
    BY <2>3 DEF QuantityInv, LeftInv
<1> QED
  BY <1>5, <1>6 DEF QuantityInv, RequestInv

(* An execution leaves less than the update before it said, or the robot   *)
(* remembers.                                                              *)
LEMMA FillQuantities ==
  ASSUME RobotInv, WireTypeOK, QuantityInv, UNCHANGED bot,
         NEW o \in OrderIds, NEW n \in 1..Quantity, Fill(o, n)
  PROVE  QuantityInv'
<1> DEFINE left == live[o].remaining - n
           m == OrderUpdate(o, live[o].direction,
                  IF left = 0 THEN "Filled" ELSE "PartiallyFilled", left)
<1>1. toBot \in Seq(Message)
  BY DEF WireTypeOK
<1>2. /\ live[o] # None /\ live[o] \in LiveOrder
      /\ live[o].direction \in Side /\ live[o].remaining \in 1..Quantity
  BY DEF Fill, WireTypeOK, ExchangeTypeOK, LiveOrder
<1>3. /\ left \in 0..Quantity /\ left < live[o].remaining /\ left < Quantity
      /\ PartialFills \/ left = 0
  <2>1. n \in 1..live[o].remaining /\ (PartialFills \/ n = live[o].remaining)
    BY DEF Fill
  <2> QED
    BY <1>2, <2>1
<1>4. m \in Message /\ m.type = "orders" /\ m.orderId = o
      /\ m.direction = live[o].direction /\ m.remaining = left
  BY <1>2, <1>3 DEF OrderUpdate, Message
<1>5. toBot' = toBot \/ toBot' = Append(toBot, m)
  BY DEF Fill, Publish
<1>6. live' = [live EXCEPT ![o] = IF left = 0 THEN None
                                  ELSE [@ EXCEPT !.remaining = left]]
  BY DEF Fill
<1>7. /\ \A x \in OrderIds : x # o => live'[x] = live[x]
      /\ live'[o] # None => /\ live'[o].remaining = left
                            /\ live'[o].direction = live[o].direction
  BY <1>2, <1>6 DEF WireTypeOK, ExchangeTypeOK, LiveOrder
<1> HIDE DEF m, left
<1>8. /\ \A k \in DOMAIN toBot : k \in Nat /\ k < Len(toBot) + 1
      /\ \A k \in DOMAIN toBot' : \/ k \in DOMAIN toBot /\ toBot'[k] = toBot[k]
                                  \/ k = Len(toBot) + 1 /\ toBot'[k] = m
      /\ Len(toBot) \in Nat
  <2>1. \A k \in DOMAIN toBot : k \in Nat /\ k < Len(toBot) + 1
    BY <1>1, <1>4, QueueAppend
  <2>2. Len(toBot) \in Nat
    BY <1>1, LenProperties
  <2>3. CASE toBot' = toBot
    BY <2>1, <2>2, <2>3
  <2>4. CASE toBot' = Append(toBot, m)
    <3>1. \A k \in DOMAIN toBot' :
            \/ k \in DOMAIN toBot /\ toBot'[k] = toBot[k]
            \/ k = Len(toBot) + 1 /\ toBot'[k] = m
      BY <1>1, <1>4, <2>4, QueueAppend
    <3> QED
      BY <2>1, <2>2, <3>1
  <2> QED
    BY <1>5, <2>3, <2>4
<1>9. \A k \in DOMAIN toBot : IsFill(toBot[k]) =>
        /\ toBot[k].orderId \in OrderIds /\ toBot[k].remaining \in 0..Quantity
        /\ FillOK(live, bot.ordersMap, toBot[k])
  <2> SUFFICES ASSUME NEW k \in DOMAIN toBot, IsFill(toBot[k])
               PROVE  /\ toBot[k].orderId \in OrderIds
                      /\ toBot[k].remaining \in 0..Quantity
                      /\ FillOK(live, bot.ordersMap, toBot[k])
    OBVIOUS
  <2>1. toBot[k] \in Message
    BY <1>1, LenProperties
  <2> QED
    BY <2>1, UpdateFields DEF IsFill, QuantityInv, FillInv
<1>10. ASSUME NEW k \in DOMAIN toBot', IsFill(toBot'[k])
       PROVE  FillOK(live', bot.ordersMap, toBot'[k])
  <2>1. CASE k \in DOMAIN toBot /\ toBot'[k] = toBot[k]
    <3>1. FillOK(live, bot.ordersMap, toBot[k]) /\ toBot[k].orderId \in OrderIds
          /\ toBot[k].remaining \in 0..Quantity
      BY <1>9, <1>10, <2>1
    <3>2. CASE toBot[k].orderId # o
      BY <1>7, <2>1, <3>1, <3>2 DEF FillOK
    <3>3. CASE toBot[k].orderId = o
      <4>1. live[o].remaining <= toBot[k].remaining
        BY <1>2, <3>1, <3>3 DEF FillOK
      <4>2. live'[o] # None => live'[o].remaining <= toBot[k].remaining
        BY <1>2, <1>3, <1>7, <3>1, <4>1
      <4> QED
        BY <2>1, <3>1, <3>3, <4>2 DEF FillOK
    <3> QED
      BY <3>2, <3>3
  <2>2. CASE toBot'[k] = m
    <3>1. bot.ordersMap[m.direction][o] # None
            => live[o].remaining <= bot.ordersMap[m.direction][o].quantity
      BY <1>2, <1>4 DEF QuantityInv, LeftInv
    <3>2. bot.ordersMap[m.direction][o] # None
            => bot.ordersMap[m.direction][o].quantity \in 1..Quantity
      <4>1. bot.ordersMap[m.direction][o] \in OrderReq \cup {None}
        BY <1>2, <1>4 DEF RobotInv, BotTypeOK
      <4> QED
        BY <4>1 DEF OrderReq
    <3>3. bot.ordersMap[m.direction][o] # None
            => left < bot.ordersMap[m.direction][o].quantity
      BY <1>2, <1>3, <3>1, <3>2
    <3> QED
      BY <1>3, <1>4, <1>7, <2>2, <3>3 DEF FillOK
  <2> QED
    BY <1>8, <2>1, <2>2
<1>11. ASSUME NEW j \in DOMAIN toBot', NEW k \in DOMAIN toBot', j < k,
              IsFill(toBot'[j]), IsFill(toBot'[k]),
              toBot'[j].orderId = toBot'[k].orderId
       PROVE  toBot'[k].remaining < toBot'[j].remaining
  <2>1. j \in DOMAIN toBot /\ toBot'[j] = toBot[j]
    BY <1>8, <1>11
  <2>2. CASE k \in DOMAIN toBot /\ toBot'[k] = toBot[k]
    BY <1>11, <2>1, <2>2 DEF QuantityInv, FillInv
  <2>3. CASE toBot'[k] = m
    <3>1. live[o].remaining <= toBot[j].remaining /\ toBot[j].remaining \in 0..Quantity
      BY <1>2, <1>4, <1>9, <1>11, <2>1, <2>3 DEF FillOK
    <3> QED
      BY <1>2, <1>3, <1>4, <2>1, <2>3, <3>1
  <2> QED
    BY <1>8, <2>2, <2>3
<1>12. FillInv'
  BY <1>10, <1>11 DEF FillInv, IsFill
<1>13. LeftInv'
  <2> SUFFICES ASSUME NEW x \in OrderIds, live'[x] # None,
                      bot.ordersMap[live'[x].direction][x] # None
               PROVE  live'[x].remaining
                        <= bot.ordersMap[live'[x].direction][x].quantity
    BY DEF LeftInv
  <2>1. CASE x # o
    BY <1>7, <2>1 DEF QuantityInv, LeftInv
  <2>2. CASE x = o
    <3>1. bot.ordersMap[live[o].direction][o] \in OrderReq \cup {None}
      BY <1>2 DEF RobotInv, BotTypeOK
    <3>2. /\ bot.ordersMap[live[o].direction][o].quantity \in 1..Quantity
          /\ live[o].remaining <= bot.ordersMap[live[o].direction][o].quantity
      BY <1>2, <1>7, <2>2, <3>1 DEF OrderReq, QuantityInv, LeftInv
    <3> QED
      BY <1>2, <1>3, <1>7, <2>2, <3>2
  <2> QED
    BY <2>1, <2>2
<1> QED
  BY <1>12, <1>13 DEF QuantityInv, RequestInv

-----------------------------------------------------------------------------
(* The invariant of the refinement.                                        *)
RefinementInv == LinkIInv /\ QuantityInv

LEMMA InitQuantities == Init => RefinementInv
<1> SUFFICES ASSUME Init PROVE QuantityInv
  BY InitLinks DEF RefinementInv
<1>1. toBot = <<>> /\ \A o \in OrderIds : live[o] = None
  BY DEF Init, ExchangeInit
<1>2. \A i \in ReqIds : bot.orderReqMap[i] = None
  BY DEF Init, BotInit
<1> QED
  BY <1>1, <1>2 DEF QuantityInv, RequestInv, FillInv, LeftInv

LEMMA NextQuantities == RefinementInv /\ [Next]_vars => RefinementInv'
<1> SUFFICES ASSUME RefinementInv, [Next]_vars PROVE QuantityInv'
  BY NextLinks DEF RefinementInv
<1>1. RobotInv /\ WireTypeOK /\ QuantityInv
  BY IInvParts DEF RefinementInv, LinkIInv
<1>2. WireTypeOK'
  <2>1. LinkIInv'
    BY NextLinks DEF RefinementInv
  <2> QED
    BY <2>1 DEF LinkIInv, IInv, TypeOK, WireTypeOK
<1> PICK quiet : quiet = PositionsSnapshot(None)
  OBVIOUS
<1>3. quiet \in Message /\ ~IsFill(quiet)
  BY DEF PositionsSnapshot, Message, IsFill
<1>4. CASE ExchangeStep(ProcessSubscribe)
  <2> PICK m : m = PositionsSnapshot(IF position = 0 THEN None ELSE position)
    OBVIOUS
  <2>1. m \in Message /\ ~IsFill(m)
    BY <1>1 DEF PositionsSnapshot, Message, IsFill, WireTypeOK, ExchangeTypeOK
  <2>2. UNCHANGED <<bot, live>> /\ Says(m)
    BY <1>4 DEF ExchangeStep, ProcessSubscribe, Says
  <2> QED
    BY <1>1, <1>2, <2>1, <2>2, SayQuantities
<1>5. CASE ExchangeStep(Accept)
  <2>1. PICK o \in OrderIds : Fresh(o) /\ AcceptOrder(o) /\ UNCHANGED bot
    BY <1>5 DEF ExchangeStep, Accept
  <2> PICK m : m = PlaceOrderResponse(Head(toExchange).id, TRUE, o)
    OBVIOUS
  <2>2. Head(toExchange) \in Request /\ Head(toExchange).type = "placeOrder"
    BY <1>1, <2>1, ReceivesType DEF AcceptOrder, RobotInv
  <2>3. m \in Message /\ ~IsFill(m)
    BY <2>2 DEF Request, PlaceOrderResponse, Message, IsFill
  <2>4. Says(m)
    BY <2>1 DEF AcceptOrder, Says
  <2>5. \A x \in OrderIds : live'[x] # None => live'[x] = live[x] \/ Fresh(x)
    BY <1>1, <2>1 DEF AcceptOrder, WireTypeOK, ExchangeTypeOK
  <2> QED
    BY <1>1, <1>2, <2>1, <2>3, <2>4, <2>5, SayQuantities
<1>6. ASSUME NEW o \in OrderIds, live[o] # None, Withdraw(o), UNCHANGED bot
      PROVE  QuantityInv'
  <2> PICK m : m = OrderUpdate(o, live[o].direction, "Cancelled", live[o].remaining)
    OBVIOUS
  <2>1. live[o].direction \in Side /\ live[o].remaining \in 0..Quantity
    BY <1>1, <1>6 DEF WireTypeOK, ExchangeTypeOK, LiveOrder
  <2>2. m \in Message /\ ~IsFill(m)
    BY <2>1 DEF OrderUpdate, Message, IsFill
  <2>3. Says(m)
    BY <1>6 DEF Withdraw, Publish, Says
  <2>4. \A x \in OrderIds : live'[x] # None => live'[x] = live[x] \/ Fresh(x)
    BY <1>1, <1>6 DEF Withdraw, WireTypeOK, ExchangeTypeOK
  <2> QED
    BY <1>1, <1>2, <1>6, <2>2, <2>3, <2>4, SayQuantities
<1>7. CASE ExchangeStep(ProcessCancel)
  <2> PICK o : o = Head(toExchange).orderId
    OBVIOUS
  <2>1. /\ UNCHANGED bot
        /\ \/ live[o] # None /\ Withdraw(o)
           \/ UNCHANGED <<live, toBot>>
    BY <1>7 DEF ExchangeStep, ProcessCancel
  <2>2. Head(toExchange) \in Request /\ Head(toExchange).type = "cancelOrder"
    BY <1>1, <1>7, ReceivesType DEF ExchangeStep, ProcessCancel, RobotInv
  <2>3. o \in OrderIds
    BY <2>2 DEF Request
  <2>4. CASE live[o] # None /\ Withdraw(o)
    BY <1>6, <2>1, <2>3, <2>4
  <2>5. CASE UNCHANGED <<live, toBot>>
    BY <1>1, <1>2, <1>3, <2>1, <2>5, SayQuantities DEF Says
  <2> QED
    BY <2>1, <2>4, <2>5
<1>8. CASE ExchangeStep(SendOwedResponse)
  <2>1. PICK a \in owed :
          toBot' = Append(toBot, PlaceOrderResponse(a.id, TRUE, a.orderId))
    BY <1>8 DEF ExchangeStep, SendOwedResponse
  <2> PICK m : m = PlaceOrderResponse(a.id, TRUE, a.orderId)
    OBVIOUS
  <2>2. m \in Message /\ ~IsFill(m)
    BY <1>1 DEF PlaceOrderResponse, Message, IsFill, WireTypeOK, ExchangeTypeOK
  <2>3. UNCHANGED <<bot, live>> /\ Says(m)
    BY <1>8, <2>1 DEF ExchangeStep, SendOwedResponse, Says
  <2> QED
    BY <1>1, <1>2, <2>2, <2>3, SayQuantities
<1>9. CASE Trade
  BY <1>1, <1>9, FillQuantities DEF Trade, ExchangeStep
<1>10. CASE Refuse
  <2> PICK m : m = PlaceOrderResponse(Head(toExchange).id, FALSE, None)
    OBVIOUS
  <2>1. Head(toExchange) \in Request /\ Head(toExchange).type = "placeOrder"
    BY <1>1, <1>10, ReceivesType DEF Refuse, ExchangeStep, RejectOrder, RobotInv
  <2>2. m \in Message /\ ~IsFill(m)
    BY <2>1 DEF Request, PlaceOrderResponse, Message, IsFill
  <2>3. UNCHANGED <<bot, live>> /\ Says(m)
    BY <1>10 DEF Refuse, ExchangeStep, RejectOrder, Says
  <2> QED
    BY <1>1, <1>2, <2>2, <2>3, SayQuantities
<1>11. CASE Withdrawn
  BY <1>6, <1>11 DEF Withdrawn, ExchangeStep, CancelByExchange
<1>12. CASE Connect \/ Market
  BY <1>1, <1>12, ConnectNews, MarketNews, NewsQuantities DEF Unmoved
<1>13. CASE Deliver
  BY <1>1, <1>13, DeliverQuantities
<1>14. CASE UNCHANGED vars
  BY <1>1, <1>2, <1>3, <1>14, SayQuantities DEF vars, exchangeVars, Says
<1>15. Serve => \/ ExchangeStep(ProcessSubscribe) \/ ExchangeStep(Accept)
                \/ ExchangeStep(ProcessCancel) \/ ExchangeStep(SendOwedResponse)
  BY DEF Serve, ExchangeStep
<1> QED
  BY <1>4, <1>5, <1>7, <1>8, <1>9, <1>10, <1>11, <1>12, <1>13, <1>14, <1>15
     DEF Next

LEMMA RefinementInvariance == Spec => []RefinementInv
BY InitQuantities, NextQuantities, PTL DEF Spec

-----------------------------------------------------------------------------
(* The slots.                                                              *)

LEMMA SlotOfValue ==
  ASSUME NEW b, Good(b), NEW d \in Side
  PROVE  /\ ~b.isOrderPlaced[d] => /\ SlotOf(b, d) = Promise!Empty
                                   /\ ~HasOrder(b, d)
         /\ b.isOrderPlaced[d] /\ KnownIn(b, d) = {} => SlotOf(b, d) = Promise!Asked
         /\ \A o \in OrderIds : KnownIn(b, d) = {o} =>
              /\ SlotOf(b, d) =
                   [stage |-> IF b.ordersMap[d][o].isReplaceOrder
                              THEN "replacing" ELSE "quoted",
                    left  |-> b.ordersMap[d][o].quantity]
              /\ b.ordersMap[d][o] \in OrderReq
         /\ SlotOf(b, d) \in Promise!Slot
<1>1. SlotOK(b, d) /\ b \in BotRecord
  BY DEF Good
<1>2. ASSUME ~b.isOrderPlaced[d]
      PROVE  SlotOf(b, d) = Promise!Empty /\ ~HasOrder(b, d)
  <2>1. KnownIn(b, d) = {}
    BY <1>1, <1>2 DEF SlotOK
  <2> QED
    BY <1>2, <2>1 DEF SlotOf, Promise!Empty, KnownIn, HasOrder
<1>3. ASSUME b.isOrderPlaced[d], KnownIn(b, d) = {}
      PROVE  SlotOf(b, d) = Promise!Asked
  BY <1>3 DEF SlotOf, Promise!Asked
<1>4. ASSUME NEW o \in OrderIds, KnownIn(b, d) = {o}
      PROVE  /\ SlotOf(b, d) =
                  [stage |-> IF b.ordersMap[d][o].isReplaceOrder
                             THEN "replacing" ELSE "quoted",
                   left  |-> b.ordersMap[d][o].quantity]
             /\ b.ordersMap[d][o] \in OrderReq
  <2>1. b.isOrderPlaced[d]
    BY <1>1, <1>4 DEF SlotOK
  <2>2. (CHOOSE x \in KnownIn(b, d) : TRUE) = o
    BY <1>4
  <2>3. b.ordersMap[d][o] # None
    BY <1>4 DEF KnownIn
  <2>4. b.ordersMap[d][o] \in OrderReq
    BY <1>1, <2>3 DEF BotRecord
  <2> QED
    BY <1>4, <2>1, <2>2, <2>4 DEF SlotOf
<1>5. SlotOf(b, d) \in Promise!Slot
  <2>1. CASE ~b.isOrderPlaced[d]
    BY <1>2, <2>1 DEF Promise!Slot
  <2>2. CASE b.isOrderPlaced[d] /\ KnownIn(b, d) = {}
    BY <1>3, <2>2 DEF Promise!Slot
  <2>3. ASSUME NEW o \in OrderIds, KnownIn(b, d) = {o}
        PROVE  SlotOf(b, d) \in Promise!Slot
    <3>1. b.ordersMap[d][o].quantity \in 1..Quantity
      BY <1>4, <2>3 DEF OrderReq
    <3> QED
      BY <1>4, <2>3, <3>1 DEF Promise!Slot, Promise!Standing
  <2> QED
    BY <1>1, <2>1, <2>2, <2>3 DEF SlotOK
<1> QED
  BY <1>2, <1>3, <1>4, <1>5

(* The slot of a side with an order it knows.                              *)
Slot(stage, left) == [stage |-> stage, left |-> left]

SlotWith(order) ==
  Slot(IF order.isReplaceOrder THEN "replacing" ELSE "quoted", order.quantity)

LEMMA SlotOfKnown ==
  ASSUME NEW b, Good(b), NEW d \in Side, NEW o \in OrderIds, KnownIn(b, d) = {o}
  PROVE  SlotOf(b, d) = SlotWith(b.ordersMap[d][o])
BY SlotOfValue DEF SlotWith, Slot

(* What an execution leaves of it.                                         *)
Less(s, k) == [s EXCEPT !.left = @ - k]

LEMMA LessOfSlot ==
  ASSUME NEW a, NEW n, NEW k
  PROVE  Less(Slot(a, n), k) = Slot(a, n - k)
BY DEF Less, Slot

(* The slot depends on the side's flag and orders only.                    *)
LEMMA SlotOfSame ==
  ASSUME NEW b, NEW c, NEW d \in Side, c.isOrderPlaced[d] = b.isOrderPlaced[d],
         \A o \in OrderIds : c.ordersMap[d][o] = b.ordersMap[d][o]
  PROVE  SlotOf(c, d) = SlotOf(b, d)
<1>1. KnownIn(c, d) = KnownIn(b, d)
  BY DEF KnownIn
<1>2. CASE KnownIn(b, d) = {}
  BY <1>1, <1>2 DEF SlotOf
<1>3. CASE KnownIn(b, d) # {}
  <2>1. (CHOOSE o \in KnownIn(b, d) : TRUE) \in OrderIds
    BY <1>3 DEF KnownIn
  <2> QED
    BY <1>1, <1>3, <2>1 DEF SlotOf
<1> QED
  BY <1>2, <1>3

(* What the tail makes of a slot, one of its four steps at a time.         *)
LEMMA PlaceIfNoneSlot ==
  ASSUME NEW b, Good(b), Ready(b), NEW d \in Side,
         NEW p, p = placeOrderIfNone(b, d), NEW e \in Side
  PROVE  SlotOf(p, e) =
           IF e = d /\ SlotOf(b, d) = Promise!Empty /\ BelowLimit(b, d)
           THEN Promise!Asked ELSE SlotOf(b, e)
<1>1. Good(p)
  BY PlaceIfNoneGood
<1>2. SlotOf(b, d) = Promise!Empty <=> ~b.isOrderPlaced[d]
  <2>1. CASE ~b.isOrderPlaced[d]
    BY <2>1, SlotOfValue
  <2>2. CASE b.isOrderPlaced[d] /\ KnownIn(b, d) = {}
    BY <2>2, SlotOfValue DEF Promise!Empty, Promise!Asked
  <2>3. ASSUME NEW o \in OrderIds, KnownIn(b, d) = {o}, b.isOrderPlaced[d]
        PROVE  SlotOf(b, d) # Promise!Empty
    BY <2>3, SlotOfValue DEF Promise!Empty
  <2> QED
    BY <2>1, <2>2, <2>3 DEF Good, SlotOK
<1>3. CASE ~b.isOrderPlaced[d] /\ BelowLimit(b, d)
  <2>1. ~HasOrder(b, d)
    BY <1>3, SlotOfValue
  <2>2. p = placeOrder(b, d, Quantity)
    BY <1>3, <2>1 DEF placeOrderIfNone
  <2>3. b \in BotRecord /\ PendingIn(b, d) = {} /\ KnownIn(b, d) = {}
        /\ \A x \in Side : SlotOK(b, x)
    BY <1>3 DEF Good, SlotOK
  <2>4. Places(b, p, d)
    BY <1>3, <2>2, <2>3, PlaceOrderEffect
  <2>5. p.isOrderPlaced[d] /\ KnownIn(p, d) = {}
    BY <2>3, <2>4 DEF KnownIn, Places
  <2>6. SlotOf(p, d) = Promise!Asked
    BY <1>1, <2>5, SlotOfValue
  <2>7. e # d => SlotOf(p, e) = SlotOf(b, e)
    <3> SUFFICES ASSUME e # d PROVE SlotOf(p, e) = SlotOf(b, e)
      OBVIOUS
    <3>1. p.isOrderPlaced[e] = b.isOrderPlaced[e] /\ p.ordersMap = b.ordersMap
      BY <2>4 DEF Places
    <3> QED
      BY <3>1, SlotOfSame
  <2> QED
    BY <1>2, <1>3, <2>6, <2>7
<1>4. CASE ~(~b.isOrderPlaced[d] /\ BelowLimit(b, d))
  <2>1. p = b
    BY <1>4 DEF placeOrderIfNone
  <2> QED
    BY <1>2, <1>4, <2>1
<1> QED
  BY <1>3, <1>4

(* A slot turned stale, or not.                                            *)
MaybeStale(s, t) ==
  t = s \/ (s.stage = "quoted" /\ t = [s EXCEPT !.stage = "replacing"])

LEMMA ReplaceSlot ==
  ASSUME NEW b, Good(b), Ready(b), NEW d \in Side,
         NEW r, r = replaceOrderIfPriceChanged(b, d), NEW e \in Side
  PROVE  MaybeStale(SlotOf(b, e), SlotOf(r, e))
<1>1. Good(r) /\ r \in BotRecord /\ b \in BotRecord
  BY ReplaceGood DEF Good
<1>2. Kept(b, r) /\ r.isOrderPlaced = b.isOrderPlaced
  BY <1>1, ReplaceKept, ReplaceFields
<1>3. KnownIn(r, e) = KnownIn(b, e)
  BY <1>1, <1>2, KeptNone DEF KnownIn
<1>4. CASE ~b.isOrderPlaced[e]
  BY <1>1, <1>2, <1>4, SlotOfValue DEF MaybeStale
<1>5. CASE b.isOrderPlaced[e] /\ KnownIn(b, e) = {}
  BY <1>1, <1>2, <1>3, <1>5, SlotOfValue DEF MaybeStale
<1>6. ASSUME NEW o \in OrderIds, KnownIn(b, e) = {o}
      PROVE  MaybeStale(SlotOf(b, e), SlotOf(r, e))
  <2> DEFINE x == b.ordersMap[e][o]
             y == r.ordersMap[e][o]
  <2>1. /\ SlotOf(b, e) = [stage |-> IF x.isReplaceOrder THEN "replacing"
                                     ELSE "quoted",
                           left |-> x.quantity]
        /\ x \in OrderReq
    BY <1>6, SlotOfValue
  <2>2. SlotOf(r, e) = [stage |-> IF y.isReplaceOrder THEN "replacing"
                                  ELSE "quoted",
                        left |-> y.quantity]
    BY <1>1, <1>3, <1>6, SlotOfValue
  <2>3. \/ y = x
        \/ \E p \in Int : y = [x EXCEPT !.price = p, !.isReplaceOrder = TRUE]
    BY <1>2 DEF Kept, Requoted
  <2> HIDE DEF x, y
  <2>4. CASE y = x
    BY <2>1, <2>2, <2>4 DEF MaybeStale
  <2>5. ASSUME NEW p \in Int, y = [x EXCEPT !.price = p, !.isReplaceOrder = TRUE]
        PROVE  MaybeStale(SlotOf(b, e), SlotOf(r, e))
    <3>1. y.isReplaceOrder = TRUE /\ y.quantity = x.quantity
      BY <2>1, <2>5 DEF OrderReq
    <3>2. SlotOf(r, e) = [stage |-> "replacing", left |-> x.quantity]
      BY <2>2, <3>1
    <3>3. CASE x.isReplaceOrder
      BY <2>1, <3>2, <3>3 DEF MaybeStale
    <3>4. CASE ~x.isReplaceOrder
      BY <2>1, <3>2, <3>4 DEF MaybeStale
    <3> QED
      BY <3>3, <3>4
  <2> QED
    BY <2>3, <2>4, <2>5
<1> QED
  BY <1>4, <1>5, <1>6 DEF Good, SlotOK


LEMMA MaybeStaleTransitive ==
  ASSUME NEW s \in Promise!Slot, NEW t, NEW u, MaybeStale(s, t), MaybeStale(t, u)
  PROVE  MaybeStale(s, u)
<1>1. CASE t = s
  BY <1>1
<1>2. CASE s.stage = "quoted" /\ t = [s EXCEPT !.stage = "replacing"]
  <2>1. t.stage = "replacing"
    BY <1>2 DEF Promise!Slot, Promise!Standing, Promise!Empty, Promise!Asked
  <2> QED
    BY <1>2, <2>1 DEF MaybeStale
<1> QED
  BY <1>1, <1>2 DEF MaybeStale

(* What the whole tail makes of slot s, in state b.                        *)
Settled(b, d, s, t) ==
  /\ s = Promise!Empty => t = IF Ready(b) /\ BelowLimit(b, d)
                              THEN Promise!Asked ELSE Promise!Empty
  /\ s # Promise!Empty => MaybeStale(s, t)

(* It changes no price and no position.                                    *)
LEMMA RequoteMarket ==
  ASSUME NEW b, Good(b)
  PROVE  SameMarket(b, Requote(b))
<1>1. CASE ~Ready(b)
  BY <1>1 DEF Requote, SameMarket
<1>2. CASE Ready(b)
  <2> DEFINE buy    == placeOrderIfNone(b, "Buy")
             placed == placeOrderIfNone(buy, "Sell")
             bids   == replaceOrderIfPriceChanged(placed, "Buy")
             asks   == replaceOrderIfPriceChanged(bids, "Sell")
  <2>1. "Buy" \in Side /\ "Sell" \in Side /\ b \in BotRecord
    BY DEF Side, Good
  <2>2. SameMarket(b, buy)
    BY <2>1, PlaceOrderMarket DEF placeOrderIfNone, SameMarket
  <2>3. Good(buy) /\ Ready(buy) /\ buy \in BotRecord
    BY <1>2, <2>1, PlaceIfNoneGood DEF Good
  <2> HIDE DEF buy
  <2>4. SameMarket(buy, placed)
    BY <2>1, <2>3, PlaceOrderMarket DEF placeOrderIfNone, SameMarket
  <2>5. Good(placed) /\ Ready(placed) /\ placed \in BotRecord
    BY <2>1, <2>3, PlaceIfNoneGood DEF Good
  <2> HIDE DEF placed
  <2>6. SameMarket(placed, bids)
    BY <2>1, <2>5, ReplaceFields DEF SameMarket
  <2>7. bids \in BotRecord
    BY <2>1, <2>5, ReplaceGood DEF Good
  <2> HIDE DEF bids
  <2>8. SameMarket(bids, asks)
    BY <2>1, <2>7, ReplaceFields DEF SameMarket
  <2>9. asks = Requote(b)
    BY <1>2 DEF Requote, bids, placed, buy
  <2> HIDE DEF asks
  <2> QED
    BY <2>2, <2>4, <2>6, <2>8, <2>9 DEF SameMarket
<1> QED
  BY <1>1, <1>2

LEMMA RequoteSlot ==
  ASSUME NEW b, Good(b), NEW e \in Side
  PROVE  Settled(b, e, SlotOf(b, e), SlotOf(Requote(b), e))
<1>1. CASE ~Ready(b)
  BY <1>1 DEF Requote, Settled, MaybeStale
<1>2. CASE Ready(b)
  <2> DEFINE buy    == placeOrderIfNone(b, "Buy")
             placed == placeOrderIfNone(buy, "Sell")
             bids   == replaceOrderIfPriceChanged(placed, "Buy")
             asks   == replaceOrderIfPriceChanged(bids, "Sell")
  <2>1. "Buy" \in Side /\ "Sell" \in Side /\ (e = "Buy" \/ e = "Sell")
    BY DEF Side
  <2>2. Good(buy) /\ Ready(buy) /\ (BelowLimit(buy, e) <=> BelowLimit(b, e))
    <3>1. b \in BotRecord
      BY DEF Good
    <3>2. SameMarket(b, buy)
      BY <2>1, <3>1, PlaceOrderMarket DEF placeOrderIfNone, SameMarket
    <3> HIDE DEF buy
    <3>3. BelowLimit(buy, e) <=> BelowLimit(b, e)
      BY <3>2 DEF BelowLimit, SameMarket
    <3> QED
      BY <1>2, <2>1, <3>3, PlaceIfNoneGood DEF buy
  <2>3. SlotOf(buy, e) = IF /\ e = "Buy" /\ SlotOf(b, "Buy") = Promise!Empty
                            /\ BelowLimit(b, "Buy")
                         THEN Promise!Asked ELSE SlotOf(b, e)
    BY <1>2, <2>1, PlaceIfNoneSlot
  <2> HIDE DEF buy
  <2>4. Good(placed) /\ Ready(placed)
    BY <2>1, <2>2, PlaceIfNoneGood
  <2>5. SlotOf(placed, e) = IF /\ e = "Sell" /\ SlotOf(buy, "Sell") = Promise!Empty
                               /\ BelowLimit(buy, "Sell")
                            THEN Promise!Asked ELSE SlotOf(buy, e)
    BY <2>1, <2>2, PlaceIfNoneSlot
  <2> HIDE DEF placed
  <2>6. Good(bids) /\ Ready(bids)
    BY <2>1, <2>4, ReplaceGood
  <2>7. MaybeStale(SlotOf(placed, e), SlotOf(bids, e))
    BY <2>1, <2>4, ReplaceSlot
  <2> HIDE DEF bids
  <2>8. MaybeStale(SlotOf(bids, e), SlotOf(asks, e))
    BY <2>1, <2>6, ReplaceSlot
  <2>9. asks = Requote(b)
    BY <1>2 DEF Requote, bids, placed, buy
  <2> HIDE DEF asks
  <2>10. SlotOf(placed, e) =
           IF SlotOf(b, e) = Promise!Empty /\ BelowLimit(b, e)
           THEN Promise!Asked ELSE SlotOf(b, e)
    BY <2>1, <2>2, <2>3, <2>5
  <2>11. MaybeStale(SlotOf(placed, e), SlotOf(asks, e))
    BY <2>4, <2>7, <2>8, SlotOfValue, MaybeStaleTransitive
  <2>12. CASE SlotOf(b, e) = Promise!Empty
    <3>1. SlotOf(placed, e).stage # "quoted"
      BY <2>10, <2>12 DEF Promise!Empty, Promise!Asked
    <3> QED
      BY <1>2, <2>9, <2>10, <2>11, <2>12, <3>1 DEF Settled, MaybeStale
  <2>13. CASE SlotOf(b, e) # Promise!Empty
    BY <2>9, <2>10, <2>11, <2>13 DEF Settled
  <2> QED
    BY <2>12, <2>13
<1> QED
  BY <1>1, <1>2

(* The end of a message, in the words of Quoting.                          *)
LEMMA FinishSlots ==
  ASSUME NEW c, Good(c), Finish(c),
         NEW slots \in [Side -> Promise!Slot],
         \A e \in Side : slots[e] = SlotOf(c, e)
  PROVE  /\ Promise!RequoteAll(slots)
         /\ Ready(bot)' = Ready(c)
         /\ bot'.positionSize = c.positionSize
<1> DEFINE done == Requote(c)
<1>1. done \in BotRecord /\ Good(done)
  BY RequoteGood DEF Good
<1>2. SameMarket(c, done)
  BY RequoteMarket
<1>3. \A e \in Side : Settled(c, e, SlotOf(c, e), SlotOf(done, e))
  BY RequoteSlot
<1>4. bot' = [done EXCEPT !.sent = <<>>]
  BY DEF Finish
<1> HIDE DEF done
<1>5. /\ bot'.isOrderPlaced = done.isOrderPlaced
      /\ bot'.ordersMap = done.ordersMap
      /\ bot'.minPriceIncrement = done.minPriceIncrement
      /\ bot'.bestBuyPrice = done.bestBuyPrice
      /\ bot'.bestSellPrice = done.bestSellPrice
      /\ bot'.positionSize = done.positionSize
  BY <1>1, <1>4 DEF BotRecord
<1>6. Ready(bot)' = Ready(c) /\ bot'.positionSize = c.positionSize
  BY <1>2, <1>5 DEF Ready, SameMarket
<1>7. \A e \in Side : SlotOf(bot, e)' = SlotOf(done, e)
  BY <1>5, SlotOfSame
<1>8. \A e \in Side : SlotOf(bot, e)' \in Promise!Slot
  BY <1>1, <1>7, SlotOfValue
<1>9. ASSUME NEW e \in Side
      PROVE  SlotOf(bot, e)' \in Promise!Requoted(e, slots[e])
  <2>1. Settled(c, e, slots[e], SlotOf(bot, e)') /\ slots[e] \in Promise!Slot
    BY <1>3, <1>7
  <2>2. BelowLimit(c, e) <=> Promise!Below(e, bot'.positionSize)
    BY <1>6 DEF BelowLimit, Promise!Below
  <2>3. CASE slots[e].stage = "none"
    <3>1. slots[e] = Promise!Empty
      BY <2>1, <2>3 DEF Promise!Slot, Promise!Standing, Promise!Asked
    <3> QED
      BY <1>6, <2>1, <2>2, <2>3, <3>1 DEF Settled, Promise!Requoted
  <2>4. CASE slots[e].stage # "none"
    <3>1. slots[e] # Promise!Empty
      BY <2>4 DEF Promise!Empty
    <3>2. MaybeStale(slots[e], SlotOf(bot, e)')
      BY <2>1, <3>1 DEF Settled
    <3> QED
      BY <2>4, <3>2 DEF MaybeStale, Promise!Requoted
  <2> QED
    BY <2>3, <2>4
<1> QED
  BY <1>6, <1>8, <1>9 DEF Promise!RequoteAll, Promise!Side, Side

-----------------------------------------------------------------------------
(* The handlers, in the words of Quoting.                                  *)

LEMMA NewsLearnt ==
  ASSUME RobotInv, NEW c, Good(c), Finish(c), News(bot, c)
  PROVE  Promise!Learn
<1> DEFINE slots == [d \in Side |-> SlotOf(bot, d)]
<1>1. Good(bot) /\ bot \in BotRecord /\ c \in BotRecord
  BY RobotInvGood DEF Good
<1>2. slots \in [Side -> Promise!Slot]
  BY <1>1, SlotOfValue
<1>3. \A d \in Side : SlotOf(c, d) = SlotOf(bot, d)
  BY SlotOfSame DEF News, SameOrders
<1>4. \A d \in Side : slots[d] = SlotOf(c, d)
  BY <1>3
<1>5. /\ Promise!RequoteAll(slots)
      /\ Ready(bot)' = Ready(c)
      /\ bot'.positionSize = c.positionSize
  BY <1>2, <1>4, FinishSlots
<1>6. c.positionSize \in Int \cup {None}
  BY <1>1 DEF BotRecord
<1>7. Ready(c) => c.positionSize # None
  BY DEF Ready
<1>8. Ready(c) \in BOOLEAN
  BY DEF Ready
<1> QED
  BY <1>5, <1>6, <1>7, <1>8 DEF Promise!Learn, News

LEMMA RefusalAnswers ==
  ASSUME RobotInv, NEW m, NEW c, Good(c), Finish(c), Refuses(bot, c, m)
  PROVE  \E d \in Side : Promise!Answered(d)
<1> PICK d : d = bot.orderReqMap[m.id].direction
  OBVIOUS
<1>1. /\ d \in Side /\ KnownIn(bot, d) = {} /\ PendingIn(bot, d) = {m.id}
      /\ c.ordersMap = bot.ordersMap /\ ~c.isOrderPlaced[d]
      /\ \A e \in Side \ {d} : c.isOrderPlaced[e] = bot.isOrderPlaced[e]
      /\ SameMarket(bot, c)
  BY DEF Refuses, Forgets
<1>2. Good(bot) /\ bot.isOrderPlaced[d]
  BY <1>1, RobotInvGood DEF Good, SlotOK
<1>3. SlotOf(bot, d) = Promise!Asked /\ SlotOf(c, d) = Promise!Empty
  BY <1>1, <1>2, SlotOfValue
<1>4. \A e \in Side \ {d} : SlotOf(c, e) = SlotOf(bot, e)
  BY <1>1, SlotOfSame
<1> DEFINE slot == [e \in Side |-> SlotOf(bot, e)]
           slots == [slot EXCEPT ![d] = Promise!Empty]
<1>5. slot \in [Side -> Promise!Slot] /\ slot[d] = Promise!Asked
  BY <1>1, <1>2, <1>3, SlotOfValue
<1>6. slots \in [Side -> Promise!Slot]
  BY <1>5 DEF Promise!Slot
<1>7. \A e \in Side : slots[e] = SlotOf(c, e)
  BY <1>1, <1>3, <1>4
<1>8. /\ Promise!RequoteAll(slots)
      /\ Ready(bot)' = Ready(c)
      /\ bot'.positionSize = c.positionSize
  BY <1>6, <1>7, FinishSlots
<1>9. Ready(bot)' = Ready(bot) /\ bot'.positionSize = bot.positionSize
  BY <1>1, <1>8 DEF SameMarket, Ready
<1>10. slot[d].stage = "asked"
  BY <1>5 DEF Promise!Asked
<1>11. Promise!Answered(d)
  BY <1>8, <1>9, <1>10 DEF Promise!Answered
<1> QED
  BY <1>1, <1>11

LEMMA ConfirmationAnswers ==
  ASSUME RobotInv, RequestInv, NEW m, NEW c, Good(c), Finish(c), Confirms(bot, c, m)
  PROVE  \E d \in Side : Promise!Answered(d)
<1> PICK req : req = bot.orderReqMap[m.id]
  OBVIOUS
<1> PICK d : d = req.direction
  OBVIOUS
<1>1. /\ d \in Side /\ KnownIn(bot, d) = {} /\ PendingIn(bot, d) = {m.id}
      /\ m.id \in ReqIds /\ m.orderId \in OrderIds /\ req \in OrderReq
      /\ c.isOrderPlaced = bot.isOrderPlaced
      /\ ElsewhereSame(bot, c, d, m.orderId)
      /\ c.ordersMap[d][m.orderId] = req
      /\ SameMarket(bot, c)
  BY DEF Confirms, Forgets
<1>2. req # None
  BY <1>1, NoOrderReqAssumption
<1>3. req.quantity = Quantity /\ ~req.isReplaceOrder
  BY <1>1, <1>2 DEF RequestInv, Whole
<1>4. Good(bot) /\ bot.isOrderPlaced[d]
  BY <1>1, RobotInvGood DEF Good, SlotOK
<1>5. KnownIn(c, d) = {m.orderId}
  BY <1>1, <1>2, KnownOrder
<1>6. /\ SlotOf(bot, d) = Promise!Asked
      /\ SlotOf(c, d) = [stage |-> "quoted", left |-> Quantity]
  <2>1. SlotOf(bot, d) = Promise!Asked
    BY <1>1, <1>4, SlotOfValue
  <2>2. SlotOf(c, d) = SlotWith(c.ordersMap[d][m.orderId])
    BY <1>1, <1>5, SlotOfKnown
  <2>3. SlotOf(c, d) = SlotWith(req)
    BY <1>1, <2>2
  <2> QED
    BY <1>3, <2>1, <2>3 DEF SlotWith, Slot
<1>7. \A e \in Side \ {d} : SlotOf(c, e) = SlotOf(bot, e)
  BY <1>1, SlotOfSame, SMTT(60) DEF ElsewhereSame
<1> DEFINE slot == [e \in Side |-> SlotOf(bot, e)]
           s == [slot[d] EXCEPT !.stage = "quoted"]
           slots == [slot EXCEPT ![d] = s]
<1>8. slot \in [Side -> Promise!Slot] /\ slot[d] = Promise!Asked
  BY <1>1, <1>4, <1>6, SlotOfValue
<1>9. s = SlotOf(c, d)
  <2> HIDE DEF slot
  <2> QED
    BY <1>6, <1>8 DEF Promise!Asked
<1> HIDE DEF s
<1>10. s \in Promise!Slot
  BY <1>1, <1>9, SlotOfValue
<1>11. slots \in [Side -> Promise!Slot]
  BY <1>8, <1>10
<1>12. \A e \in Side : slots[e] = SlotOf(c, e)
  BY <1>1, <1>9, <1>7
<1>13. /\ Promise!RequoteAll(slots)
       /\ Ready(bot)' = Ready(c)
       /\ bot'.positionSize = c.positionSize
  BY <1>11, <1>12, FinishSlots
<1>14. Ready(bot)' = Ready(bot) /\ bot'.positionSize = bot.positionSize
  BY <1>1, <1>13 DEF SameMarket, Ready
<1>15. slot[d].stage = "asked"
  BY <1>8 DEF Promise!Asked
<1>16. Promise!Answered(d)
  BY <1>13, <1>14, <1>15 DEF Promise!Answered, s
<1> QED
  BY <1>1, <1>16

LEMMA FillExecutes ==
  ASSUME RobotInv, NEW m \in Message, m.type = "orders",
         FillOK(live, bot.ordersMap, m),
         NEW c, Good(c), Finish(c), Executes(bot, c, m)
  PROVE  \E d \in Side, k \in 1..Quantity : Promise!Executed(d, k)
<1> PICK d : d = m.direction
  OBVIOUS
<1> PICK o : o = m.orderId
  OBVIOUS
<1> PICK order : order = bot.ordersMap[d][o]
  OBVIOUS
<1> PICK k : k = order.quantity - m.remaining
  OBVIOUS
<1>1. /\ d \in Side /\ o \in OrderIds /\ order # None
      /\ Ready(c)
      /\ ElsewhereSame(bot, c, d, o)
      /\ c.isOrderPlaced[d] <=> m.remaining # 0
      /\ Reduced(order, c.ordersMap[d][o], m.remaining)
      /\ c.positionSize = IF d = "Buy" THEN bot.positionSize + k
                                       ELSE bot.positionSize - k
  BY DEF Executes
<1>2. m.remaining \in 0..Quantity
  BY UpdateFields
<1>3. /\ order \in OrderReq /\ KnownIn(bot, d) = {o}
      /\ Ready(bot) /\ bot.positionSize \in Int /\ Good(bot)
  <2>1. Good(bot)
    BY RobotInvGood
  <2>2. d \in Side /\ o \in OrderIds /\ bot.ordersMap[d][o] # None
    BY <1>1
  <2> QED
    BY <2>1, <2>2, KnownOrder
<1>4. order.quantity \in 1..Quantity
  BY <1>3 DEF OrderReq
<1>5. m.remaining < order.quantity /\ (~PartialFills => m.remaining = 0)
  BY <1>1 DEF FillOK
<1>6. /\ k \in 1..Quantity /\ k <= order.quantity
      /\ k = order.quantity <=> m.remaining = 0
  <2> PICK left : left = m.remaining
    OBVIOUS
  <2> PICK whole : whole = order.quantity
    OBVIOUS
  <2>1. left \in 0..Quantity /\ whole \in 1..Quantity /\ left < whole
    BY <1>2, <1>4, <1>5
  <2>2. left \in Int /\ whole \in Int /\ Quantity \in Int
        /\ 0 <= left /\ left < whole /\ whole <= Quantity
    BY <2>1
  <2>3. whole - left \in 1..Quantity /\ whole - left <= whole
    BY <2>2
  <2>4. whole - left = whole <=> left = 0
    BY <2>2
  <2> QED
    BY <2>3, <2>4
<1>7. SlotOf(bot, d) = [stage |-> IF order.isReplaceOrder
                                  THEN "replacing" ELSE "quoted",
                        left  |-> order.quantity]
  <2>1. SlotOf(bot, d) = SlotWith(bot.ordersMap[d][o])
    BY <1>1, <1>3, SlotOfKnown
  <2>2. SlotOf(bot, d) = SlotWith(order)
    BY <2>1
  <2> QED
    BY <2>2 DEF SlotWith, Slot
<1> PICK t : t = SlotOf(bot, d)
  OBVIOUS
<1>8. /\ t.stage \in {"quoted", "replacing"}
      /\ t.left = order.quantity
      /\ Less(t, k) =
           [stage |-> IF order.isReplaceOrder THEN "replacing" ELSE "quoted",
            left  |-> m.remaining]
  <2> PICK a : a = IF order.isReplaceOrder THEN "replacing" ELSE "quoted"
    OBVIOUS
  <2> PICK n : n = order.quantity
    OBVIOUS
  <2> PICK r : r = m.remaining
    OBVIOUS
  <2>1. r = n - k
    BY <1>2, <1>4
  <2>2. t = Slot(a, n)
    BY <1>7 DEF Slot
  <2>3. Less(t, k) = Slot(a, r)
    <3>1. Less(Slot(a, n), k) = Slot(a, n - k)
      BY LessOfSlot
    <3> QED
      BY <2>1, <2>2, <3>1
  <2>4. t.stage = a /\ t.left = n /\ a \in {"quoted", "replacing"}
    BY <2>2 DEF Slot
  <2> QED
    BY <2>3, <2>4 DEF Slot
<1>9. SlotOf(c, d) = IF k = t.left THEN Promise!Empty
                     ELSE Less(t, k)
  <2>1. CASE m.remaining = 0
    <3>1. SlotOf(c, d) = Promise!Empty
      BY <1>1, <2>1, SlotOfValue
    <3> QED
      BY <1>6, <1>8, <2>1, <3>1
  <2>2. CASE m.remaining # 0
    <3>1. /\ c.ordersMap[d][o] # None
          /\ c.ordersMap[d][o].quantity = m.remaining
          /\ c.ordersMap[d][o].isReplaceOrder = order.isReplaceOrder
      BY <1>1, <2>2 DEF Reduced
    <3>2. KnownIn(c, d) = {o}
      <4>1. d \in Side /\ o \in OrderIds
        BY <1>1
      <4> QED
        BY <3>1, <4>1, KnownOrder
    <3>3. SlotOf(c, d) =
            [stage |-> IF order.isReplaceOrder THEN "replacing" ELSE "quoted",
             left  |-> m.remaining]
      <4> PICK x : x = c.ordersMap[d][o]
        OBVIOUS
      <4>1. d \in Side /\ o \in OrderIds
        BY <1>1
      <4>2. SlotOf(c, d) = SlotWith(x)
        BY <3>2, <4>1, SlotOfKnown
      <4>3. x.isReplaceOrder = order.isReplaceOrder /\ x.quantity = m.remaining
        BY <3>1
      <4> QED
        BY <4>2, <4>3 DEF SlotWith, Slot
    <3> QED
      BY <1>6, <1>8, <2>2, <3>3
  <2> QED
    BY <2>1, <2>2
<1>10. \A e \in Side \ {d} : SlotOf(c, e) = SlotOf(bot, e)
  BY <1>1, SlotOfSame, SMTT(60) DEF ElsewhereSame
<1> DEFINE slot == [e \in Side |-> SlotOf(bot, e)]
           s == IF k = slot[d].left THEN Promise!Empty
                ELSE [slot[d] EXCEPT !.left = @ - k]
           slots == [slot EXCEPT ![d] = s]
<1>11. slot \in [Side -> Promise!Slot] /\ slot[d] = t
  BY <1>1, <1>3, SlotOfValue
<1>12. s = SlotOf(c, d)
  <2> HIDE DEF slot
  <2> QED
    BY <1>9, <1>11 DEF Less
<1> HIDE DEF s
<1>13. s \in Promise!Slot
  BY <1>1, <1>12, SlotOfValue
<1>14. slots \in [Side -> Promise!Slot]
  BY <1>11, <1>13
<1>15. \A e \in Side : slots[e] = SlotOf(c, e)
  BY <1>1, <1>10, <1>12
<1>16. /\ Promise!RequoteAll(slots)
       /\ Ready(bot)' = Ready(c)
       /\ bot'.positionSize = c.positionSize
  BY <1>14, <1>15, FinishSlots
<1>17. Ready(bot)' = Ready(bot)
  BY <1>1, <1>3, <1>16 DEF Ready
<1>18. bot'.positionSize = Promise!Moved(d, bot.positionSize, k)
  BY <1>1, <1>16 DEF Promise!Moved
<1>19. /\ slot[d].stage \in {"quoted", "replacing"} /\ k <= slot[d].left
       /\ ~PartialFills => k = slot[d].left
  <2> HIDE DEF slot
  <2> QED
    BY <1>5, <1>6, <1>8, <1>11
<1>20. Promise!Executed(d, k)
  BY <1>16, <1>17, <1>18, <1>19 DEF Promise!Executed, s
<1> QED
  BY <1>1, <1>6, <1>20

LEMMA CancellationWithdraws ==
  ASSUME RobotInv, NEW m, NEW c, Good(c), Finish(c), Withdraws(bot, c, m)
  PROVE  \E d \in Side : Promise!Withdrawn(d)
<1> PICK d : d = m.direction
  OBVIOUS
<1> PICK o : o = m.orderId
  OBVIOUS
<1> PICK order : order = bot.ordersMap[d][o]
  OBVIOUS
<1>1. /\ d \in Side /\ o \in OrderIds /\ order # None
      /\ SameMarket(bot, c)
      /\ ElsewhereSame(bot, c, d, o) /\ c.ordersMap[d][o] = None
      /\ c.isOrderPlaced[d] <=> order.isReplaceOrder
  BY DEF Withdraws
<1>2. order \in OrderReq /\ KnownIn(bot, d) = {o} /\ Good(bot)
  BY <1>1, KnownOrder, RobotInvGood
<1>3. KnownIn(c, d) = {}
  BY <1>1, <1>2 DEF KnownIn, ElsewhereSame
<1>4. SlotOf(c, d) = IF order.isReplaceOrder THEN Promise!Asked ELSE Promise!Empty
  BY <1>1, <1>3, SlotOfValue
<1>5. SlotOf(bot, d).stage = IF order.isReplaceOrder THEN "replacing" ELSE "quoted"
  BY <1>1, <1>2, SlotOfValue
<1>6. \A e \in Side \ {d} : SlotOf(c, e) = SlotOf(bot, e)
  BY <1>1, SlotOfSame DEF ElsewhereSame
<1> DEFINE slot == [e \in Side |-> SlotOf(bot, e)]
           s == IF slot[d].stage = "replacing" THEN Promise!Asked
                                               ELSE Promise!Empty
           slots == [slot EXCEPT ![d] = s]
<1>7. /\ slot \in [Side -> Promise!Slot]
      /\ slot[d].stage = IF order.isReplaceOrder THEN "replacing" ELSE "quoted"
  BY <1>1, <1>2, <1>5, SlotOfValue
<1>8. s = SlotOf(c, d)
  <2> HIDE DEF slot
  <2> QED
    BY <1>4, <1>7
<1> HIDE DEF s
<1>9. s \in Promise!Slot
  BY <1>1, <1>8, SlotOfValue
<1>10. slots \in [Side -> Promise!Slot]
  BY <1>7, <1>9
<1>11. \A e \in Side : slots[e] = SlotOf(c, e)
  BY <1>1, <1>6, <1>8
<1>12. /\ Promise!RequoteAll(slots)
       /\ Ready(bot)' = Ready(c)
       /\ bot'.positionSize = c.positionSize
  BY <1>10, <1>11, FinishSlots
<1>13. Ready(bot)' = Ready(bot) /\ bot'.positionSize = bot.positionSize
  BY <1>1, <1>12 DEF SameMarket, Ready
<1>14. slot[d].stage \in {"quoted", "replacing"}
  <2> HIDE DEF slot
  <2> QED
    BY <1>7
<1>15. Promise!Withdrawn(d)
  BY <1>12, <1>13, <1>14 DEF Promise!Withdrawn, s
<1> QED
  BY <1>1, <1>15

-----------------------------------------------------------------------------
(* Every step of Trading is a step of Quoting, or none.                    *)
LEMMA InitImplemented == Init => Promise!Init
<1> SUFFICES ASSUME Init PROVE Promise!Init
  OBVIOUS
<1>1. ~Ready(bot) /\ bot.positionSize \in Int \cup {None}
  BY DEF Init, BotInit, Ready
<1>2. \A d \in Side : ~bot.isOrderPlaced[d]
  BY DEF Init, BotInit
<1>3. \A d \in Side : SlotOf(bot, d) = Promise!Empty
  BY <1>2 DEF SlotOf, Promise!Empty
<1> QED
  BY <1>1, <1>3 DEF Promise!Init, Promise!Side, Side, Ready

LEMMA StepImplemented == RefinementInv /\ [Next]_vars => [Promise!Next]_(Promise!vars)
<1> SUFFICES ASSUME RefinementInv, [Next]_vars
             PROVE  Promise!Next \/ UNCHANGED Promise!vars
  OBVIOUS
<1>1. RobotInv /\ WireTypeOK /\ QuantityInv
  BY IInvParts DEF RefinementInv, LinkIInv
<1>2. ASSUME NEW c, Good(c), Finish(c), News(bot, c)
      PROVE  Promise!Next
  BY <1>1, <1>2, NewsLearnt DEF Promise!Next
<1>3. CASE UNCHANGED bot
  BY <1>3 DEF Promise!vars, Ready, SlotOf, KnownIn
<1>4. CASE Connect
  BY <1>1, <1>2, <1>4, ConnectNews DEF Unmoved
<1>5. CASE Market
  BY <1>1, <1>2, <1>5, MarketNews DEF Unmoved
<1>6. CASE Deliver
  <2> PICK m : m = Head(toBot)
    OBVIOUS
  <2>1. /\ toBot # <<>> /\ m \in Message /\ 1 \in DOMAIN toBot /\ m = toBot[1]
        /\ \/ PlaceOrderRejected(m) \/ PlaceOrderAccepted(m)
           \/ OrderFilled(m) \/ OrderCancelled(m) \/ OrderUnknown(m)
           \/ PositionsMessage(m)
    BY <1>1, <1>6, QueueTail DEF Deliver, RobotStep, WireTypeOK
  <2>2. CASE PlaceOrderRejected(m)
    <3>1. PICK c : Good(c) /\ Finish(c) /\ Refuses(bot, c, m)
      BY <1>1, <2>1, <2>2, RejectedGood
    <3>2. \E d \in Side : Promise!Answered(d)
      BY <1>1, <3>1, RefusalAnswers
    <3> QED
      BY <3>2 DEF Promise!Next, Promise!Side, Side
  <2>3. CASE PlaceOrderAccepted(m)
    <3>1. PICK c : Good(c) /\ Finish(c) /\ Confirms(bot, c, m)
      BY <1>1, <2>1, <2>3, AcceptedGood
    <3>2. \E d \in Side : Promise!Answered(d)
      BY <1>1, <3>1, ConfirmationAnswers DEF QuantityInv
    <3> QED
      BY <3>2 DEF Promise!Next, Promise!Side, Side
  <2>4. CASE OrderFilled(m)
    <3>1. PICK c : Good(c) /\ Finish(c) /\ Executes(bot, c, m)
      BY <1>1, <2>1, <2>4, FilledGood
    <3>2. m.type = "orders" /\ IsFill(m)
      BY <2>4 DEF OrderFilled, IsFill
    <3>3. FillOK(live, bot.ordersMap, m)
      BY <1>1, <2>1, <3>2 DEF QuantityInv, FillInv
    <3>4. \E d \in Side, k \in 1..Quantity : Promise!Executed(d, k)
      BY <1>1, <2>1, <3>1, <3>2, <3>3, FillExecutes
    <3> QED
      BY <3>4 DEF Promise!Next, Promise!Side, Side
  <2>5. CASE OrderCancelled(m)
    <3>1. PICK c : Good(c) /\ Finish(c) /\ Withdraws(bot, c, m)
      BY <1>1, <2>1, <2>5, CancelledGood
    <3>2. \E d \in Side : Promise!Withdrawn(d)
      BY <1>1, <3>1, CancellationWithdraws
    <3> QED
      BY <3>2 DEF Promise!Next, Promise!Side, Side
  <2>6. CASE OrderUnknown(m)
    BY <1>1, <1>2, <2>6, NoNews DEF OrderUnknown, Unmoved
  <2>7. CASE PositionsMessage(m)
    BY <1>1, <1>2, <2>1, <2>7, PositionsGood DEF Adopts
  <2> QED
    BY <2>1, <2>2, <2>3, <2>4, <2>5, <2>6, <2>7
<1>7. UNCHANGED bot \/ Connect \/ Market \/ Deliver
  BY DEF Next, vars, Serve, Trade, Refuse, Withdrawn, ExchangeStep
<1> QED
  BY <1>3, <1>4, <1>5, <1>6, <1>7

(* Implemented: the robot, composed with the exchange, implements Quoting: *)
(* over any interleaving of answers, executions, cancellations and market  *)
(* data, one message moves one side's slot and only as Quoting lets it.    *)
THEOREM ImplementedCorrect == Spec => Implemented
<1>1. RefinementInv /\ [Next]_vars => [Promise!Next]_(Promise!vars)
  BY StepImplemented
<1> QED
  BY <1>1, InitImplemented, RefinementInvariance, PTL
     DEF Spec, Implemented, Promise!Spec

-----------------------------------------------------------------------------
(* Whatever Quoting promises, Trading keeps.                               *)
Proved == INSTANCE QuotingProofs WITH
  WholeFills <- ~PartialFills,
  ready      <- Ready(bot),
  position   <- bot.positionSize,
  slot       <- [d \in Side |-> SlotOf(bot, d)]

(* OnlyBelowLimit: with whole executions, an order stands only on a side   *)
(* below its limit.                                                        *)
THEOREM OnlyBelowLimitCorrect == Spec => []OnlyBelowLimit
<1>1. Proved!Constants
  BY DEF Proved!Constants
<1>2. Proved!Spec => []Proved!OutstandingBelow
  BY <1>1, Proved!OutstandingBelowCorrect
<1>3. Promise!Init => Proved!Init
  BY DEF Promise!Init, Proved!Init, Promise!Side, Proved!Side,
         Promise!Empty, Proved!Empty
<1>4. [Promise!Next]_(Promise!vars) => [Proved!Next]_(Proved!vars)
  BY DEF Promise!vars, Proved!vars, Promise!Next, Proved!Next,
         Promise!Learn, Proved!Learn, Promise!Answered, Proved!Answered,
         Promise!Executed, Proved!Executed, Promise!Withdrawn, Proved!Withdrawn,
         Promise!RequoteAll, Proved!RequoteAll, Promise!Requoted, Proved!Requoted,
         Promise!Slot, Proved!Slot, Promise!Standing, Proved!Standing,
         Promise!Empty, Proved!Empty, Promise!Asked, Proved!Asked,
         Promise!Side, Proved!Side, Promise!Below, Proved!Below,
         Promise!Moved, Proved!Moved
<1>5. Proved!OutstandingBelow => OnlyBelowLimit
  BY DEF OnlyBelowLimit, Promise!OutstandingBelow, Proved!OutstandingBelow,
         Promise!Side, Proved!Side, Promise!Below, Proved!Below
<1> QED
  BY <1>2, <1>3, <1>4, <1>5, ImplementedCorrect, PTL
     DEF Implemented, Promise!Spec, Proved!Spec

-----------------------------------------------------------------------------
(* The tail of messageHandler, run again, does nothing.                    *)

(* The price depends on the market and the position only.                  *)
LEMMA PriceSame ==
  ASSUME NEW b, NEW c, SameMarket(b, c), NEW d
  PROVE  calculateOrderPrice(c, d) = calculateOrderPrice(b, d)
BY DEF SameMarket, calculateOrderPrice

LEMMA ReplacePriced ==
  ASSUME NEW b, Good(b), Ready(b), NEW d \in Side,
         NEW r, r = replaceOrderIfPriceChanged(b, d)
  PROVE  /\ Stale(r, d) = {}
         /\ \A e \in Side \ {d} : Stale(r, e) = Stale(b, e)
<1>1. b \in BotRecord
  BY DEF Good
<1>2. /\ \A e \in Side : r.ordersMap[e] = IF e = d THEN Repriced(b, d)
                                          ELSE b.ordersMap[e]
      /\ SameMarket(b, r)
  BY <1>1, ReplaceFields DEF SameMarket
<1>3. \A e : calculateOrderPrice(r, e) = calculateOrderPrice(b, e)
  BY <1>2, PriceSame
<1>4. ASSUME NEW o \in OrderIds, r.ordersMap[d][o] # None
      PROVE  r.ordersMap[d][o].price = calculateOrderPrice(r, d)
  <2> PICK x : x = b.ordersMap[d][o]
    OBVIOUS
  <2>1. x \in OrderReq \cup {None}
    BY <1>1 DEF BotRecord
  <2>2. r.ordersMap[d][o] = IF o \in Stale(b, d)
                            THEN [x EXCEPT !.price = calculateOrderPrice(b, d),
                                           !.isReplaceOrder = TRUE]
                            ELSE x
    BY <1>2 DEF Repriced
  <2>3. CASE o \in Stale(b, d)
    <3>1. x \in OrderReq
      BY <2>1, <2>3 DEF Stale
    <3>2. [x EXCEPT !.price = calculateOrderPrice(b, d),
                    !.isReplaceOrder = TRUE].price = calculateOrderPrice(b, d)
      BY <3>1 DEF OrderReq
    <3> QED
      BY <1>3, <2>2, <2>3, <3>2
  <2>4. CASE o \notin Stale(b, d)
    BY <1>3, <1>4, <2>2, <2>4 DEF Stale
  <2> QED
    BY <2>3, <2>4
<1>5. Stale(r, d) = {}
  BY <1>4 DEF Stale
<1>6. \A e \in Side \ {d} : Stale(r, e) = Stale(b, e)
  BY <1>2, <1>3 DEF Stale
<1> QED
  BY <1>5, <1>6

LEMMA RequotePriced ==
  ASSUME NEW b, Good(b), Ready(b)
  PROVE  \A d \in Side : Stale(Requote(b), d) = {}
<1> DEFINE buy    == placeOrderIfNone(b, "Buy")
           placed == placeOrderIfNone(buy, "Sell")
           bids   == replaceOrderIfPriceChanged(placed, "Buy")
           asks   == replaceOrderIfPriceChanged(bids, "Sell")
<1>1. "Buy" \in Side /\ "Sell" \in Side /\ Side = {"Buy", "Sell"}
  BY DEF Side
<1>2. Good(buy) /\ Ready(buy)
  BY <1>1, PlaceIfNoneGood
<1> HIDE DEF buy
<1>3. Good(placed) /\ Ready(placed)
  BY <1>1, <1>2, PlaceIfNoneGood
<1> HIDE DEF placed
<1>4. Good(bids) /\ Ready(bids)
  BY <1>1, <1>3, ReplaceGood
<1>5. Stale(bids, "Buy") = {}
  BY <1>1, <1>3, ReplacePriced
<1> HIDE DEF bids
<1>6. Stale(asks, "Sell") = {} /\ Stale(asks, "Buy") = {}
  BY <1>1, <1>4, <1>5, ReplacePriced
<1>7. asks = Requote(b)
  BY DEF Requote, bids, placed, buy
<1> HIDE DEF asks
<1> QED
  BY <1>1, <1>6, <1>7

LEMMA NoCancels == Cancels({}) = <<>>
<1>1. {CancelOrderRequest(o) : o \in {}} = {}
  OBVIOUS
<1>2. SetToSeq({}) \in Seq({})
  BY SetToSeqElements, FS_EmptySet
<1>3. SetToSeq({}) = <<>>
  BY <1>2, EmptySeq, LenProperties
<1> QED
  BY <1>1, <1>3 DEF Cancels

(* Nothing to place and nothing to replace.                                *)
LEMMA NothingToDo ==
  ASSUME NEW b \in BotRecord, b.sent = <<>>,
         \A d \in Side : b.isOrderPlaced[d] \/ ~BelowLimit(b, d),
         \A d \in Side : Stale(b, d) = {}
  PROVE  Requote(b) = b
<1>1. "Buy" \in Side /\ "Sell" \in Side
  BY DEF Side
<1>2. placeOrderIfNone(b, "Buy") = b /\ placeOrderIfNone(b, "Sell") = b
  BY <1>1 DEF placeOrderIfNone
<1>3. ASSUME NEW d \in Side
      PROVE  replaceOrderIfPriceChanged(b, d) = b
  <2>1. Stale(b, d) = {}
    OBVIOUS
  <2>2. Repriced(b, d) = b.ordersMap[d]
    <3>1. b.ordersMap[d] \in [OrderIds -> OrderReq \cup {None}]
      BY DEF BotRecord
    <3> QED
      BY <2>1, <3>1 DEF Repriced
  <2> PICK orders : orders = [b.ordersMap EXCEPT ![d] = Repriced(b, d)]
    OBVIOUS
  <2> PICK out : out = b.sent \o Cancels(Stale(b, d))
    OBVIOUS
  <2>3. replaceOrderIfPriceChanged(b, d)
          = [b EXCEPT !.ordersMap = orders, !.sent = out]
    BY DEF replaceOrderIfPriceChanged, BotRecord, Stale, Cancels, Repriced
  <2>4. out = b.sent
    BY <2>1, NoCancels, ConcatEmptySeq
  <2>5. orders = b.ordersMap
    BY <2>2 DEF BotRecord
  <2>6. [b EXCEPT !.ordersMap = b.ordersMap, !.sent = b.sent] = b
    BY DEF BotRecord
  <2> QED
    BY <2>3, <2>4, <2>5, <2>6
<1> QED
  BY <1>1, <1>2, <1>3 DEF Requote


LEMMA FinishSteady ==
  ASSUME NEW c, Good(c), Finish(c)
  PROVE  Requote(bot') = bot'
<1> DEFINE done == Requote(c)
<1>1. done \in BotRecord /\ Good(done) /\ SameMarket(c, done)
  BY RequoteGood, RequoteMarket DEF Good
<1>2. \A d \in Side : Settled(c, d, SlotOf(c, d), SlotOf(done, d))
  BY RequoteSlot
<1>3. Ready(c) => \A d \in Side : Stale(done, d) = {}
  BY RequotePriced
<1>4. bot' = [done EXCEPT !.sent = <<>>]
  BY DEF Finish
<1> HIDE DEF done
<1>5. /\ bot'.isOrderPlaced = done.isOrderPlaced
      /\ bot'.ordersMap = done.ordersMap
      /\ bot'.sent = <<>> /\ bot' \in BotRecord
      /\ SameMarket(done, bot') /\ SameMarket(c, bot')
  <2>1. <<>> \in Seq(Request)
    OBVIOUS
  <2> QED
    BY <1>1, <1>4, <2>1 DEF BotRecord, SameMarket
<1>6. Ready(bot') <=> Ready(c)
  BY <1>5 DEF SameMarket, Ready
<1>7. CASE ~Ready(c)
  BY <1>6, <1>7 DEF Requote
<1>8. CASE Ready(c)
  <2>1. \A d \in Side : Stale(bot', d) = {}
    <3>1. \A d \in Side : calculateOrderPrice(bot', d) = calculateOrderPrice(done, d)
      BY <1>5, PriceSame
    <3> QED
      BY <1>3, <1>5, <1>8, <3>1 DEF Stale
  <2>2. ASSUME NEW d \in Side, ~bot'.isOrderPlaced[d]
        PROVE  ~BelowLimit(bot', d)
    <3>1. SlotOf(done, d) = Promise!Empty
      BY <1>1, <1>5, <2>2, SlotOfValue
    <3>2. SlotOf(c, d) = Promise!Empty
      <4>1. ~MaybeStale(SlotOf(c, d), Promise!Empty) \/ SlotOf(c, d) = Promise!Empty
        <5>1. SlotOf(c, d) \in Promise!Slot
          BY SlotOfValue
        <5> QED
          BY <5>1 DEF MaybeStale, Promise!Slot, Promise!Empty, Promise!Asked,
                      Promise!Standing
      <4> QED
        BY <1>2, <3>1, <4>1 DEF Settled
    <3>3. Promise!Asked # Promise!Empty
      BY DEF Promise!Asked, Promise!Empty
    <3>4. ~BelowLimit(c, d)
      BY <1>2, <1>8, <3>1, <3>2, <3>3 DEF Settled
    <3> QED
      BY <1>5, <3>4 DEF BelowLimit, SameMarket
  <2> QED
    BY <1>5, <2>1, <2>2, NothingToDo
<1> QED
  BY <1>7, <1>8

(* Whatever message is delivered, a handler finishes in a good state: what *)
(* it does to the orders depends on what the message is.                   *)
Handled(c, m) ==
  \/ Adopts(bot, c, m) /\ m.type = "positions"
  \/ Unmoved(bot, c) /\ m.type = "orders" /\ ~Knows(m)
  \/ Refuses(bot, c, m)
  \/ Confirms(bot, c, m) /\ m.isOk
  \/ Executes(bot, c, m) /\ IsFill(m)
  \/ Withdraws(bot, c, m) /\ m.type = "orders" /\ m.status = "Cancelled"

LEMMA DeliverHandles ==
  ASSUME RobotInv, WireTypeOK, Deliver, NEW m, m = Head(toBot)
  PROVE  /\ toBot # <<>> /\ toBot' = Tail(toBot)
         /\ UNCHANGED exchangeVars /\ UNCHANGED session
         /\ m \in Message /\ 1 \in DOMAIN toBot /\ m = toBot[1]
         /\ \E c : Good(c) /\ Finish(c) /\ Handled(c, m)
<1>1. /\ toBot # <<>> /\ toBot' = Tail(toBot)
      /\ UNCHANGED exchangeVars /\ UNCHANGED session
      /\ m \in Message /\ 1 \in DOMAIN toBot /\ m = toBot[1]
  BY QueueTail DEF Deliver, RobotStep, WireTypeOK
<1>2. \/ PlaceOrderRejected(m) \/ PlaceOrderAccepted(m)
      \/ OrderFilled(m) \/ OrderCancelled(m) \/ OrderUnknown(m)
      \/ PositionsMessage(m)
  BY DEF Deliver, RobotStep
<1>3. CASE PlaceOrderRejected(m)
  BY <1>1, <1>3, RejectedGood DEF Handled
<1>4. CASE PlaceOrderAccepted(m)
  <2>1. m.isOk
    BY <1>4 DEF PlaceOrderAccepted
  <2> QED
    BY <1>1, <1>4, <2>1, AcceptedGood DEF Handled
<1>5. CASE OrderFilled(m)
  <2>1. IsFill(m)
    BY <1>5 DEF OrderFilled, IsFill
  <2> QED
    BY <1>1, <1>5, <2>1, FilledGood DEF Handled
<1>6. CASE OrderCancelled(m)
  <2>1. m.type = "orders" /\ m.status = "Cancelled"
    BY <1>6 DEF OrderCancelled
  <2> QED
    BY <1>1, <1>6, <2>1, CancelledGood DEF Handled
<1>7. CASE OrderUnknown(m)
  <2>1. m.type = "orders" /\ ~Knows(m)
    BY <1>7 DEF OrderUnknown
  <2> QED
    BY <1>1, <1>7, <2>1, NoNews DEF OrderUnknown, Handled
<1>8. CASE PositionsMessage(m)
  <2>1. m.type = "positions"
    BY <1>8 DEF PositionsMessage
  <2> QED
    BY <1>1, <1>8, <2>1, PositionsGood DEF Handled
<1> QED
  BY <1>1, <1>2, <1>3, <1>4, <1>5, <1>6, <1>7, <1>8

(* Whatever message it handles, the robot keeps the requests whose answers *)
(* are still under way, and remembers no others than before.               *)
LEMMA DeliverTidy ==
  ASSUME RobotInv, WireTypeOK, LinkInv, Deliver, NEW m, m = Head(toBot)
  PROVE  \E c, R :
           /\ Good(c) /\ Finish(c) /\ Handled(c, m)
           /\ Orderly(R, c) /\ Undisturbed(R)
           /\ \A i \in ReqIds : R[i] # None =>
                /\ bot.orderReqMap[i] # None
                /\ m.type = "placeOrder" => i # m.id
<1> PICK R : R = bot.orderReqMap
  OBVIOUS
<1> PICK t : t = toBot'
  OBVIOUS
<1>1. toBot # <<>> /\ t = Tail(toBot) /\ toBot \in Seq(Message)
  BY DeliverHandles DEF WireTypeOK
<1>2. PICK c : Good(c) /\ Finish(c) /\ Handled(c, m)
  BY DeliverHandles
<1>3. /\ m.type = "placeOrder" => /\ m.id \notin Ids(t)
                                  /\ m.id \notin Ids(toExchange) \cup OwedIds
      /\ Ids(t) \cup Ids(toExchange) \cup OwedIds \subseteq ReqIds
  <2>1. /\ Ids(t) \subseteq Ids(toBot)
        /\ m.type = "placeOrder" => m.id \in Ids(toBot) /\ m.id \notin Ids(t)
    BY <1>1, TailIds DEF LinkInv, IdInv
  <2>2. Ids(toBot) \cup Ids(toExchange) \cup OwedIds \subseteq ReqIds
    BY IdsType
  <2>3. /\ Ids(toExchange) \cap Ids(toBot) = {}
        /\ OwedIds \cap (Ids(toExchange) \cup Ids(toBot)) = {}
    BY DEF LinkInv, IdInv
  <2> QED
    BY <2>1, <2>2, <2>3
<1>4. Undisturbed(R)
  BY DEF Undisturbed
<1>5. CASE Orderly(R, c) /\ m.type # "placeOrder"
  BY <1>2, <1>4, <1>5
(* An answer takes its request along.                                      *)
<1>6. CASE Forgets(bot, c, m.id) /\ m.type = "placeOrder"
  <2>1. Orderly(c.orderReqMap, c)
    BY <1>6, SilentOrderly DEF Forgets, Placements
  <2>2. \A i \in ReqIds : c.orderReqMap[i] = IF i = m.id THEN None ELSE R[i]
    BY <1>6 DEF Forgets
  <2>3. Undisturbed(c.orderReqMap)
    BY <1>3, <1>6, <2>2 DEF Undisturbed
  <2> QED
    BY <1>2, <1>6, <2>1, <2>2, <2>3
<1>7. CASE Adopts(bot, c, m) /\ m.type = "positions"
  BY <1>5, <1>7, SilentOrderly DEF Adopts, News, SameOrders, Placements
<1>8. CASE Unmoved(bot, c) /\ m.type = "orders"
  BY <1>5, <1>8, SilentOrderly DEF Unmoved, News, SameOrders, Placements
<1>9. CASE Executes(bot, c, m) /\ IsFill(m)
  <2>1. m.type # "placeOrder"
    BY <1>9 DEF IsFill
  <2>2. c.orderReqMap = R /\ c.sent = <<>>
    BY <1>9, ZenonT(60) DEF Executes
  <2>3. Orderly(R, c)
    BY <2>2, SilentOrderly DEF Placements
  <2> QED
    BY <1>5, <2>1, <2>3
<1>10. CASE Withdraws(bot, c, m) /\ m.type = "orders"
  BY <1>5, <1>10, WithdrawOrderly
<1> QED
  BY <1>2, <1>6, <1>7, <1>8, <1>9, <1>10 DEF Handled, Refuses, Confirms

LEMMA NextSteady == IInv /\ Steady /\ [Next]_vars => Steady'
<1> SUFFICES ASSUME IInv, Steady, [Next]_vars PROVE Steady'
  OBVIOUS
<1>1. RobotInv /\ WireTypeOK
  BY IInvParts
<1>2. ASSUME NEW c, Good(c), Finish(c)
      PROVE  Steady'
  BY <1>2, FinishSteady DEF Steady
<1>3. CASE UNCHANGED <<bot, session>>
  BY <1>3 DEF Steady
<1>4. CASE Connect
  BY <1>1, <1>2, <1>4, ConnectNews
<1>5. CASE Market
  BY <1>1, <1>2, <1>5, MarketNews
<1>6. CASE Deliver
  BY <1>1, <1>2, <1>6, DeliverHandles
<1> QED
  BY <1>3, <1>4, <1>5, <1>6
     DEF Next, vars, Serve, Trade, Refuse, Withdrawn, ExchangeStep

(* Steady: messageHandler run again in the state it left sends nothing, so *)
(* a stream of messages that change nothing is no stream of cancellations. *)
THEOREM SteadyCorrect == Spec => []Steady
<1>1. Init => Steady
  BY DEF Init, Steady
<1> QED
  BY <1>1, NextSteady, Invariance, PTL DEF Spec

-----------------------------------------------------------------------------
(* The orders the robot has not seen the end of.                           *)

(* The update that ends an order finds the robot still holding it, and is  *)
(* the only one.                                                           *)
EndsClaimed == \A k \in DOMAIN toBot :
  Ends(toBot[k]) => Claimed(toBot[k].orderId, toBot[k].direction)

EndsOnce == \A j, k \in DOMAIN toBot :
  Ends(toBot[j]) /\ Ends(toBot[k]) /\ toBot[j].orderId = toBot[k].orderId
    => j = k

EndInv == EndsClaimed /\ EndsOnce

(* A side has one such order at most: it is the one in the side's slot.    *)
LEMMA ClaimedOnce ==
  ASSUME RobotInv, WireTypeOK, IdInv,
         NEW d \in Side, NEW o \in OrderIds, Claimed(o, d)
  PROVE  /\ bot.isOrderPlaced[d]
         /\ \A p \in OrderIds : Claimed(p, d) => p = o
<1>1. SlotOK(bot, d) /\ Ids(toBot) \subseteq ReqIds /\ OwedIds \subseteq ReqIds
  BY IdsType DEF RobotInv, SlotInv
<1>2. \A a \in owed : bot.orderReqMap[a.id].direction = d
                        => a.id \in PendingIn(bot, d) /\ a.id \in OwedIds
  BY <1>1 DEF IdInv, OwedIds, PendingIn
<1>3. \A k \in Placements(toBot) : bot.orderReqMap[toBot[k].id].direction = d
                        => toBot[k].id \in PendingIn(bot, d) /\ toBot[k].id \in Ids(toBot)
  BY <1>1 DEF IdInv, Ids, PendingIn
<1>4. \A p \in OrderIds : Answering(p, d) => PendingIn(bot, d) # {}
  BY <1>2, <1>3 DEF Answering
<1>5. \A p \in OrderIds : Claimed(p, d) => p \in KnownIn(bot, d) \/ Answering(p, d)
  BY DEF Claimed, KnownIn
<1>6. bot.isOrderPlaced[d]
  BY <1>1, <1>4, <1>5 DEF SlotOK
<1>7. CASE PendingIn(bot, d) = {}
  <2>1. \E p \in OrderIds : KnownIn(bot, d) = {p}
    BY <1>1, <1>6, <1>7 DEF SlotOK
  <2> QED
    BY <1>4, <1>5, <1>6, <1>7, <2>1
<1>8. CASE PendingIn(bot, d) # {}
  <2>1. PICK i : KnownIn(bot, d) = {} /\ PendingIn(bot, d) = {i}
    BY <1>1, <1>6, <1>8 DEF SlotOK
  <2>2. \A a, c \in owed : a.id = i /\ c.id = i => a = c
    BY DEF IdInv
  <2>3. \A j, k \in Placements(toBot) : toBot[j].id = i /\ toBot[k].id = i => j = k
    BY DEF IdInv, Distinct
  <2>4. i \notin OwedIds \/ i \notin Ids(toBot)
    BY DEF IdInv
  <2>5. ASSUME NEW p \in OrderIds, Answering(p, d)
        PROVE  \/ \E a \in owed : a.orderId = p /\ a.id = i /\ i \in OwedIds
               \/ \E k \in Placements(toBot) :
                    toBot[k].orderId = p /\ toBot[k].id = i /\ i \in Ids(toBot)
    BY <1>2, <1>3, <2>1, <2>5 DEF Answering
  <2> QED
    BY <1>5, <1>6, <2>1, <2>2, <2>3, <2>4, <2>5
<1> QED
  BY <1>7, <1>8

(* An id is not given to a new order while the robot holds an old one.     *)
LEMMA ClaimedNotFresh ==
  ASSUME NEW d \in Side, NEW o \in OrderIds, Claimed(o, d)
  PROVE  ~Fresh(o)
BY DEF Claimed, Answering, Fresh, Placements

(* Who lives is held.                                                      *)
LEMMA LiveClaimed ==
  ASSUME LinkInv, NEW o \in OrderIds, live[o] # None
  PROVE  Claimed(o, live[o].direction)
BY DEF LinkInv, LiveInv, Claimed

-----------------------------------------------------------------------------
(* The robot's steps.                                                      *)

(* Nothing but the update that ends an order takes it out of the maps.     *)
LosesEnded(c) == \A d \in Side, o \in OrderIds :
  bot.ordersMap[d][o] # None /\ c.ordersMap[d][o] = None =>
    /\ toBot # <<>> /\ toBot' = Tail(toBot)
    /\ Ends(toBot[1]) /\ toBot[1].direction = d /\ toBot[1].orderId = o

(* What a step of the robot makes of the state, if its handler reaches c.  *)
Carried(c) ==
  /\ UNCHANGED exchangeVars
  /\ toBot' = toBot \/ (toBot # <<>> /\ toBot' = Tail(toBot))
  /\ LosesEnded(c)
  /\ \A d \in Side, o \in OrderIds :
       /\ Claimed(o, d)
       /\ bot.ordersMap[d][o] # None => c.ordersMap[d][o] # None
       => Claimed(o, d)'
  /\ \A d \in Side, o \in OrderIds : bot'.ordersMap[d][o] # None =>
       /\ c.ordersMap[d][o] # None
       /\ bot'.ordersMap[d][o].quantity = c.ordersMap[d][o].quantity
  /\ bot'.positionSize = c.positionSize

LEMMA FinishCarries ==
  ASSUME RobotInv, WireTypeOK, LinkInv, UNCHANGED exchangeVars,
         toBot' = toBot \/ (toBot # <<>> /\ toBot' = Tail(toBot)),
         NEW c, Good(c), NEW R, Orderly(R, c), Finish(c),
         Undisturbed(R), TakesAnswer(c), LosesEnded(c)
  PROVE  Carried(c)
<1>1. \A d \in Side, o \in OrderIds :
        /\ Claimed(o, d)
        /\ bot.ordersMap[d][o] # None => c.ordersMap[d][o] # None
        => Claimed(o, d)'
  BY RobotClaims
<1>2. PICK done \in BotRecord :
        /\ Kept(c, done) /\ SameMarket(c, done)
        /\ bot'.ordersMap = done.ordersMap /\ SameMarket(done, bot')
  BY FinishOrderly
<1>3. \A d \in Side, o \in OrderIds : done.ordersMap[d][o] # None =>
        /\ c.ordersMap[d][o] # None
        /\ done.ordersMap[d][o].quantity = c.ordersMap[d][o].quantity
  BY <1>2, KeptQuantity DEF Good
<1>4. bot'.positionSize = c.positionSize
  BY <1>2 DEF SameMarket
<1> QED
  BY <1>1, <1>2, <1>3, <1>4 DEF Carried

LEMMA NewsCarried ==
  ASSUME RobotInv, WireTypeOK, LinkInv, UNCHANGED exchangeVars, toBot' = toBot,
         NEW c, Good(c), Finish(c), Unmoved(bot, c)
  PROVE  Carried(c)
<1>1. Placements(c.sent) = {} /\ c.orderReqMap = bot.orderReqMap
      /\ c.ordersMap = bot.ordersMap
  BY DEF Unmoved, News, SameOrders, Placements
<1>2. Orderly(bot.orderReqMap, c)
  BY <1>1, SilentOrderly
<1>3. LosesEnded(c) /\ TakesAnswer(c) /\ Undisturbed(bot.orderReqMap)
  BY <1>1 DEF LosesEnded, TakesAnswer, Undisturbed
<1> QED
  BY <1>2, <1>3, FinishCarries

LEMMA HandledLoses ==
  ASSUME NEW m \in Message, toBot # <<>>, toBot' = Tail(toBot), m = toBot[1],
         NEW c, Handled(c, m)
  PROVE  LosesEnded(c)
<1> SUFFICES ASSUME NEW d \in Side, NEW o \in OrderIds,
                    bot.ordersMap[d][o] # None, c.ordersMap[d][o] = None
             PROVE  Ends(m) /\ m.direction = d /\ m.orderId = o
  BY DEF LosesEnded
<1>1. CASE c.ordersMap = bot.ordersMap
  BY <1>1
<1>2. CASE Confirms(bot, c, m) /\ m.isOk
  BY <1>2, NoOrderReqAssumption, ZenonT(60) DEF Confirms, ElsewhereSame
<1>3. CASE Executes(bot, c, m) /\ IsFill(m)
  <2>1. m.direction = d /\ m.orderId = o
    BY <1>3, ZenonT(60) DEF Executes, ElsewhereSame
  <2>2. m.remaining = 0
    BY <1>3, <2>1, ZenonT(60) DEF Executes, Reduced
  <2> QED
    BY <1>3, <2>1, <2>2 DEF Ends, IsFill
<1>4. CASE Withdraws(bot, c, m) /\ m.type = "orders" /\ m.status = "Cancelled"
  <2>1. m.direction = d /\ m.orderId = o
    BY <1>4, ZenonT(60) DEF Withdraws, ElsewhereSame
  <2> QED
    BY <1>4, <2>1 DEF Ends
<1> QED
  BY <1>1, <1>2, <1>3, <1>4
     DEF Handled, Adopts, Unmoved, News, SameOrders, Refuses

LEMMA DeliverCarried ==
  ASSUME RobotInv, WireTypeOK, LinkInv, Deliver, NEW m, m = Head(toBot)
  PROVE  \E c : Good(c) /\ Handled(c, m) /\ Carried(c)
<1>1. /\ toBot # <<>> /\ toBot' = Tail(toBot) /\ UNCHANGED exchangeVars
      /\ m \in Message /\ m = toBot[1]
  BY DeliverHandles
<1>2. PICK c, R : /\ Good(c) /\ Finish(c) /\ Handled(c, m)
                  /\ Orderly(R, c) /\ Undisturbed(R)
  BY DeliverTidy
<1>3. LosesEnded(c)
  BY <1>1, <1>2, HandledLoses
<1>4. TakesAnswer(c)
  <2> SUFFICES ASSUME m.type = "placeOrder", m.isOk
               PROVE  c.ordersMap[bot.orderReqMap[m.id].direction][m.orderId] # None
    BY DEF TakesAnswer
  <2>1. Confirms(bot, c, m)
    BY <1>2 DEF Handled, Refuses, IsFill
  <2> QED
    BY <2>1, NoOrderReqAssumption, ZenonT(60) DEF Confirms
<1> QED
  BY <1>1, <1>2, <1>3, <1>4, FinishCarries

LEMMA ClaimsEnds ==
  ASSUME \A k \in DOMAIN toBot' : \A o, d :
           /\ Ends(toBot'[k])
           /\ o = toBot'[k].orderId /\ d = toBot'[k].direction
           => Claimed(o, d)'
  PROVE  EndsClaimed'
<1> SUFFICES ASSUME NEW k \in DOMAIN toBot', Ends(toBot'[k])
             PROVE  \/ bot'.ordersMap[toBot'[k].direction][toBot'[k].orderId] # None
                    \/ \E a \in owed' :
                         /\ a.orderId = toBot'[k].orderId
                         /\ bot'.orderReqMap[a.id].direction = toBot'[k].direction
                    \/ \E j \in Placements(toBot') :
                         /\ toBot'[j].isOk /\ toBot'[j].orderId = toBot'[k].orderId
                         /\ bot'.orderReqMap[toBot'[j].id].direction
                              = toBot'[k].direction
  BY DEF EndsClaimed, Ends, Claimed, Answering, Placements
<1> PICK o : o = toBot'[k].orderId
  OBVIOUS
<1> PICK d : d = toBot'[k].direction
  OBVIOUS
<1>1. Claimed(o, d)'
  OBVIOUS
<1> QED
  BY <1>1 DEF Claimed, Answering, Placements

(* The robot leaves no update without its order.                           *)
LEMMA RobotEnds ==
  ASSUME WireTypeOK, EndInv, NEW c, Carried(c)
  PROVE  EndInv'
<1>1. toBot \in Seq(Message)
  BY DEF WireTypeOK
<1>2. PICK n \in {0, 1} :
        /\ \A k \in DOMAIN toBot' : /\ k \in Nat \ {0} /\ k + n \in DOMAIN toBot
                                   /\ toBot'[k] = toBot[k + n]
        /\ toBot # <<>> /\ toBot' = Tail(toBot) => n = 1
  <2>1. CASE toBot # <<>> /\ toBot' = Tail(toBot)
    <3>1. \A k \in DOMAIN toBot' : /\ k \in Nat \ {0} /\ k + 1 \in DOMAIN toBot
                                  /\ toBot'[k] = toBot[k + 1]
      BY <1>1, <2>1, QueueTail
    <3> QED
      BY <3>1
  <2>2. CASE toBot' = toBot /\ ~(toBot # <<>> /\ toBot' = Tail(toBot))
    <3>1. \A k \in DOMAIN toBot' : /\ k \in Nat \ {0} /\ k + 0 \in DOMAIN toBot
                                  /\ toBot'[k] = toBot[k + 0]
      BY <1>1, <2>2, LenProperties
    <3> QED
      BY <2>2, <3>1
  <2> QED
    BY <2>1, <2>2 DEF Carried
<1>3. EndsOnce'
  <2> SUFFICES ASSUME NEW j \in DOMAIN toBot', NEW k \in DOMAIN toBot',
                      Ends(toBot'[j]), Ends(toBot'[k]),
                      toBot'[j].orderId = toBot'[k].orderId
               PROVE  j = k
    BY DEF EndsOnce, Ends
  <2>1. j + n = k + n
    BY <1>2 DEF EndInv, EndsOnce
  <2> QED
    BY <1>2, <2>1
<1>4. ASSUME NEW k \in DOMAIN toBot', Ends(toBot'[k]),
             NEW o, o = toBot'[k].orderId, NEW d, d = toBot'[k].direction
      PROVE  Claimed(o, d)'
  <2>1. /\ k + n \in DOMAIN toBot /\ toBot[k + n] = toBot'[k]
        /\ Ends(toBot[k + n])
    BY <1>2, <1>4
  <2>2. toBot[k + n] \in Message
    BY <1>1, <2>1, LenProperties
  <2>3. d \in Side /\ o \in OrderIds
    BY <1>4, <2>1, <2>2, UpdateFields DEF Ends
  <2>4. Claimed(o, d)
    BY <1>4, <2>1 DEF EndInv, EndsClaimed
  <2>5. bot.ordersMap[d][o] # None => c.ordersMap[d][o] # None
    <3> SUFFICES ASSUME bot.ordersMap[d][o] # None, c.ordersMap[d][o] = None
                 PROVE  FALSE
      OBVIOUS
    <3>1. /\ toBot # <<>> /\ toBot' = Tail(toBot)
          /\ Ends(toBot[1]) /\ toBot[1].orderId = o
      BY <2>3 DEF Carried, LosesEnded
    <3>2. n = 1 /\ 1 \in DOMAIN toBot
      BY <1>1, <1>2, <3>1, QueueTail
    <3>3. k + 1 = 1
      BY <1>4, <2>1, <3>1, <3>2 DEF EndInv, EndsOnce
    <3> QED
      BY <1>2, <3>3
  <2> QED
    BY <2>3, <2>4, <2>5 DEF Carried
<1>5. EndsClaimed'
  BY <1>4, ClaimsEnds
<1> QED
  BY <1>3, <1>5 DEF EndInv

-----------------------------------------------------------------------------
(* The exchange's steps.                                                   *)

(* The exchange says m, or nothing, and still owes or gives every answer.  *)
Speaks(m) ==
  /\ m \in Message /\ Says(m) /\ UNCHANGED bot
  /\ \A d \in Side, o \in OrderIds : Claimed(o, d) => Claimed(o, d)'

(* The position a positions message tells.                                 *)
Size(m) == IF m.size = None THEN 0 ELSE m.size

(* Nothing happens to the robot's orders, or a new one begins to live.     *)
Serves(m) ==
  /\ Speaks(m) /\ ~Ends(m) /\ ~IsFill(m)
  /\ position' = position
  /\ m.type = "positions" => Size(m) = position
  /\ \A o \in OrderIds : live'[o] # None =>
       live'[o] = live[o] \/ (Fresh(o) /\ live'[o].remaining = Quantity)

(* m is about the order o that lives.                                      *)
IsAbout(m, o) ==
  /\ o \in OrderIds /\ live[o] # None
  /\ m.type = "orders" /\ m.orderId = o /\ m.direction = live[o].direction

Discards(m, o) ==
  /\ Speaks(m) /\ IsAbout(m, o) /\ m.status = "Cancelled"
  /\ position' = position
  /\ \A p \in OrderIds : live'[p] = IF p = o THEN None ELSE live[p]

Trades(m, o, k) ==
  /\ Speaks(m) /\ IsAbout(m, o) /\ IsFill(m)
  /\ k \in 1..live[o].remaining
  /\ PartialFills \/ k = live[o].remaining
  /\ m.remaining = live[o].remaining - k
  /\ position' = IF m.direction = "Buy" THEN position + k ELSE position - k
  /\ \A p \in OrderIds : p # o => live'[p] = live[p]
  /\ k = live[o].remaining => live'[o] = None

LEMMA SaysSpeaks ==
  ASSUME toBot \in Seq(Message), NEW m \in Message, Says(m), UNCHANGED bot,
         \A a \in owed : \/ a \in owed'
                         \/ /\ m.type = "placeOrder" /\ m.isOk
                            /\ m.id = a.id /\ m.orderId = a.orderId
                            /\ toBot' = Append(toBot, m)
  PROVE  Speaks(m)
<1>1. \A k \in Placements(toBot) : k \in Placements(toBot') /\ toBot'[k] = toBot[k]
  BY SaysFields
<1>2. ASSUME NEW d \in Side, NEW o \in OrderIds, Answering(o, d)
      PROVE  Answering(o, d)'
  <2>1. CASE \E k \in Placements(toBot) :
               /\ toBot[k].isOk /\ toBot[k].orderId = o
               /\ bot.orderReqMap[toBot[k].id].direction = d
    BY <1>1, <2>1 DEF Answering
  <2>2. ASSUME NEW a \in owed, a.orderId = o, bot.orderReqMap[a.id].direction = d
        PROVE  Answering(o, d)'
    <3>1. CASE a \in owed'
      BY <2>2, <3>1 DEF Answering
    <3>2. CASE a \notin owed'
      <4>1. /\ m.type = "placeOrder" /\ m.isOk
            /\ m.id = a.id /\ m.orderId = a.orderId
            /\ toBot' = Append(toBot, m)
        BY <3>2
      <4>2. Len(toBot) + 1 \in DOMAIN toBot' /\ toBot'[Len(toBot) + 1] = m
        BY <4>1, QueueAppend
      <4>3. Len(toBot) + 1 \in Placements(toBot')
        BY <4>1, <4>2 DEF Placements
      <4> QED
        BY <2>2, <4>1, <4>2, <4>3 DEF Answering
    <3> QED
      BY <3>1, <3>2
  <2> QED
    BY <1>2, <2>1, <2>2 DEF Answering
<1> QED
  BY <1>2 DEF Speaks, Claimed

(* Every step of the exchange is one of the three.                         *)
ExchangeActs == \E m :
  \/ Serves(m)
  \/ \E o : Discards(m, o)
  \/ \E o, k : Trades(m, o, k)

LEMMA WithdrawDiscards ==
  ASSUME WireTypeOK, NEW o \in OrderIds, live[o] # None, Withdraw(o),
         UNCHANGED <<bot, owed, position>>
  PROVE  ExchangeActs
<1> PICK m : m = OrderUpdate(o, live[o].direction, "Cancelled", live[o].remaining)
  OBVIOUS
<1>1. live[o].direction \in Side /\ live[o].remaining \in 0..Quantity
  BY DEF WireTypeOK, ExchangeTypeOK, LiveOrder
<1>2. m \in Message /\ IsAbout(m, o) /\ m.status = "Cancelled"
  BY <1>1 DEF OrderUpdate, Message, IsAbout
<1>3. Says(m) /\ toBot \in Seq(Message)
  BY DEF Withdraw, Publish, Says, WireTypeOK
<1>4. Speaks(m)
  BY <1>2, <1>3, SaysSpeaks
<1>5. \A p \in OrderIds : live'[p] = IF p = o THEN None ELSE live[p]
  BY DEF Withdraw, WireTypeOK, ExchangeTypeOK
<1> QED
  BY <1>2, <1>4, <1>5 DEF Discards, ExchangeActs

LEMMA NothingServed ==
  ASSUME WireTypeOK, UNCHANGED <<bot, owed, position, live, toBot>>
  PROVE  ExchangeActs
<1> PICK m : m = PositionsSnapshot(position)
  OBVIOUS
<1>1. /\ m \in Message /\ ~IsFill(m) /\ ~Ends(m)
      /\ m.type = "positions" /\ Size(m) = position
  BY NoneAssumption
     DEF PositionsSnapshot, Message, IsFill, Ends, Size, WireTypeOK, ExchangeTypeOK
<1>2. Speaks(m)
  BY <1>1, SaysSpeaks DEF Says, WireTypeOK
<1> QED
  BY <1>1, <1>2 DEF Serves, ExchangeActs

LEMMA FillTrades ==
  ASSUME WireTypeOK, NEW o \in OrderIds, NEW k \in 1..Quantity, Fill(o, k),
         UNCHANGED bot
  PROVE  ExchangeActs
<1> DEFINE left == live[o].remaining - k
<1> PICK m : m = OrderUpdate(o, live[o].direction,
                   IF left = 0 THEN "Filled" ELSE "PartiallyFilled", left)
  OBVIOUS
<1>1. /\ live[o] # None /\ live[o] \in LiveOrder
      /\ live[o].direction \in Side /\ live[o].remaining \in 1..Quantity
      /\ k \in 1..live[o].remaining
      /\ PartialFills \/ k = live[o].remaining
  BY DEF Fill, WireTypeOK, ExchangeTypeOK, LiveOrder
<1>2. left \in 0..Quantity /\ (k = live[o].remaining => left = 0)
  <2> PICK r : r = live[o].remaining
    OBVIOUS
  <2>1. r \in 1..Quantity /\ k \in 1..r
    BY <1>1
  <2>2. r - k \in 0..Quantity /\ (k = r => r - k = 0)
    BY <2>1, QuantityAssumption
  <2> QED
    BY <2>2
<1>3. Says(m) /\ toBot \in Seq(Message) /\ UNCHANGED owed
  BY DEF Fill, Publish, Says, WireTypeOK
<1>4. /\ live' = [live EXCEPT ![o] = IF left = 0 THEN None
                                     ELSE [@ EXCEPT !.remaining = left]]
      /\ position' = IF live[o].direction = "Buy" THEN position + k ELSE position - k
  BY DEF Fill
<1> HIDE DEF left
<1>5. /\ m \in Message /\ IsAbout(m, o) /\ IsFill(m) /\ m.remaining = left
  BY <1>1, <1>2 DEF OrderUpdate, Message, IsAbout, IsFill
<1>6. Speaks(m)
  BY <1>3, <1>5, SaysSpeaks
<1>7. /\ \A p \in OrderIds : p # o => live'[p] = live[p]
      /\ k = live[o].remaining => live'[o] = None
  BY <1>2, <1>4 DEF WireTypeOK, ExchangeTypeOK
<1>8. m.direction = live[o].direction
  BY <1>5 DEF IsAbout
<1>9. m.remaining = live[o].remaining - k
  BY <1>5 DEF left
<1> QED
  BY <1>1, <1>4, <1>5, <1>6, <1>7, <1>8, <1>9 DEF Trades, ExchangeActs

LEMMA AcceptServes ==
  ASSUME RobotInv, WireTypeOK, LinkInv, RequestInv,
         NEW o \in OrderIds, Fresh(o), AcceptOrder(o), UNCHANGED bot
  PROVE  ExchangeActs
<1> PICK r : r = Head(toExchange)
  OBVIOUS
<1> PICK m : m = PlaceOrderResponse(r.id, TRUE, o)
  OBVIOUS
<1>1. /\ r \in Request /\ r.type = "placeOrder" /\ r.id \in ReqIds
      /\ 1 \in Placements(toExchange) /\ toExchange[1] = r
  <2>1. toExchange \in Seq(Request) /\ Distinct(toExchange)
    BY DEF RobotInv, LinkInv, IdInv
  <2>2. /\ r \in Request /\ r.type = "placeOrder"
        /\ 1 \in Placements(toExchange) /\ toExchange[1] = r
    BY <2>1, ReceivesFields DEF AcceptOrder
  <2> QED
    BY <2>2 DEF Request
<1>2. r.quantity = Quantity
  <2>1. bot.orderReqMap[r.id] = Record(r) /\ Record(r) # None
    BY <1>1, PlacementRecord DEF LinkInv, IdInv, RobotInv
  <2> QED
    BY <1>1, <2>1 DEF RequestInv, Whole, Record
<1>3. /\ m \in Message /\ ~IsFill(m) /\ ~Ends(m) /\ m.type = "placeOrder"
      /\ m.isOk /\ m.id = r.id /\ m.orderId = o
  BY <1>1 DEF PlaceOrderResponse, Message, IsFill, Ends
<1>4. Says(m) /\ owed \subseteq owed' /\ toBot \in Seq(Message)
  BY DEF AcceptOrder, Says, WireTypeOK
<1>5. Speaks(m)
  BY <1>3, <1>4, SaysSpeaks
<1>6. /\ live' = [live EXCEPT ![o] = [direction |-> r.direction, price |-> r.price,
                                      remaining |-> r.quantity]]
      /\ position' = position
  BY DEF AcceptOrder
<1>7. \A p \in OrderIds : live'[p] # None =>
        live'[p] = live[p] \/ (Fresh(p) /\ live'[p].remaining = Quantity)
  BY <1>2, <1>6 DEF WireTypeOK, ExchangeTypeOK
<1> QED
  BY <1>3, <1>5, <1>6, <1>7 DEF Serves, ExchangeActs

LEMMA ServeActs ==
  ASSUME RobotInv, WireTypeOK, LinkInv, RequestInv, Serve
  PROVE  ExchangeActs
<1>1. \/ ExchangeStep(ProcessSubscribe) \/ ExchangeStep(Accept)
      \/ ExchangeStep(ProcessCancel) \/ ExchangeStep(SendOwedResponse)
  BY DEF Serve, ExchangeStep
<1>2. CASE ExchangeStep(ProcessSubscribe)
  <2> PICK m : m = PositionsSnapshot(IF position = 0 THEN None ELSE position)
    OBVIOUS
  <2>1. /\ m \in Message /\ ~IsFill(m) /\ ~Ends(m)
        /\ m.type = "positions" /\ Size(m) = position
    BY NoneAssumption
       DEF PositionsSnapshot, Message, IsFill, Ends, Size, WireTypeOK, ExchangeTypeOK
  <2>2. UNCHANGED <<bot, live, owed, position>> /\ Says(m)
    BY <1>2 DEF ExchangeStep, ProcessSubscribe, Says
  <2>3. Speaks(m)
    BY <2>1, <2>2, SaysSpeaks DEF WireTypeOK
  <2> QED
    BY <2>1, <2>2, <2>3 DEF Serves, ExchangeActs
<1>3. CASE ExchangeStep(Accept)
  BY <1>3, AcceptServes DEF ExchangeStep, Accept
<1>4. CASE ExchangeStep(ProcessCancel)
  <2> PICK o : o = Head(toExchange).orderId
    OBVIOUS
  <2>1. /\ UNCHANGED <<bot, owed, position>>
        /\ \/ live[o] # None /\ Withdraw(o)
           \/ UNCHANGED <<live, toBot>>
    BY <1>4 DEF ExchangeStep, ProcessCancel
  <2>2. Head(toExchange) \in Request /\ Head(toExchange).type = "cancelOrder"
    BY <1>4, ReceivesType DEF ExchangeStep, ProcessCancel, RobotInv
  <2>3. o \in OrderIds
    BY <2>2 DEF Request
  <2>4. CASE live[o] # None /\ Withdraw(o)
    BY <2>1, <2>3, <2>4, WithdrawDiscards
  <2>5. CASE UNCHANGED <<live, toBot>>
    BY <2>1, <2>5, NothingServed
  <2> QED
    BY <2>1, <2>4, <2>5
<1>5. CASE ExchangeStep(SendOwedResponse)
  <2>1. PICK a \in owed :
          /\ toBot' = Append(toBot, PlaceOrderResponse(a.id, TRUE, a.orderId))
          /\ owed' = owed \ {a}
          /\ UNCHANGED <<bot, live, position>>
    BY <1>5 DEF ExchangeStep, SendOwedResponse
  <2> PICK m : m = PlaceOrderResponse(a.id, TRUE, a.orderId)
    OBVIOUS
  <2>2. /\ m \in Message /\ ~IsFill(m) /\ ~Ends(m) /\ m.type = "placeOrder"
        /\ m.isOk /\ m.id = a.id /\ m.orderId = a.orderId
    BY DEF PlaceOrderResponse, Message, IsFill, Ends, WireTypeOK, ExchangeTypeOK
  <2>3. Speaks(m)
    BY <2>1, <2>2, SaysSpeaks DEF Says, WireTypeOK
  <2> QED
    BY <2>1, <2>2, <2>3 DEF Serves, ExchangeActs
<1> QED
  BY <1>1, <1>2, <1>3, <1>4, <1>5

LEMMA RefuseActs ==
  ASSUME RobotInv, WireTypeOK, LinkInv, Refuse
  PROVE  ExchangeActs
<1> PICK m : m = PlaceOrderResponse(Head(toExchange).id, FALSE, None)
  OBVIOUS
<1>1. Head(toExchange) \in Request /\ Head(toExchange).type = "placeOrder"
  BY ReceivesType DEF Refuse, ExchangeStep, RejectOrder, RobotInv
<1>2. m \in Message /\ ~IsFill(m) /\ ~Ends(m) /\ m.type = "placeOrder"
  BY <1>1 DEF Request, PlaceOrderResponse, Message, IsFill, Ends
<1>3. UNCHANGED <<bot, live, owed, position>> /\ Says(m) /\ toBot \in Seq(Message)
  BY DEF Refuse, ExchangeStep, RejectOrder, Says, WireTypeOK
<1>4. Speaks(m)
  BY <1>2, <1>3, SaysSpeaks
<1> QED
  BY <1>2, <1>3, <1>4 DEF Serves, ExchangeActs

(* Every step is the exchange's, or one of the robot's that reads nothing  *)
(* about its orders, or a delivery.                                        *)
LEMMA NextCases ==
  ASSUME RobotInv, WireTypeOK, LinkInv, RequestInv, [Next]_vars
  PROVE  \/ ExchangeActs
         \/ \E c : Good(c) /\ Unmoved(bot, c) /\ Carried(c) /\ toBot' = toBot
         \/ Deliver
<1>1. CASE Serve
  BY <1>1, ServeActs
<1>2. CASE Trade
  BY <1>2, FillTrades DEF Trade, ExchangeStep
<1>3. CASE Refuse
  BY <1>3, RefuseActs
<1>4. CASE Withdrawn
  BY <1>4, WithdrawDiscards DEF Withdrawn, ExchangeStep, CancelByExchange
<1>5. CASE Connect \/ Market
  <2>1. /\ UNCHANGED exchangeVars /\ toBot' = toBot
        /\ \E c : Good(c) /\ Finish(c) /\ Unmoved(bot, c)
    BY <1>5, ConnectNews, MarketNews
  <2> QED
    BY <2>1, NewsCarried
<1>6. CASE UNCHANGED vars
  BY <1>6, NothingServed DEF vars, exchangeVars
<1> QED
  BY <1>1, <1>2, <1>3, <1>4, <1>5, <1>6 DEF Next

(* What is in the queue after the exchange has spoken.                     *)
LEMMA SpokenMessages ==
  ASSUME toBot \in Seq(Message), NEW m, Speaks(m)
  PROVE  /\ \A k \in DOMAIN toBot' : \/ k \in DOMAIN toBot /\ toBot'[k] = toBot[k]
                                     \/ k = Len(toBot) + 1 /\ toBot'[k] = m
         /\ \A k \in DOMAIN toBot : k \in DOMAIN toBot' /\ toBot'[k] = toBot[k]
BY QueueAppend DEF Speaks, Says

LEMMA ExchangeEnds ==
  ASSUME WireTypeOK, LinkInv, EndInv, NEW m, Speaks(m),
         Ends(m) => \E o : IsAbout(m, o)
  PROVE  EndInv'
<1>1. \A k \in DOMAIN toBot' : \/ k \in DOMAIN toBot /\ toBot'[k] = toBot[k]
                               \/ k = Len(toBot) + 1 /\ toBot'[k] = m
  BY SpokenMessages DEF WireTypeOK
<1>2. Ends(m) => /\ m.orderId \in OrderIds /\ m.direction \in Side
                 /\ Claimed(m.orderId, m.direction)
                 /\ \A k \in DOMAIN toBot : Ends(toBot[k]) => toBot[k].orderId # m.orderId
  <2> SUFFICES ASSUME NEW o, IsAbout(m, o)
               PROVE  /\ m.orderId \in OrderIds /\ m.direction \in Side
                      /\ Claimed(m.orderId, m.direction)
                      /\ \A k \in DOMAIN toBot :
                           Ends(toBot[k]) => toBot[k].orderId # m.orderId
    OBVIOUS
  <2>1. live[o].direction \in Side
    BY DEF IsAbout, WireTypeOK, ExchangeTypeOK, LiveOrder
  <2> QED
    BY <2>1, LiveClaimed DEF IsAbout, LinkInv, EndedInv
<1>3. EndsOnce'
  <2> SUFFICES ASSUME NEW j \in DOMAIN toBot', NEW k \in DOMAIN toBot',
                      Ends(toBot'[j]), Ends(toBot'[k]),
                      toBot'[j].orderId = toBot'[k].orderId
               PROVE  j = k
    BY DEF EndsOnce, Ends
  <2> QED
    BY <1>1, <1>2 DEF EndInv, EndsOnce
<1>4. ASSUME NEW k \in DOMAIN toBot', Ends(toBot'[k]),
             NEW o, o = toBot'[k].orderId, NEW d, d = toBot'[k].direction
      PROVE  Claimed(o, d)'
  <2>1. CASE k \in DOMAIN toBot /\ toBot'[k] = toBot[k]
    <3>1. toBot[k] \in Message
      BY <2>1, LenProperties DEF WireTypeOK
    <3>2. o \in OrderIds /\ d \in Side
      BY <1>4, <2>1, <3>1, UpdateFields DEF Ends
    <3>3. Claimed(o, d)
      BY <1>4, <2>1 DEF EndInv, EndsClaimed
    <3> QED
      BY <3>2, <3>3 DEF Speaks
  <2>2. CASE toBot'[k] = m
    BY <1>2, <1>4, <2>2 DEF Speaks
  <2> QED
    BY <1>1, <2>1, <2>2
<1>5. EndsClaimed'
  BY <1>4, ClaimsEnds
<1> QED
  BY <1>3, <1>5 DEF EndInv

LEMMA NextEnds ==
  ASSUME RefinementInv, EndInv, [Next]_vars
  PROVE  EndInv'
<1>1. RobotInv /\ WireTypeOK /\ LinkInv /\ RequestInv
  BY IInvParts DEF RefinementInv, LinkIInv, QuantityInv
<1>2. CASE ExchangeActs
  <2>1. \E m : Speaks(m) /\ (Ends(m) => \E o : IsAbout(m, o))
    BY <1>2 DEF ExchangeActs, Serves, Discards, Trades
  <2> QED
    BY <1>1, <2>1, ExchangeEnds
<1>3. CASE \E c : Carried(c)
  BY <1>1, <1>3, RobotEnds
<1>4. CASE Deliver
  BY <1>1, <1>3, <1>4, DeliverCarried
<1> QED
  BY <1>1, <1>2, <1>3, <1>4, NextCases

-----------------------------------------------------------------------------
(* Without partial executions an order is whole until it ends.             *)
WholeInv ==
  /\ \A o \in OrderIds : live[o] # None => live[o].remaining = Quantity
  /\ \A d \in Side, o \in OrderIds : bot.ordersMap[d][o] # None
       => bot.ordersMap[d][o].quantity = Quantity

LEMMA FillsEnd ==
  ASSUME ~PartialFills, FillInv, NEW k \in DOMAIN toBot, IsFill(toBot[k])
  PROVE  toBot[k].remaining = 0 /\ Ends(toBot[k])
BY DEF FillInv, FillOK, Ends, IsFill

LEMMA HandledWhole ==
  ASSUME ~PartialFills, RobotInv, QuantityInv, WholeInv,
         NEW k \in DOMAIN toBot, NEW m, m = toBot[k], NEW c, Handled(c, m),
         NEW d \in Side, NEW o \in OrderIds, c.ordersMap[d][o] # None
  PROVE  c.ordersMap[d][o].quantity = Quantity
<1>1. CASE c.ordersMap = bot.ordersMap
  BY <1>1 DEF WholeInv
<1>2. CASE Confirms(bot, c, m)
  <2> PICK req : req = bot.orderReqMap[m.id]
    OBVIOUS
  <2>1. /\ m.id \in ReqIds /\ req \in OrderReq
        /\ c.ordersMap[d][o] = req \/ c.ordersMap[d][o] = bot.ordersMap[d][o]
    BY <1>2, ZenonT(60) DEF Confirms, ElsewhereSame
  <2>2. req.quantity = Quantity
    BY <2>1, NoOrderReqAssumption DEF QuantityInv, RequestInv, Whole
  <2> QED
    BY <2>1, <2>2 DEF WholeInv
<1>3. CASE Executes(bot, c, m) /\ IsFill(m)
  <2>1. m.remaining = 0
    BY <1>3, FillsEnd DEF QuantityInv
  <2>2. c.ordersMap[d][o] = bot.ordersMap[d][o]
    BY <1>3, <2>1, ZenonT(60) DEF Executes, ElsewhereSame, Reduced
  <2> QED
    BY <2>2 DEF WholeInv
<1>4. CASE Withdraws(bot, c, m)
  <2>1. c.ordersMap[d][o] = bot.ordersMap[d][o]
    BY <1>4, ZenonT(60) DEF Withdraws, ElsewhereSame
  <2> QED
    BY <2>1 DEF WholeInv
<1> QED
  BY <1>1, <1>2, <1>3, <1>4 DEF Handled, Adopts, Unmoved, News, SameOrders, Refuses

LEMMA NextWhole ==
  ASSUME ~PartialFills, RefinementInv, WholeInv, [Next]_vars
  PROVE  WholeInv'
<1>1. /\ RobotInv /\ WireTypeOK /\ LinkInv /\ RequestInv /\ QuantityInv
  BY IInvParts DEF RefinementInv, LinkIInv, QuantityInv
<1>2. CASE ExchangeActs
  <2>1. PICK m : \/ Serves(m)
                 \/ \E o : Discards(m, o)
                 \/ \E o, k : Trades(m, o, k)
    BY <1>2 DEF ExchangeActs
  <2>2. UNCHANGED bot
    BY <2>1 DEF Serves, Discards, Trades, Speaks
  <2>3. \A o \in OrderIds : live'[o] # None =>
          live'[o] = live[o] \/ live'[o].remaining = Quantity
    BY <2>1 DEF Serves, Discards, Trades
  <2> QED
    BY <2>2, <2>3 DEF WholeInv
<1>3. ASSUME NEW c, Carried(c),
             \A d \in Side, o \in OrderIds : c.ordersMap[d][o] # None
               => c.ordersMap[d][o].quantity = Quantity
      PROVE  WholeInv'
  BY <1>3 DEF Carried, WholeInv, exchangeVars
<1>4. CASE \E c : Unmoved(bot, c) /\ Carried(c)
  BY <1>3, <1>4 DEF Unmoved, News, SameOrders, WholeInv
<1>5. CASE Deliver
  <2> PICK m : m = Head(toBot)
    OBVIOUS
  <2>1. 1 \in DOMAIN toBot /\ m = toBot[1]
    BY <1>1, <1>5, DeliverHandles
  <2>2. PICK c : Handled(c, m) /\ Carried(c)
    BY <1>1, <1>5, DeliverCarried
  <2> QED
    BY <1>1, <1>3, <2>1, <2>2, HandledWhole
<1> QED
  BY <1>1, <1>2, <1>4, <1>5, NextCases

-----------------------------------------------------------------------------
(* The account's position, explained by the robot's: on each side it may   *)
(* be ahead by one whole order that has been executed, and the robot is    *)
(* either still to read so or has read it without knowing the order.       *)
ToldCancelled(o) == \E k \in DOMAIN toBot :
  toBot[k].type = "orders" /\ toBot[k].status = "Cancelled" /\ toBot[k].orderId = o

Executed(o, d) == Claimed(o, d) /\ live[o] = None /\ ~ToldCancelled(o)

Unread == [Side -> {0, Quantity}]

Explains(x) ==
  /\ \A d \in Side : x[d] # 0 => \E o \in OrderIds : Executed(o, d)
  /\ \A k \in DOMAIN toBot : IsFill(toBot[k]) => x[toBot[k].direction] = Quantity
  /\ position = bot.positionSize + x["Buy"] - x["Sell"]

Reach == -(PositionSizeMax + Quantity - 1) .. PositionSizeMax + Quantity - 1

(* Before it knows its position the robot trades nothing, so that every    *)
(* positions message still tells the truth; afterwards it is explained.    *)
Untraded ==
  /\ position \in Reach
  /\ \A k \in DOMAIN toBot : toBot[k].type = "positions" => Size(toBot[k]) = position

Explained == bot.positionSize \in Reach /\ \E x \in Unread : Explains(x)

LimitInv == IF bot.positionSize = None THEN Untraded ELSE Explained

(* A side with an order is below its limit.                                *)
LEMMA BelowOnSide ==
  ASSUME ~PartialFills, RobotInv, OnlyBelowLimit, NEW d \in Side,
         bot.isOrderPlaced[d]
  PROVE  bot.positionSize \in Int /\ BelowLimit(bot, d)
<1>1. Good(bot)
  BY RobotInvGood
<1>2. SlotOf(bot, d).stage # "none"
  <2>1. CASE KnownIn(bot, d) = {}
    <3>1. SlotOf(bot, d) = Promise!Asked
      BY <1>1, <2>1, SlotOfValue
    <3> QED
      BY <3>1 DEF Promise!Asked
  <2>2. CASE KnownIn(bot, d) # {}
    <3>1. PICK o \in OrderIds : KnownIn(bot, d) = {o}
      BY <1>1, <2>2 DEF Good, SlotOK
    <3>2. SlotOf(bot, d).stage = IF bot.ordersMap[d][o].isReplaceOrder
                                 THEN "replacing" ELSE "quoted"
      BY <1>1, <3>1, SlotOfValue
    <3> QED
      BY <3>2
  <2> QED
    BY <2>1, <2>2
<1>3. bot.positionSize \in Int /\ Promise!Below(d, bot.positionSize)
  BY <1>2 DEF OnlyBelowLimit, Promise!OutstandingBelow, Promise!Side, Side
<1> QED
  BY <1>3 DEF Promise!Below, BelowLimit

(* The limit follows: only a side below its limit is ahead.                *)
LEMMA LimitFollows ==
  ASSUME ~PartialFills, RobotInv, WireTypeOK, IdInv, OnlyBelowLimit, LimitInv
  PROVE  PositionLimit
<1>1. CASE bot.positionSize = None
  BY <1>1 DEF LimitInv, Untraded, Reach, PositionLimit
<1>2. CASE bot.positionSize # None
  <2>1. PICK x \in Unread : Explains(x)
    BY <1>2 DEF LimitInv, Explained
  <2>2. ASSUME NEW d \in Side, x[d] # 0
        PROVE  BelowLimit(bot, d)
    BY <2>1, <2>2, ClaimedOnce, BelowOnSide DEF Explains, Executed
  <2>3. PICK p : p = bot.positionSize
    OBVIOUS
  <2>4. PICK b, s \in {0, Quantity} : b = x["Buy"] /\ s = x["Sell"]
    BY DEF Unread, Side
  <2>5. /\ b # 0 => p < PositionSizeMax
        /\ s # 0 => p > -PositionSizeMax
    BY <2>2, <2>3, <2>4 DEF BelowLimit, Side
  <2>6. p \in Reach /\ position = p + b - s
    BY <1>2, <2>1, <2>3, <2>4 DEF LimitInv, Explained, Explains
  <2> QED
    BY <2>4, <2>5, <2>6, QuantityAssumption, ConfAssumption DEF Reach, PositionLimit
<1> QED
  BY <1>1, <1>2

(* What the robot's position becomes when it reads an execution.           *)
LEMMA MovedInReach ==
  ASSUME ~PartialFills, RobotInv, OnlyBelowLimit, NEW d \in Side,
         bot.isOrderPlaced[d], bot.positionSize \in Reach
  PROVE  Promise!Moved(d, bot.positionSize, Quantity) \in Reach
<1>1. PICK p : p = bot.positionSize
  OBVIOUS
<1>2. /\ d = "Buy" => p < PositionSizeMax
      /\ d # "Buy" => p > -PositionSizeMax
  BY <1>1, BelowOnSide DEF BelowLimit
<1>3. p \in Reach
  BY <1>1
<1>4. Promise!Moved(d, p, Quantity) \in Reach
  BY <1>2, <1>3, QuantityAssumption, ConfAssumption DEF Promise!Moved, Reach
<1> QED
  BY <1>1, <1>4

-----------------------------------------------------------------------------
(* The exchange keeps the explanation, or adds an execution to it.         *)
LEMMA ExecutedStays ==
  ASSUME WireTypeOK, NEW m,
         Serves(m) \/ (\E o : Discards(m, o)) \/ (\E o, k : Trades(m, o, k)),
         NEW d \in Side, NEW o \in OrderIds, Executed(o, d)
  PROVE  Executed(o, d)'
<1>1. Speaks(m) /\ Claimed(o, d) /\ live[o] = None /\ ~ToldCancelled(o)
  BY DEF Serves, Discards, Trades, Executed
<1>2. Claimed(o, d)'
  BY <1>1 DEF Speaks
<1>3. live'[o] = None
  BY <1>1, ClaimedNotFresh DEF Serves, Discards, Trades, IsAbout
<1>4. ~(m.type = "orders" /\ m.status = "Cancelled" /\ m.orderId = o)
  BY <1>1 DEF Serves, Ends, Discards, Trades, IsAbout, IsFill
<1>5. ~ToldCancelled(o)'
  BY <1>1, <1>4, SpokenMessages DEF WireTypeOK, ToldCancelled
<1> QED
  BY <1>2, <1>3, <1>5 DEF Executed

(* A live order is the only one of its side, so that the account is not    *)
(* ahead there.                                                            *)
LEMMA LiveNotAhead ==
  ASSUME RobotInv, WireTypeOK, LinkInv, NEW x, Explains(x),
         NEW o \in OrderIds, live[o] # None
  PROVE  live[o].direction \in Side /\ x[live[o].direction] = 0
<1>1. live[o].direction \in Side
  BY DEF WireTypeOK, ExchangeTypeOK, LiveOrder
<1>2. Claimed(o, live[o].direction)
  BY LiveClaimed
<1> QED
  BY <1>1, <1>2, ClaimedOnce DEF Explains, Executed, LinkInv

LEMMA QuietExplained ==
  ASSUME WireTypeOK, Explained, NEW m, Serves(m) \/ \E o : Discards(m, o)
  PROVE  Explained'
<1>1. PICK x \in Unread : Explains(x)
  BY DEF Explained
<1>2. Speaks(m) /\ ~IsFill(m) /\ position' = position /\ UNCHANGED bot
  BY DEF Serves, Discards, IsFill, Speaks
<1>3. \A k \in DOMAIN toBot' : IsFill(toBot'[k]) => x[toBot'[k].direction] = Quantity
  BY <1>1, <1>2, SpokenMessages DEF WireTypeOK, Explains
<1>4. \A d \in Side : x[d] # 0 => \E o \in OrderIds : Executed(o, d)'
  BY <1>1, ExecutedStays DEF Explains
<1>5. position' = bot'.positionSize + x["Buy"] - x["Sell"]
  BY <1>1, <1>2 DEF Explains
<1>6. Explains(x)'
  BY <1>3, <1>4, <1>5 DEF Explains, IsFill
<1> QED
  BY <1>2, <1>6 DEF Explained

LEMMA TradeExplained ==
  ASSUME ~PartialFills, RobotInv, WireTypeOK, LinkInv, WholeInv, Explained,
         NEW m, NEW o, NEW k, Trades(m, o, k)
  PROVE  Explained'
<1>1. PICK x \in Unread : Explains(x)
  BY DEF Explained
<1> PICK d : d = m.direction
  OBVIOUS
<1>2. /\ o \in OrderIds /\ live[o] # None /\ d = live[o].direction
      /\ m.type = "orders" /\ m.orderId = o /\ IsFill(m) /\ Speaks(m) /\ UNCHANGED bot
  BY DEF Trades, IsAbout, Speaks
<1>3. d \in Side /\ x[d] = 0
  BY <1>1, <1>2, LiveNotAhead
<1>4. k = Quantity /\ live'[o] = None
  BY <1>2 DEF Trades, WholeInv
<1> PICK y : y = [x EXCEPT ![d] = Quantity]
  OBVIOUS
<1>5. y \in Unread /\ y[d] = Quantity /\ \A e \in Side \ {d} : y[e] = x[e]
  BY <1>3 DEF Unread
<1>6. Executed(o, d)'
  <2>1. Claimed(o, d)'
    BY <1>2, <1>3, LiveClaimed DEF Speaks
  <2>2. ~ToldCancelled(o)
    BY <1>2 DEF LinkInv, EndedInv, Ends, ToldCancelled
  <2>3. ~ToldCancelled(o)'
    BY <1>2, <2>2, SpokenMessages DEF WireTypeOK, ToldCancelled, IsFill
  <2> QED
    BY <1>4, <2>1, <2>3 DEF Executed
<1>7. \A e \in Side : y[e] # 0 => \E p \in OrderIds : Executed(p, e)'
  BY <1>1, <1>2, <1>5, <1>6, ExecutedStays DEF Explains
<1>8. \A j \in DOMAIN toBot' : IsFill(toBot'[j]) => y[toBot'[j].direction] = Quantity
  <2> SUFFICES ASSUME NEW j \in DOMAIN toBot', IsFill(toBot'[j])
               PROVE  y[toBot'[j].direction] = Quantity
    OBVIOUS
  <2>1. CASE j \in DOMAIN toBot /\ toBot'[j] = toBot[j]
    <3>1. toBot[j] \in Message /\ toBot[j].type = "orders"
      BY <2>1, LenProperties DEF WireTypeOK, IsFill
    <3>2. toBot[j].direction \in Side /\ x[toBot[j].direction] = Quantity
      BY <1>1, <2>1, <3>1, UpdateFields DEF Explains
    <3> QED
      BY <1>5, <2>1, <3>2
  <2>2. CASE toBot'[j] = m
    BY <1>5, <2>2
  <2> QED
    BY <1>2, <2>1, <2>2, SpokenMessages DEF WireTypeOK
<1>9. position' = bot'.positionSize + y["Buy"] - y["Sell"]
  <2>1. PICK p : p = bot.positionSize
    OBVIOUS
  <2>2. p \in Int /\ bot'.positionSize = p
    BY <1>2, <2>1 DEF Explained, Reach
  <2>3. PICK b, s \in {0, Quantity} : b = x["Buy"] /\ s = x["Sell"]
    BY DEF Unread, Side
  <2>4. position = p + b - s
    BY <1>1, <2>1, <2>3 DEF Explains
  <2>5. position' = IF d = "Buy" THEN position + Quantity ELSE position - Quantity
    BY <1>4 DEF Trades
  <2>6. CASE d = "Buy"
    <3>1. y["Buy"] = Quantity /\ y["Sell"] = s /\ b = 0
      BY <1>3, <1>5, <2>3, <2>6 DEF Side
    <3> QED
      BY <2>2, <2>3, <2>4, <2>5, <2>6, <3>1, QuantityAssumption
  <2>7. CASE d = "Sell"
    <3>1. y["Sell"] = Quantity /\ y["Buy"] = b /\ s = 0
      BY <1>3, <1>5, <2>3, <2>7 DEF Side
    <3> QED
      BY <2>2, <2>3, <2>4, <2>5, <2>7, <3>1, QuantityAssumption
  <2> QED
    BY <1>3, <2>6, <2>7 DEF Side
<1>10. Explains(y)'
  BY <1>7, <1>8, <1>9 DEF Explains, IsFill
<1> QED
  BY <1>2, <1>5, <1>10 DEF Explained

(* Before the robot knows its position it has placed nothing.              *)
LEMMA NothingBefore ==
  ASSUME RobotInv, WireTypeOK, LinkInv, EndInv, bot.positionSize = None
  PROVE  /\ \A d \in Side, o \in OrderIds : ~Claimed(o, d)
         /\ \A o \in OrderIds : live[o] = None
         /\ \A k \in DOMAIN toBot : ~Ends(toBot[k])
<1>1. \A d \in Side, o \in OrderIds : ~Claimed(o, d)
  BY ClaimedOnce DEF RobotInv, MarketKnown, Ready, LinkInv
<1>2. \A o \in OrderIds : live[o] # None => live[o].direction \in Side
  BY DEF WireTypeOK, ExchangeTypeOK, LiveOrder
<1>3. \A k \in DOMAIN toBot : Ends(toBot[k]) =>
        toBot[k].orderId \in OrderIds /\ toBot[k].direction \in Side
  BY UpdateFields, LenProperties DEF WireTypeOK, Ends
<1> QED
  BY <1>1, <1>2, <1>3, LiveClaimed DEF EndInv, EndsClaimed

LEMMA ExchangeLimit ==
  ASSUME ~PartialFills, RobotInv, WireTypeOK, LinkInv, EndInv, WholeInv,
         LimitInv, ExchangeActs
  PROVE  LimitInv'
<1>1. PICK m : \/ Serves(m)
               \/ \E o : Discards(m, o)
               \/ \E o, k : Trades(m, o, k)
  BY DEF ExchangeActs
<1>2. Speaks(m) /\ UNCHANGED bot
  BY <1>1 DEF Serves, Discards, Trades, Speaks
<1>3. CASE bot.positionSize = None
  <2>1. Serves(m)
    BY <1>1, <1>3, NothingBefore DEF Discards, Trades, IsAbout
  <2>2. position' = position /\ Untraded
        /\ (m.type = "positions" => Size(m) = position)
    BY <1>3, <2>1 DEF Serves, LimitInv
  <2>3. \A k \in DOMAIN toBot' :
          toBot'[k].type = "positions" => Size(toBot'[k]) = position
    BY <1>2, <2>2, SpokenMessages DEF WireTypeOK, Untraded
  <2> QED
    BY <1>2, <1>3, <2>2, <2>3 DEF LimitInv, Untraded, Size
<1>4. CASE bot.positionSize # None
  <2>1. Explained'
    BY <1>1, <1>4, QuietExplained, TradeExplained DEF LimitInv
  <2> QED
    BY <1>2, <1>4, <2>1 DEF LimitInv
<1> QED
  BY <1>3, <1>4

-----------------------------------------------------------------------------
(* The robot keeps the explanation, or takes an execution out of it.       *)
Leaves(c, x, y) ==
  /\ c.positionSize \in Reach /\ y \in Unread
  /\ \A d \in Side : y[d] # 0 => y[d] = x[d]
  /\ \A d \in Side, o \in OrderIds :
       y[d] # 0 /\ Executed(o, d) /\ bot.ordersMap[d][o] # None
         => c.ordersMap[d][o] # None
  /\ \A k \in DOMAIN toBot' :
       IsFill(toBot'[k]) => y[toBot'[k].direction] = Quantity
  /\ position = c.positionSize + y["Buy"] - y["Sell"]

LEMMA RobotExplains ==
  ASSUME WireTypeOK, NEW x, Explains(x), NEW c, Carried(c), NEW y, Leaves(c, x, y)
  PROVE  Explained'
<1>1. /\ UNCHANGED <<live, position>>
      /\ bot'.positionSize = c.positionSize
      /\ \A k \in DOMAIN toBot' : \E j \in DOMAIN toBot : toBot'[k] = toBot[j]
  BY LeftMessages DEF Carried, exchangeVars
<1>2. ASSUME NEW d \in Side, NEW o \in OrderIds, y[d] # 0, Executed(o, d)
      PROVE  Executed(o, d)'
  <2>1. Claimed(o, d)'
    BY <1>2 DEF Carried, Executed, Leaves
  <2>2. ~ToldCancelled(o)'
    BY <1>1, <1>2 DEF Executed, ToldCancelled
  <2> QED
    BY <1>1, <1>2, <2>1, <2>2 DEF Executed
<1>3. \A d \in Side : y[d] # 0 => \E o \in OrderIds : Executed(o, d)'
  BY <1>2 DEF Explains, Leaves
<1>4. Explains(y)'
  BY <1>1, <1>3 DEF Explains, Leaves, IsFill
<1> QED
  BY <1>1, <1>4 DEF Explained, Leaves

LEMMA SilenceExplained ==
  ASSUME WireTypeOK, Explained, NEW c, Carried(c),
         c.positionSize = bot.positionSize,
         \A d \in Side, o \in OrderIds :
           Executed(o, d) /\ bot.ordersMap[d][o] # None => c.ordersMap[d][o] # None
  PROVE  Explained'
<1>1. PICK x \in Unread : Explains(x)
  BY DEF Explained
<1>2. \A k \in DOMAIN toBot' : \E j \in DOMAIN toBot : toBot'[k] = toBot[j]
  BY LeftMessages DEF Carried
<1>3. \A k \in DOMAIN toBot' : IsFill(toBot'[k]) => x[toBot'[k].direction] = Quantity
  BY <1>1, <1>2 DEF Explains
<1>4. /\ position = c.positionSize + x["Buy"] - x["Sell"]
      /\ c.positionSize \in Reach
  BY <1>1 DEF Explains, Explained
<1>5. Leaves(c, x, x)
  BY <1>1, <1>3, <1>4 DEF Leaves, IsFill
<1> QED
  BY <1>1, <1>5, RobotExplains

LEMMA ExecutionExplained ==
  ASSUME ~PartialFills, RobotInv, WireTypeOK, LinkInv, QuantityInv, EndInv,
         WholeInv, OnlyBelowLimit, Explained,
         toBot # <<>>, toBot' = Tail(toBot), NEW m \in Message, m = toBot[1],
         NEW c, Carried(c), Executes(bot, c, m), IsFill(m)
  PROVE  Explained'
<1>1. PICK x \in Unread : Explains(x)
  BY DEF Explained
<1> PICK d : d = m.direction
  OBVIOUS
<1> PICK o : o = m.orderId
  OBVIOUS
<1> PICK p : p = bot.positionSize
  OBVIOUS
<1>2. /\ 1 \in DOMAIN toBot
      /\ \A k \in DOMAIN toBot' : /\ k \in Nat \ {0} /\ k + 1 \in DOMAIN toBot
                                 /\ toBot'[k] = toBot[k + 1]
  BY QueueTail DEF WireTypeOK
<1>3. /\ m.remaining = 0 /\ Ends(m) /\ x[d] = Quantity
  BY <1>1, <1>2, FillsEnd DEF QuantityInv, Explains
<1>4. /\ d \in Side /\ o \in OrderIds /\ bot.ordersMap[d][o] # None
      /\ c.positionSize = IF d = "Buy"
           THEN p + (bot.ordersMap[d][o].quantity - m.remaining)
           ELSE p - (bot.ordersMap[d][o].quantity - m.remaining)
  BY ZenonT(60) DEF Executes
<1>5. \A e \in Side \ {d} : c.ordersMap[e] = bot.ordersMap[e]
                         \/ \A q \in OrderIds : c.ordersMap[e][q] = bot.ordersMap[e][q]
  BY ZenonT(60) DEF Executes, ElsewhereSame
<1>6. Claimed(o, d) /\ bot.ordersMap[d][o].quantity = Quantity
  BY <1>4 DEF Claimed, WholeInv
<1>7. bot.isOrderPlaced[d] /\ \A q \in OrderIds : Claimed(q, d) => q = o
  BY <1>4, <1>6, ClaimedOnce DEF LinkInv
<1>8. c.positionSize = Promise!Moved(d, p, Quantity)
  BY <1>3, <1>4, <1>6, QuantityAssumption DEF Promise!Moved
<1>9. bot.positionSize \in Reach /\ c.positionSize \in Reach
  <2>1. bot.positionSize \in Reach
    BY DEF Explained
  <2>2. Promise!Moved(d, bot.positionSize, Quantity) \in Reach
    BY <1>4, <1>7, <2>1, MovedInReach
  <2> QED
    BY <1>8, <2>1, <2>2
<1> PICK y : y = [x EXCEPT ![d] = 0]
  OBVIOUS
<1>10. y \in Unread /\ y[d] = 0 /\ \A e \in Side \ {d} : y[e] = x[e]
  BY <1>4 DEF Unread
<1>11. \A k \in DOMAIN toBot' : IsFill(toBot'[k]) => y[toBot'[k].direction] = Quantity
  <2> SUFFICES ASSUME NEW k \in DOMAIN toBot', IsFill(toBot'[k])
               PROVE  y[toBot'[k].direction] = Quantity
    OBVIOUS
  <2> PICK n : n = toBot'[k]
    OBVIOUS
  <2>1. k \in Nat \ {0} /\ k + 1 \in DOMAIN toBot /\ n = toBot[k + 1] /\ IsFill(n)
    BY <1>2
  <2>2. n.direction \in Side /\ n.orderId \in OrderIds
    BY <2>1, UpdateFields, LenProperties DEF WireTypeOK, IsFill
  <2>3. Ends(n) /\ x[n.direction] = Quantity
    BY <1>1, <2>1, FillsEnd DEF QuantityInv, Explains
  <2>4. n.direction # d
    <3> SUFFICES ASSUME n.direction = d PROVE FALSE
      OBVIOUS
    <3>1. Claimed(n.orderId, d)
      BY <2>1, <2>3 DEF EndInv, EndsClaimed
    <3>2. n.orderId = o
      BY <1>7, <2>2, <3>1
    <3>3. k + 1 = 1
      BY <1>2, <1>3, <2>1, <2>3, <3>2 DEF EndInv, EndsOnce
    <3> QED
      BY <2>1, <3>3
  <2> QED
    BY <1>10, <2>2, <2>3, <2>4
<1>12. position = c.positionSize + y["Buy"] - y["Sell"]
  <2>1. p \in Int
    BY <1>9 DEF Reach
  <2>2. PICK b, s \in {0, Quantity} : b = x["Buy"] /\ s = x["Sell"]
    BY DEF Unread, Side
  <2>3. position = p + b - s
    BY <1>1, <2>2 DEF Explains
  <2>4. CASE d = "Buy"
    <3>1. y["Buy"] = 0 /\ y["Sell"] = s /\ b = Quantity
      BY <1>3, <1>10, <2>2, <2>4 DEF Side
    <3>2. c.positionSize = p + Quantity
      BY <1>8, <2>4 DEF Promise!Moved
    <3> QED
      BY <2>1, <2>2, <2>3, <3>1, <3>2, QuantityAssumption
  <2>5. CASE d = "Sell"
    <3>1. y["Sell"] = 0 /\ y["Buy"] = b /\ s = Quantity
      BY <1>3, <1>10, <2>2, <2>5 DEF Side
    <3>2. c.positionSize = p - Quantity
      BY <1>8, <2>5 DEF Promise!Moved
    <3> QED
      BY <2>1, <2>2, <2>3, <3>1, <3>2, QuantityAssumption
  <2> QED
    BY <1>4, <2>4, <2>5 DEF Side
<1>13. \A e \in Side, q \in OrderIds :
         y[e] # 0 /\ Executed(q, e) /\ bot.ordersMap[e][q] # None
           => c.ordersMap[e][q] # None
  BY <1>5, <1>10
<1>14. \A e \in Side : y[e] # 0 => y[e] = x[e]
  BY <1>10
<1>15. Leaves(c, x, y)
  BY <1>9, <1>10, <1>11, <1>12, <1>13, <1>14 DEF Leaves, IsFill
<1> QED
  BY <1>1, <1>15, RobotExplains

LEMMA DeliverLimit ==
  ASSUME ~PartialFills, RobotInv, WireTypeOK, LinkInv, QuantityInv, EndInv,
         WholeInv, OnlyBelowLimit, LimitInv, Deliver
  PROVE  LimitInv'
<1> PICK m : m = Head(toBot)
  OBVIOUS
<1>1. /\ toBot # <<>> /\ toBot' = Tail(toBot)
      /\ m \in Message /\ 1 \in DOMAIN toBot /\ m = toBot[1]
  BY DeliverHandles
<1>2. PICK c : Good(c) /\ Handled(c, m) /\ Carried(c)
  BY DeliverCarried
<1>3. /\ bot'.positionSize = c.positionSize /\ UNCHANGED position
      /\ \A k \in DOMAIN toBot' : \E j \in DOMAIN toBot : toBot'[k] = toBot[j]
  BY <1>2, LeftMessages DEF Carried, exchangeVars
<1>4. CASE bot.positionSize = None
  <2>1. ~Executes(bot, c, m) /\ ~Withdraws(bot, c, m)
    <3>1. \A d \in Side, o \in OrderIds : bot.ordersMap[d][o] = None
      BY <1>4, NothingBefore DEF Claimed
    <3> QED
      BY <3>1, ZenonT(60) DEF Executes, Withdraws
  <2>2. CASE c.positionSize = bot.positionSize
    BY <1>3, <1>4, <2>2 DEF LimitInv, Untraded, Size
  <2>3. CASE Adopts(bot, c, m) /\ m.type = "positions"
    <3>1. c.positionSize = Size(m) /\ Size(m) = position /\ position \in Reach
      BY <1>1, <1>4, <2>3 DEF Adopts, Size, LimitInv, Untraded
    <3> PICK x : x = [d \in Side |-> 0]
      OBVIOUS
    <3>2. x \in Unread /\ x["Buy"] = 0 /\ x["Sell"] = 0 /\ \A d \in Side : x[d] = 0
      BY DEF Unread, Side
    <3>3. \A k \in DOMAIN toBot : ~IsFill(toBot[k])
      BY <1>4, NothingBefore, FillsEnd DEF QuantityInv
    <3>4. position' = bot'.positionSize + x["Buy"] - x["Sell"]
      BY <1>3, <3>1, <3>2 DEF Reach
    <3>5. Explains(x)'
      BY <1>3, <3>2, <3>3, <3>4 DEF Explains, IsFill
    <3>6. bot'.positionSize \in Reach /\ bot'.positionSize # None
      BY <1>3, <3>1, NoneAssumption DEF Reach
    <3> QED
      BY <3>2, <3>5, <3>6 DEF LimitInv, Explained
  <2> QED
    BY <1>2, <2>1, <2>2, <2>3
       DEF Handled, Unmoved, Refuses, Confirms, Forgets, SameMarket
<1>5. CASE bot.positionSize # None
  <2>1. Explained
    BY <1>5 DEF LimitInv
  <2>2. ASSUME Executes(bot, c, m), IsFill(m) PROVE Explained'
    BY <1>1, <1>2, <2>1, <2>2, ExecutionExplained
  <2>3. ASSUME ~(Executes(bot, c, m) /\ IsFill(m)) PROVE Explained'
    <3>1. c.positionSize = bot.positionSize
      BY <1>2, <1>5, <2>3 DEF Handled, Adopts, News, Unmoved, Refuses, Confirms,
                              Withdraws, Forgets, SameMarket
    <3>2. ASSUME NEW d \in Side, NEW o \in OrderIds, Executed(o, d),
                 bot.ordersMap[d][o] # None
          PROVE  c.ordersMap[d][o] # None
      <4> SUFFICES ASSUME c.ordersMap[d][o] = None PROVE FALSE
        OBVIOUS
      <4>1. Ends(m) /\ m.direction = d /\ m.orderId = o
        BY <1>1, <1>2, <3>2 DEF Carried, LosesEnded
      <4>2. m.type = "orders" /\ m.status # "Cancelled"
        BY <1>1, <3>2, <4>1 DEF Ends, Executed, ToldCancelled
      <4> QED
        BY <1>2, <2>3, <3>2, <4>2
           DEF Handled, Adopts, News, SameOrders, Unmoved, Refuses, Confirms
    <3> QED
      BY <1>2, <2>1, <3>1, <3>2, SilenceExplained
  <2>4. Explained'
    BY <2>2, <2>3
  <2>5. bot'.positionSize # None
    BY <2>4, NoneAssumption DEF Explained, Reach
  <2> QED
    BY <2>4, <2>5 DEF LimitInv
<1> QED
  BY <1>4, <1>5

(* The invariant of the position limit, where executions are whole and the *)
(* robot takes its first position from the account.                        *)
LimitIInv == RefinementInv /\ EndInv /\ WholeInv /\ LimitInv

LEMMA InitLimit ==
  ASSUME ~UseConfigStartPositionSize, StartPositions \subseteq Reach, Init
  PROVE  LimitIInv
<1>1. RefinementInv
  BY InitQuantities
<1>2. /\ toBot = <<>> /\ position \in Reach /\ bot.positionSize = None
      /\ \A o \in OrderIds : live[o] = None
      /\ \A d \in Side, o \in OrderIds : bot.ordersMap[d][o] = None
  BY DEF Init, BotInit, ExchangeInit
<1>3. EndInv /\ WholeInv
  BY <1>2 DEF EndInv, EndsClaimed, EndsOnce, WholeInv
<1>4. LimitInv
  BY <1>2 DEF LimitInv, Untraded
<1> QED
  BY <1>1, <1>3, <1>4 DEF LimitIInv

LEMMA NextLimit ==
  ASSUME ~PartialFills, LimitIInv, OnlyBelowLimit, [Next]_vars
  PROVE  LimitIInv'
<1>1. /\ RobotInv /\ WireTypeOK /\ LinkInv /\ RequestInv /\ QuantityInv
      /\ RefinementInv /\ EndInv /\ WholeInv /\ LimitInv
  BY IInvParts DEF LimitIInv, RefinementInv, LinkIInv, QuantityInv
<1>2. RefinementInv' /\ EndInv' /\ WholeInv'
  BY <1>1, NextQuantities, NextEnds, NextWhole
<1>3. CASE ExchangeActs
  BY <1>1, <1>2, <1>3, ExchangeLimit DEF LimitIInv
<1>4. CASE \E c : Unmoved(bot, c) /\ Carried(c)
  <2>1. PICK c : Unmoved(bot, c) /\ Carried(c)
    BY <1>4
  <2>2. /\ bot'.positionSize = bot.positionSize /\ UNCHANGED position
        /\ c.positionSize = bot.positionSize /\ c.ordersMap = bot.ordersMap
        /\ \A k \in DOMAIN toBot' : \E j \in DOMAIN toBot : toBot'[k] = toBot[j]
    BY <1>1, <2>1, LeftMessages
       DEF Carried, Unmoved, News, SameOrders, exchangeVars
  <2>3. ASSUME bot.positionSize = None PROVE LimitInv'
    BY <1>1, <2>2, <2>3 DEF LimitInv, Untraded, Size
  <2>4. ASSUME bot.positionSize # None PROVE LimitInv'
    <3>1. Explained'
      BY <1>1, <2>1, <2>2, <2>4, SilenceExplained DEF LimitInv
    <3> QED
      BY <2>2, <2>4, <3>1 DEF LimitInv
  <2>5. LimitInv'
    BY <2>3, <2>4
  <2> QED
    BY <1>2, <2>5 DEF LimitIInv
<1>5. CASE Deliver
  BY <1>1, <1>2, <1>5, DeliverLimit DEF LimitIInv
<1> QED
  BY <1>1, <1>3, <1>4, <1>5, NextCases

(* PositionLimit: the account's position never passes the limit by more    *)
(* than the last order placed below it adds, wherever the account starts   *)
(* within that reach and whatever order the updates and answers come in.   *)
(* bot::messageHandler compares only its own position, which lags behind.  *)
THEOREM PositionLimitCorrect ==
  ASSUME ~PartialFills, ~UseConfigStartPositionSize,
         StartPositions \subseteq
           -(PositionSizeMax + Quantity - 1) .. PositionSizeMax + Quantity - 1
  PROVE  Spec => []PositionLimit
<1>1. Init => LimitIInv
  BY InitLimit DEF Reach
<1>2. LimitIInv /\ OnlyBelowLimit /\ [Next]_vars => LimitIInv'
  BY NextLimit
<1>3. LimitIInv /\ OnlyBelowLimit => PositionLimit
  BY LimitFollows, IInvParts
     DEF LimitIInv, RefinementInv, LinkIInv, LinkInv
<1> QED
  BY <1>1, <1>2, <1>3, OnlyBelowLimitCorrect, PTL DEF Spec

=============================================================================
