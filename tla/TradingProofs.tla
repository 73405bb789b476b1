--------------------------- MODULE TradingProofs ---------------------------
(***************************************************************************)
(* Type correctness of Trading, the robot's own invariants, and what ties  *)
(* the robot's requests to the messages under way, for every value of the  *)
(* constants.                                                              *)
(*                                                                         *)
(* TypeOK, SlotInv and MarketKnown are inductive together.  A side's slot  *)
(* says that a free request id exists when placeOrder needs one;           *)
(* MarketKnown says that the price of a successor is an integer; and both  *)
(* are kept by any message of the right type, whatever the exchange does.  *)
(* The proof follows the code: a lemma for each method on the record of    *)
(* the robot's state, then one step of the invariant for each handler.     *)
(*                                                                         *)
(* A placement travels as a request, is perhaps owed an answer, and comes  *)
(* back as one.  The second invariant says that each id is under way in    *)
(* one of the three places at most and that the robot remembers it         *)
(* (IdInv), that an order which can be executed is known to the robot or   *)
(* will be, by an answer under way (LiveInv), and that the update which    *)
(* ends an order is sent when it is gone (EndedInv).                       *)
(***************************************************************************)
EXTENDS Trading, FiniteSetTheorems, SequenceTheorems, TLAPS

USE ReqIdsAssumption, OrderIdsAssumption, QuantityAssumption, NoneAssumption,
    ConfAssumption, ExchangeAssumption, MarketAssumption

(* The robot's state inside a handler: requests are being sent.            *)
BotRecord ==
  [minPriceIncrement : (Nat \ {0}) \cup {None},
   bestBuyPrice : Int \cup {None},
   bestSellPrice : Int \cup {None},
   positionSize : Int \cup {None},
   isOrderPlaced : [Side -> BOOLEAN],
   orderReqMap : [ReqIds -> OrderReq \cup {None}],
   ordersMap : [Side -> [OrderIds -> OrderReq \cup {None}]],
   orderBookBid : SUBSET Int,
   orderBookAsk : SUBSET Int,
   sent : Seq(Request)]

Good(b) ==
  /\ b \in BotRecord
  /\ \A d \in Side : SlotOK(b, d)
  /\ \A d \in Side : b.isOrderPlaced[d] => Ready(b)

-----------------------------------------------------------------------------
(* Prices are integers.                                                    *)
LEMMA ModRingType ==
  ASSUME NEW p \in Int, NEW m \in Nat \ {0}
  PROVE  ModRing(p, m) \in Int
<1>1. 2 * m \in Nat \ {0}
  OBVIOUS
<1>2. \A k \in Int : k \div (2 * m) \in Int
  BY <1>1
<1>3. 2 * p + m \in Int /\ m - 2 * p \in Int
  OBVIOUS
<1>4. (IF p >= 0 THEN (2 * p + m) \div (2 * m)
                ELSE -((m - 2 * p) \div (2 * m))) \in Int
  BY <1>2, <1>3
<1>5. \A x, y \in Int : x * y \in Int
  OBVIOUS
<1> QED
  BY <1>4, <1>5 DEF ModRing

LEMMA PriceType ==
  ASSUME NEW b \in BotRecord, Ready(b), NEW d
  PROVE  calculateOrderPrice(b, d) \in Int
<1>1. /\ b.bestBuyPrice \in Int /\ b.bestSellPrice \in Int
      /\ b.positionSize \in Int /\ b.minPriceIncrement \in Nat \ {0}
  BY DEF Ready, BotRecord
<1>2. Half(b.bestBuyPrice + b.bestSellPrice) \in Int
  BY <1>1 DEF Half
<1>3. Shift * b.positionSize \in Int
  BY <1>1
<1>4. Half(b.bestBuyPrice + b.bestSellPrice)
        + (IF d = "Buy" THEN -Interest ELSE Interest)
        - Shift * b.positionSize \in Int
  BY <1>2, <1>3
<1> QED
  BY <1>1, <1>4, ModRingType DEF calculateOrderPrice

-----------------------------------------------------------------------------
(* With a free slot on one side and at most one request on the other, a    *)
(* free id is left.                                                        *)
LEMMA NextReqIdFree ==
  ASSUME NEW b \in BotRecord, NEW d \in Side, PendingIn(b, d) = {},
         \A e \in Side : SlotOK(b, e)
  PROVE  /\ NextReqId(b) \in ReqIds
         /\ b.orderReqMap[NextReqId(b)] = None
<1>1. PICK e \in Side : e # d /\ Side = {d, e}
  BY DEF Side
<1>2. PICK k \in ReqIds : PendingIn(b, e) \subseteq {k}
  BY <1>1 DEF SlotOK
<1>3. PICK i \in ReqIds : i # k
  OBVIOUS
<1>4. b.orderReqMap[i] = None
  <2> SUFFICES ASSUME b.orderReqMap[i] # None PROVE FALSE
    OBVIOUS
  <2>1. b.orderReqMap[i] \in OrderReq
    BY DEF BotRecord
  <2>2. b.orderReqMap[i].direction \in Side
    BY <2>1 DEF OrderReq
  <2> QED
    BY <1>1, <1>2, <1>3, <2>2 DEF PendingIn
<1> QED
  BY <1>4 DEF NextReqId

(* What placeOrder leaves.                                                 *)
Places(b, p, d) ==
  /\ p \in BotRecord
  /\ Ready(p)
  /\ p.isOrderPlaced[d]
  /\ p.ordersMap = b.ordersMap
  /\ NextReqId(b) \in ReqIds /\ PendingIn(p, d) = {NextReqId(b)}
  /\ \A e \in Side \ {d} : /\ PendingIn(p, e) = PendingIn(b, e)
                            /\ p.isOrderPlaced[e] = b.isOrderPlaced[e]

LEMMA PlaceOrderEffect ==
  ASSUME NEW b \in BotRecord, Ready(b), NEW d \in Side, NEW quantity,
         PendingIn(b, d) = {}, \A e \in Side : SlotOK(b, e),
         NEW p, p = placeOrder(b, d, quantity)
  PROVE  Places(b, p, d)
<1> DEFINE i == NextReqId(b)
           price == calculateOrderPrice(b, d)
           req == [direction |-> d, price |-> price, quantity |-> Quantity,
                   isReplaceOrder |-> FALSE]
<1>1. i \in ReqIds /\ b.orderReqMap[i] = None
  BY NextReqIdFree
<1>2. price \in Int
  BY PriceType
<1>3. req \in OrderReq
  BY <1>2 DEF OrderReq
<1>4. PlaceOrderRequest(i, d, price, Quantity) \in Request
  BY <1>1, <1>2 DEF PlaceOrderRequest, Request
<1> HIDE DEF i, price, req
<1>5. p = [b EXCEPT !.orderReqMap = [@ EXCEPT ![i] = req],
                    !.isOrderPlaced = [@ EXCEPT ![d] = TRUE],
                    !.sent = Append(@, PlaceOrderRequest(i, d, price, Quantity))]
  BY DEF placeOrder, i, price, req, BotRecord
<1>6. /\ p.orderReqMap = [b.orderReqMap EXCEPT ![i] = req]
      /\ p.isOrderPlaced = [b.isOrderPlaced EXCEPT ![d] = TRUE]
      /\ p.ordersMap = b.ordersMap
      /\ p.sent = Append(b.sent, PlaceOrderRequest(i, d, price, Quantity))
      /\ p.minPriceIncrement = b.minPriceIncrement
      /\ p.bestBuyPrice = b.bestBuyPrice /\ p.bestSellPrice = b.bestSellPrice
      /\ p.positionSize = b.positionSize
  BY <1>5 DEF BotRecord
<1>7. p \in BotRecord
  <2>1. [b.orderReqMap EXCEPT ![i] = req] \in [ReqIds -> OrderReq \cup {None}]
    BY <1>1, <1>3 DEF BotRecord
  <2>2. [b.isOrderPlaced EXCEPT ![d] = TRUE] \in [Side -> BOOLEAN]
    BY DEF BotRecord
  <2>3. Append(b.sent, PlaceOrderRequest(i, d, price, Quantity)) \in Seq(Request)
    BY <1>4, AppendProperties DEF BotRecord
  <2> QED
    BY <1>5, <2>1, <2>2, <2>3, ZenonT(30) DEF BotRecord
<1>8. Ready(p)
  BY <1>6 DEF Ready
<1>9. req.direction = d /\ req # None
  <2>1. req # None
    BY <1>3, NoOrderReqAssumption
  <2> QED
    BY <2>1 DEF req
<1>10. \A j \in ReqIds : p.orderReqMap[j] = IF j = i THEN req ELSE b.orderReqMap[j]
  BY <1>1, <1>6 DEF BotRecord
<1>11. PendingIn(p, d) = {i}
  BY <1>1, <1>9, <1>10 DEF PendingIn
<1>12. \A e \in Side \ {d} : PendingIn(p, e) = PendingIn(b, e)
  BY <1>1, <1>9, <1>10 DEF PendingIn
<1>13. p.isOrderPlaced[d] /\ \A e \in Side \ {d} : p.isOrderPlaced[e] = b.isOrderPlaced[e]
  BY <1>6 DEF BotRecord
<1> QED
  BY <1>1, <1>6, <1>7, <1>8, <1>11, <1>12, <1>13 DEF i, Places

(* The elements of a finite set, in some order and none left out.          *)
LEMMA SetToSeqElements ==
  ASSUME NEW S, IsFiniteSet(S)
  PROVE  /\ SetToSeq(S) \in Seq(S)
         /\ \A x \in S : \E k \in DOMAIN SetToSeq(S) : SetToSeq(S)[k] = x
<1> DEFINE n == Cardinality(S)
<1>1. n \in Nat /\ ExistsBijection(1..n, S)
  BY FS_CardinalityType
<1>2. \E f \in [1..n -> S] : IsInjective(f)
  BY <1>1 DEF ExistsBijection, Bijection, Injection
<1>3. SetToSeq(S) \in [1..n -> S] /\ IsInjective(SetToSeq(S))
  BY <1>2 DEF SetToSeq
<1>4. SetToSeq(S) \in Seq(S)
  BY <1>1, <1>3, SeqDef
<1>5. Cardinality(1..n) = n
  BY <1>1, FS_Interval
<1>6. SetToSeq(S) \in Injection(1..n, S)
  BY <1>3 DEF Injection
<1>7. SetToSeq(S) \in Surjection(1..n, S)
  BY <1>5, <1>6, FS_Injection
<1> QED
  BY <1>3, <1>4, <1>7 DEF Surjection

(* A cancellation for each order of a set, in some order.                  *)
LEMMA CancelsFinite ==
  ASSUME NEW stale \in SUBSET OrderIds
  PROVE  IsFiniteSet({CancelOrderRequest(o) : o \in stale})
<1> DEFINE S == {CancelOrderRequest(o) : o \in stale}
           f == [o \in stale |-> CancelOrderRequest(o)]
<1>1. IsFiniteSet(stale)
  BY FS_Subset
<1>2. f \in Surjection(stale, S)
  BY DEF Surjection
<1> QED
  BY <1>1, <1>2, FS_Surjection

LEMMA CancelsType ==
  ASSUME NEW stale \in SUBSET OrderIds
  PROVE  SetToSeq({CancelOrderRequest(o) : o \in stale}) \in Seq(Request)
<1> DEFINE S == {CancelOrderRequest(o) : o \in stale}
<1>1. SetToSeq(S) \in Seq(S)
  BY CancelsFinite, SetToSeqElements
<1>2. S \subseteq Request
  BY DEF CancelOrderRequest, Request
<1> HIDE DEF S
<1>3. SetToSeq(S) \in Seq(Request)
  BY <1>1, <1>2, SeqMonotonic
<1> QED
  BY <1>3 DEF S

(* replaceOrderIfPriceChanged keeps the slots: it rewrites orders it knows.*)
LEMMA ReplaceGood ==
  ASSUME NEW b, Good(b), Ready(b), NEW d \in Side,
         NEW r, r = replaceOrderIfPriceChanged(b, d)
  PROVE  Good(r) /\ Ready(r)
<1> DEFINE price == calculateOrderPrice(b, d)
           stale == {o \in OrderIds : /\ b.ordersMap[d][o] # None
                                      /\ b.ordersMap[d][o].price # price}
           cancels == SetToSeq({CancelOrderRequest(o) : o \in stale})
           orders == [o \in OrderIds |->
                        IF o \in stale
                        THEN [b.ordersMap[d][o] EXCEPT !.price = price,
                                                       !.isReplaceOrder = TRUE]
                        ELSE b.ordersMap[d][o]]
<1>1. b \in BotRecord
  BY DEF Good
<1>2. price \in Int
  BY <1>1, PriceType
<1>3. cancels \in Seq(Request)
  BY CancelsType
<1>4. ASSUME NEW o \in OrderIds
      PROVE  /\ orders[o] \in OrderReq \cup {None}
             /\ orders[o] = None <=> b.ordersMap[d][o] = None
  <2>1. b.ordersMap[d][o] \in OrderReq \cup {None}
    BY <1>1 DEF BotRecord
  <2>2. CASE o \in stale
    <3>1. b.ordersMap[d][o] \in OrderReq
      BY <2>1, <2>2
    <3>2. orders[o] \in OrderReq
      BY <1>2, <2>2, <3>1 DEF OrderReq
    <3> QED
      BY <2>2, <3>2, NoOrderReqAssumption
  <2>3. CASE o \notin stale
    BY <2>1, <2>3
  <2> QED
    BY <2>2, <2>3
<1>5. orders \in [OrderIds -> OrderReq \cup {None}]
  BY <1>4
<1>6. r = [b EXCEPT !.ordersMap = [@ EXCEPT ![d] = orders],
                    !.sent = @ \o cancels]
  BY <1>1 DEF replaceOrderIfPriceChanged, BotRecord
<1> HIDE DEF orders, cancels, stale, price
<1>7. b.sent \o cancels \in Seq(Request)
  BY <1>1, <1>3, ConcatProperties DEF BotRecord
<1>8. [b.ordersMap EXCEPT ![d] = orders]
        \in [Side -> [OrderIds -> OrderReq \cup {None}]]
  BY <1>1, <1>5 DEF BotRecord
<1>9. r \in BotRecord
  BY <1>1, <1>6, <1>7, <1>8 DEF BotRecord
<1>10. /\ r.orderReqMap = b.orderReqMap
       /\ r.isOrderPlaced = b.isOrderPlaced
       /\ r.ordersMap = [b.ordersMap EXCEPT ![d] = orders]
       /\ r.minPriceIncrement = b.minPriceIncrement
       /\ r.bestBuyPrice = b.bestBuyPrice /\ r.bestSellPrice = b.bestSellPrice
       /\ r.positionSize = b.positionSize
  BY <1>1, <1>6 DEF BotRecord
<1>11. Ready(r)
  BY <1>10 DEF Ready
<1>12. \A e \in Side : PendingIn(r, e) = PendingIn(b, e)
  BY <1>10 DEF PendingIn
<1>13. \A e \in Side : KnownIn(r, e) = KnownIn(b, e)
  BY <1>1, <1>4, <1>10 DEF KnownIn, BotRecord
<1>14. \A e \in Side : SlotOK(r, e)
  BY <1>10, <1>12, <1>13 DEF Good, SlotOK
<1> QED
  BY <1>9, <1>11, <1>14 DEF Good

LEMMA PlaceIfNoneGood ==
  ASSUME NEW b, Good(b), Ready(b), NEW d \in Side,
         NEW p, p = placeOrderIfNone(b, d)
  PROVE  Good(p) /\ Ready(p)
<1>1. CASE ~b.isOrderPlaced[d] /\ p = placeOrder(b, d, Quantity)
  <2>1. PendingIn(b, d) = {} /\ KnownIn(b, d) = {}
    BY <1>1 DEF Good, SlotOK
  <2>2. \A e \in Side : SlotOK(b, e)
    BY DEF Good
  <2>3. b \in BotRecord
    BY DEF Good
  <2>4. Places(b, p, d)
    BY <1>1, <2>1, <2>2, <2>3, PlaceOrderEffect
  <2>5. \A e \in Side : KnownIn(p, e) = KnownIn(b, e)
    BY <2>4 DEF KnownIn, Places
  <2>6. SlotOK(p, d)
    BY <2>1, <2>4, <2>5 DEF SlotOK, Places
  <2>7. ASSUME NEW e \in Side \ {d}
        PROVE  SlotOK(p, e)
    BY <2>2, <2>4, <2>5 DEF SlotOK, Places
  <2> QED
    BY <2>4, <2>6, <2>7 DEF Good, Places
<1>2. CASE p = b
  BY <1>2
<1> QED
  BY <1>1, <1>2 DEF placeOrderIfNone

LEMMA RequoteGood ==
  ASSUME NEW b, Good(b)
  PROVE  Good(Requote(b))
<1>1. CASE ~Ready(b)
  BY <1>1 DEF Requote
<1>2. CASE Ready(b)
  <2> DEFINE buy    == placeOrderIfNone(b, "Buy")
             placed == placeOrderIfNone(buy, "Sell")
             bids   == replaceOrderIfPriceChanged(placed, "Buy")
  <2>1. "Buy" \in Side /\ "Sell" \in Side
    BY DEF Side
  <2>2. Good(buy) /\ Ready(buy)
    BY <1>2, <2>1, PlaceIfNoneGood
  <2> HIDE DEF buy
  <2>3. Good(placed) /\ Ready(placed)
    BY <2>1, <2>2, PlaceIfNoneGood
  <2> HIDE DEF placed
  <2>4. Good(bids) /\ Ready(bids)
    BY <2>1, <2>3, ReplaceGood
  <2> HIDE DEF bids
  <2>5. Good(replaceOrderIfPriceChanged(bids, "Sell"))
    BY <2>1, <2>4, ReplaceGood
  <2> QED
    BY <1>2, <2>5 DEF Requote, bids, placed, buy
<1> QED
  BY <1>1, <1>2

-----------------------------------------------------------------------------
(* What every step has to establish of the robot and of what it sends.     *)
RobotInv ==
  /\ BotTypeOK
  /\ SlotInv
  /\ MarketKnown
  /\ toExchange \in Seq(Request)

LEMMA RobotInvGood ==
  ASSUME RobotInv
  PROVE  Good(bot) /\ bot.sent = <<>>
<1>1. <<>> \in Seq(Request)
  OBVIOUS
<1>2. bot \in BotRecord /\ bot.sent = <<>>
  BY <1>1 DEF RobotInv, BotTypeOK, BotRecord
<1> QED
  BY <1>2 DEF RobotInv, SlotInv, MarketKnown, Good

LEMMA FinishRobotInv ==
  ASSUME NEW b, Good(b), toExchange \in Seq(Request), Finish(b)
  PROVE  RobotInv'
<1> DEFINE done == Requote(b)
<1>1. Good(done)
  BY RequoteGood
<1>2. bot' = [done EXCEPT !.sent = <<>>] /\ toExchange' = toExchange \o done.sent
  BY DEF Finish
<1> HIDE DEF done
<1>3. done \in BotRecord
  BY <1>1 DEF Good
<1>4. BotTypeOK'
  BY <1>2, <1>3 DEF BotTypeOK, BotRecord
<1>5. /\ bot'.orderReqMap = done.orderReqMap
      /\ bot'.isOrderPlaced = done.isOrderPlaced
      /\ bot'.ordersMap = done.ordersMap
      /\ bot'.minPriceIncrement = done.minPriceIncrement
      /\ bot'.bestBuyPrice = done.bestBuyPrice
      /\ bot'.bestSellPrice = done.bestSellPrice
      /\ bot'.positionSize = done.positionSize
  BY <1>2, <1>3 DEF BotRecord
<1>6. \A d \in Side : SlotOK(bot', d)
  <2>1. \A d \in Side : SlotOK(bot', d) <=> SlotOK(done, d)
    BY <1>5 DEF SlotOK, PendingIn, KnownIn
  <2> QED
    BY <1>1, <2>1 DEF Good
<1>7. \A d \in Side : bot'.isOrderPlaced[d] => Ready(bot')
  BY <1>1, <1>5 DEF Good, Ready
<1>8. toExchange' \in Seq(Request)
  BY <1>2, <1>3, ConcatProperties DEF BotRecord
<1> QED
  BY <1>4, <1>6, <1>7, <1>8 DEF RobotInv, SlotInv, MarketKnown

(* A handler that leaves the orders alone and forgets nothing it needs for *)
(* a price keeps the state good.                                           *)
LEMMA OtherDataGood ==
  ASSUME NEW b, Good(b), NEW c \in BotRecord,
         c.orderReqMap = b.orderReqMap, c.isOrderPlaced = b.isOrderPlaced,
         c.ordersMap = b.ordersMap, Ready(b) => Ready(c)
  PROVE  Good(c)
<1>1. \A d \in Side : SlotOK(c, d) <=> SlotOK(b, d)
  BY DEF SlotOK, PendingIn, KnownIn
<1> QED
  BY <1>1 DEF Good

-----------------------------------------------------------------------------
(* What the handlers do to the state they find, apart from the tail.       *)

SameMarket(b, c) ==
  /\ c.minPriceIncrement = b.minPriceIncrement
  /\ c.bestBuyPrice = b.bestBuyPrice
  /\ c.bestSellPrice = b.bestSellPrice
  /\ c.positionSize = b.positionSize

SameOrders(b, c) ==
  /\ c.orderReqMap = b.orderReqMap
  /\ c.isOrderPlaced = b.isOrderPlaced
  /\ c.ordersMap = b.ordersMap

(* News about no order, with perhaps some subscriptions sent.              *)
News(b, c) ==
  /\ SameOrders(b, c)
  /\ Ready(b) => Ready(c)
  /\ b.positionSize # None => c.positionSize = b.positionSize
  /\ \A k \in DOMAIN c.sent : c.sent[k].type # "placeOrder"

(* News that is not about the position either, and a first snapshot of it. *)
Unmoved(b, c) == News(b, c) /\ c.positionSize = b.positionSize

Adopts(b, c, m) ==
  /\ News(b, c)
  /\ b.positionSize = None
       => c.positionSize = IF m.size = None THEN 0 ELSE m.size

(* The request m answers is forgotten, the rest of the requests kept.      *)
Forgets(b, c, id) ==
  /\ \A i \in ReqIds : c.orderReqMap[i] = IF i = id THEN None ELSE b.orderReqMap[i]
  /\ SameMarket(b, c)
  /\ c.sent = <<>>

(* What an update leaves of an order when `remaining' of it remains.       *)
Reduced(order, left, remaining) ==
  IF remaining = 0 THEN left = None
  ELSE /\ left # None
       /\ left.quantity = remaining
       /\ left.price = order.price
       /\ left.isReplaceOrder = order.isReplaceOrder

(* Only what side d has of order o, its flag included, may be different.   *)
ElsewhereSame(b, c, d, o) ==
  /\ \A e \in Side, x \in OrderIds :
       ~(e = d /\ x = o) => c.ordersMap[e][x] = b.ordersMap[e][x]
  /\ \A e \in Side \ {d} : c.isOrderPlaced[e] = b.isOrderPlaced[e]

LEMMA PlaceOrderMarket ==
  ASSUME NEW b \in BotRecord, NEW d \in Side, NEW quantity
  PROVE  SameMarket(b, placeOrder(b, d, quantity))
BY DEF placeOrder, BotRecord, SameMarket

-----------------------------------------------------------------------------
(* The handlers.                                                           *)

LEMMA ConnectHandlerGood ==
  ASSUME RobotInv, NEW isOk \in BOOLEAN, connectHandler(isOk)
  PROVE  \E c : Good(c) /\ Finish(c) /\ Unmoved(bot, c)
<1> DEFINE sent == IF isOk THEN << SubscribeRequest("instruments"),
                                   SubscribeRequest("orders"),
                                   SubscribeRequest("orderbook"),
                                   SubscribeRequest("positions") >>
                           ELSE <<>>
           c == [bot EXCEPT !.sent = sent]
<1>1. \A x \in Channel : SubscribeRequest(x) \in Request
  BY DEF SubscribeRequest, Request
<1>2. sent \in Seq(Request)
  BY <1>1 DEF Channel
<1>3. \A k \in DOMAIN sent : sent[k].type # "placeOrder"
  BY DEF SubscribeRequest
<1> HIDE DEF sent
<1>4. Good(bot)
  BY RobotInvGood
<1>5. Good(c)
  BY <1>2, <1>4, OtherDataGood DEF BotRecord, Good, Ready
<1>6. Unmoved(bot, c)
  BY <1>3, <1>4 DEF Unmoved, News, SameOrders, Ready, Good, BotRecord
<1> QED
  BY <1>5, <1>6 DEF connectHandler, sent

LEMMA InstrumentsGood ==
  ASSUME RobotInv,
         NEW increment \in Increments, InstrumentsMessage(increment)
  PROVE  \E c : Good(c) /\ Finish(c) /\ Unmoved(bot, c)
<1> DEFINE c == [bot EXCEPT !.minPriceIncrement = increment]
<1>1. Good(bot) /\ bot \in BotRecord /\ bot.sent = <<>>
  BY RobotInvGood DEF Good
<1>2. increment \in Nat \ {0}
  BY MarketAssumption
<1>3. c \in BotRecord
  BY <1>1, <1>2 DEF BotRecord
<1>4. /\ c.minPriceIncrement = increment
      /\ c.orderReqMap = bot.orderReqMap /\ c.isOrderPlaced = bot.isOrderPlaced
      /\ c.ordersMap = bot.ordersMap
      /\ c.bestBuyPrice = bot.bestBuyPrice
      /\ c.bestSellPrice = bot.bestSellPrice
      /\ c.positionSize = bot.positionSize
      /\ c.sent = <<>>
  BY <1>1 DEF BotRecord
<1> HIDE DEF c
<1>5. Ready(bot) => Ready(c)
  BY <1>2, <1>4 DEF Ready
<1>6. Good(c)
  BY <1>1, <1>3, <1>4, <1>5, OtherDataGood
<1>7. Unmoved(bot, c)
  BY <1>4, <1>5 DEF Unmoved, News, SameOrders
<1>8. Finish(c)
  BY DEF InstrumentsMessage, c
<1> QED
  BY <1>6, <1>7, <1>8

LEMMA OrderBookGood ==
  ASSUME RobotInv, NEW u \in BookUpdates, OrderBookMessage(u.bid, u.ask)
  PROVE  \E c : Good(c) /\ Finish(c) /\ Unmoved(bot, c)
<1>1. Good(bot) /\ bot \in BotRecord /\ bot.sent = <<>>
  BY RobotInvGood DEF Good
<1>2. \A levels \in SUBSET Int, items \in Seq([price : Int, quantity : Nat]) :
        ApplyItems(levels, items) \in SUBSET Int
  <2> SUFFICES ASSUME NEW levels \in SUBSET Int,
                      NEW items \in Seq([price : Int, quantity : Nat])
               PROVE  ApplyItems(levels, items) \subseteq Int
    OBVIOUS
  <2> DEFINE Item == [price : Int, quantity : Nat]
  <2>1. \A item \in Item : item.price \in Int
    OBVIOUS
  <2> HIDE DEF Item
  <2>2. items \in Seq(Item)
    BY DEF Item
  <2>3. DOMAIN items = 1..Len(items) /\ items \in [1..Len(items) -> Item]
    BY <2>2, LenProperties
  <2>4. {items[i].price : i \in DOMAIN items} \subseteq Int
    BY <2>1, <2>3
  <2> QED
    BY <2>4 DEF ApplyItems
<1> DEFINE bid == ApplyItems(bot.orderBookBid, u.bid)
           ask == ApplyItems(bot.orderBookAsk, u.ask)
<1>3. bid \in SUBSET Int /\ ask \in SUBSET Int
  BY <1>1, <1>2, MarketAssumption DEF BotRecord
<1> HIDE DEF bid, ask
<1>4. PICK buy \in Highest(bid, bot.bestBuyPrice),
           sell \in Lowest(ask, bot.bestSellPrice) :
        Finish([bot EXCEPT !.orderBookBid = bid, !.orderBookAsk = ask,
                           !.bestBuyPrice = buy, !.bestSellPrice = sell])
  BY DEF OrderBookMessage, bid, ask
<1> DEFINE c == [bot EXCEPT !.orderBookBid = bid, !.orderBookAsk = ask,
                            !.bestBuyPrice = buy, !.bestSellPrice = sell]
<1>5. /\ buy \in Int \/ buy = bot.bestBuyPrice
      /\ sell \in Int \/ sell = bot.bestSellPrice
  BY <1>3 DEF Highest, Lowest
<1>6. c \in BotRecord
  BY <1>1, <1>3, <1>5 DEF BotRecord
<1>7. Ready(bot) => Ready(c)
  BY <1>1, <1>5 DEF BotRecord, Ready
<1>8. /\ c.orderReqMap = bot.orderReqMap /\ c.isOrderPlaced = bot.isOrderPlaced
      /\ c.ordersMap = bot.ordersMap
      /\ c.positionSize = bot.positionSize /\ c.sent = <<>>
  BY <1>1 DEF BotRecord
<1> HIDE DEF c
<1>9. Good(c)
  BY <1>1, <1>6, <1>7, <1>8, OtherDataGood
<1>10. Unmoved(bot, c)
  BY <1>7, <1>8 DEF Unmoved, News, SameOrders
<1>11. Finish(c)
  BY <1>4 DEF c
<1> QED
  BY <1>9, <1>10, <1>11

LEMMA PositionsGood ==
  ASSUME RobotInv, NEW m \in Message, PositionsMessage(m)
  PROVE  \E c : Good(c) /\ Finish(c) /\ Adopts(bot, c, m)
<1> DEFINE size == IF bot.positionSize # None THEN bot.positionSize
                   ELSE IF m.size = None THEN 0 ELSE m.size
<1>1. Good(bot) /\ bot \in BotRecord /\ bot.sent = <<>>
  BY RobotInvGood DEF Good
<1>2. m.size \in Int \cup {None}
  BY DEF PositionsMessage, Message
<1>3. size \in Int
  BY <1>1, <1>2 DEF BotRecord
<1>4. IF bot.positionSize # None THEN size = bot.positionSize
      ELSE size = IF m.size = None THEN 0 ELSE m.size
  OBVIOUS
<1> HIDE DEF size
<1> DEFINE c == [bot EXCEPT !.positionSize = size]
<1>5. Good(c)
  BY <1>1, <1>3, OtherDataGood DEF BotRecord, Ready
<1>6. Finish(c)
  BY <1>1 DEF PositionsMessage, BotRecord, size
<1>7. Adopts(bot, c, m)
  BY <1>1, <1>3, <1>4 DEF Adopts, News, SameOrders, Ready, BotRecord
<1> QED
  BY <1>5, <1>6, <1>7

(* The state c after the answer m to a placement, in state b: a refusal,   *)
(* or the id of the order.                                                 *)
Refuses(b, c, m) ==
  LET d == b.orderReqMap[m.id].direction
  IN  /\ m.id \in ReqIds /\ d \in Side /\ ~m.isOk /\ m.type = "placeOrder"
      /\ PendingIn(b, d) = {m.id} /\ KnownIn(b, d) = {}
      /\ Forgets(b, c, m.id)
      /\ c.ordersMap = b.ordersMap
      /\ ~c.isOrderPlaced[d]
      /\ \A e \in Side \ {d} : c.isOrderPlaced[e] = b.isOrderPlaced[e]

Confirms(b, c, m) ==
  LET req == b.orderReqMap[m.id]
      d   == req.direction
  IN  /\ m.id \in ReqIds /\ d \in Side /\ m.orderId \in OrderIds
      /\ req \in OrderReq /\ m.type = "placeOrder"
      /\ PendingIn(b, d) = {m.id} /\ KnownIn(b, d) = {}
      /\ Forgets(b, c, m.id)
      /\ c.isOrderPlaced = b.isOrderPlaced
      /\ ElsewhereSame(b, c, d, m.orderId)
      /\ c.ordersMap[d][m.orderId] = req

LEMMA RejectedGood ==
  ASSUME RobotInv, NEW m \in Message, PlaceOrderRejected(m)
  PROVE  \E c : Good(c) /\ Finish(c) /\ Refuses(bot, c, m)
<1> DEFINE req == bot.orderReqMap[m.id]
           d == req.direction
           c == [bot EXCEPT !.isOrderPlaced = [@ EXCEPT ![d] = FALSE],
                            !.orderReqMap = [@ EXCEPT ![m.id] = None]]
<1>1. Good(bot) /\ bot \in BotRecord /\ bot.sent = <<>>
  BY RobotInvGood DEF Good
<1>2. m.id \in ReqIds
  BY DEF PlaceOrderRejected, Message
<1>3. req # None /\ req \in OrderReq
  BY <1>1, <1>2 DEF PlaceOrderRejected, BotRecord
<1>4. d \in Side
  BY <1>3 DEF OrderReq
<1>5. Finish(c)
  BY <1>1 DEF PlaceOrderRejected, BotRecord
<1>6. PendingIn(bot, d) = {m.id} /\ KnownIn(bot, d) = {}
  <2>1. m.id \in PendingIn(bot, d)
    BY <1>2, <1>3 DEF PendingIn
  <2>2. SlotOK(bot, d)
    BY <1>1, <1>4 DEF Good
  <2> QED
    BY <2>1, <2>2 DEF SlotOK
<1>7. c \in BotRecord
  BY <1>1, <1>2, <1>4 DEF BotRecord
<1>8. /\ c.orderReqMap = [bot.orderReqMap EXCEPT ![m.id] = None]
      /\ c.isOrderPlaced = [bot.isOrderPlaced EXCEPT ![d] = FALSE]
      /\ c.ordersMap = bot.ordersMap
      /\ SameMarket(bot, c) /\ c.sent = <<>>
      /\ Ready(c) <=> Ready(bot)
  BY <1>1 DEF BotRecord, Ready, SameMarket
<1> HIDE DEF c, d, req
<1>9. PendingIn(c, d) = {} /\ KnownIn(c, d) = {}
  BY <1>1, <1>2, <1>6, <1>8 DEF PendingIn, KnownIn, BotRecord
<1>10. SlotOK(c, d) /\ ~c.isOrderPlaced[d]
  BY <1>1, <1>4, <1>8, <1>9 DEF SlotOK, BotRecord
<1>11. ASSUME NEW e \in Side \ {d}
       PROVE  SlotOK(c, e) /\ c.isOrderPlaced[e] = bot.isOrderPlaced[e]
  <2>1. c.isOrderPlaced[e] = bot.isOrderPlaced[e]
    BY <1>1, <1>8 DEF BotRecord
  <2>2. KnownIn(c, e) = KnownIn(bot, e)
    BY <1>8 DEF KnownIn
  <2>3. bot.orderReqMap[m.id].direction = d
    BY DEF d, req
  <2>4. PendingIn(c, e) = PendingIn(bot, e)
    BY <1>1, <1>2, <1>8, <2>3 DEF PendingIn, BotRecord
  <2>5. SlotOK(bot, e)
    BY <1>1 DEF Good
  <2> QED
    BY <2>1, <2>2, <2>4, <2>5 DEF SlotOK
<1>12. Good(c)
  BY <1>1, <1>7, <1>8, <1>10, <1>11 DEF Good
<1>13. Forgets(bot, c, m.id)
  BY <1>1, <1>8 DEF Forgets, BotRecord
<1>14. Good(c) /\ Finish(c) /\ Forgets(bot, c, m.id) /\ c.ordersMap = bot.ordersMap
  BY <1>5, <1>8, <1>12, <1>13
<1>15. Refuses(bot, c, m)
  BY <1>2, <1>4, <1>6, <1>10, <1>11, <1>14 DEF Refuses, PlaceOrderRejected, d, req
<1> QED
  BY <1>14, <1>15

LEMMA AcceptedGood ==
  ASSUME RobotInv, NEW m \in Message, PlaceOrderAccepted(m)
  PROVE  \E c : Good(c) /\ Finish(c) /\ Confirms(bot, c, m)
<1> DEFINE req == bot.orderReqMap[m.id]
           d == req.direction
           orders == [bot.ordersMap[d] EXCEPT ![m.orderId] = req]
           c == [bot EXCEPT !.ordersMap = [@ EXCEPT ![d] = orders],
                            !.orderReqMap = [@ EXCEPT ![m.id] = None]]
<1>1. Good(bot) /\ bot \in BotRecord /\ bot.sent = <<>>
  BY RobotInvGood DEF Good
<1>2. m.id \in ReqIds /\ m.orderId \in OrderIds
  BY DEF PlaceOrderAccepted, Message
<1>3. req # None /\ req \in OrderReq
  BY <1>1, <1>2 DEF PlaceOrderAccepted, BotRecord
<1>4. d \in Side
  BY <1>3 DEF OrderReq
<1>5. Finish(c)
  BY <1>1, <1>4 DEF PlaceOrderAccepted, BotRecord
<1>6. PendingIn(bot, d) = {m.id} /\ KnownIn(bot, d) = {} /\ bot.isOrderPlaced[d]
  <2>1. m.id \in PendingIn(bot, d)
    BY <1>2, <1>3 DEF PendingIn
  <2>2. SlotOK(bot, d)
    BY <1>1, <1>4 DEF Good
  <2> QED
    BY <2>1, <2>2 DEF SlotOK
<1>7. orders \in [OrderIds -> OrderReq \cup {None}]
  BY <1>1, <1>3, <1>4 DEF BotRecord
<1>8. c \in BotRecord
  BY <1>1, <1>2, <1>4, <1>7 DEF BotRecord
<1>9. /\ c.orderReqMap = [bot.orderReqMap EXCEPT ![m.id] = None]
      /\ c.isOrderPlaced = bot.isOrderPlaced
      /\ c.ordersMap = [bot.ordersMap EXCEPT ![d] = orders]
      /\ SameMarket(bot, c) /\ c.sent = <<>>
      /\ Ready(c) <=> Ready(bot)
  BY <1>1 DEF BotRecord, Ready, SameMarket
<1>10. \A o \in OrderIds :
         orders[o] = IF o = m.orderId THEN req ELSE bot.ordersMap[d][o]
  BY <1>1, <1>4 DEF BotRecord
<1>11. bot.orderReqMap[m.id].direction = d
  OBVIOUS
<1> HIDE DEF c, d, req, orders
<1>12. PendingIn(c, d) = {}
  BY <1>1, <1>2, <1>6, <1>9 DEF PendingIn, BotRecord
<1>13. KnownIn(c, d) = {m.orderId}
  BY <1>1, <1>2, <1>3, <1>4, <1>6, <1>9, <1>10 DEF KnownIn, BotRecord
<1>14. SlotOK(c, d)
  BY <1>2, <1>6, <1>9, <1>12, <1>13 DEF SlotOK
<1>15. ASSUME NEW e \in Side \ {d}
       PROVE  SlotOK(c, e)
  <2>1. KnownIn(c, e) = KnownIn(bot, e)
    BY <1>1, <1>9 DEF KnownIn, BotRecord
  <2>2. PendingIn(c, e) = PendingIn(bot, e)
    BY <1>1, <1>2, <1>9, <1>11 DEF PendingIn, BotRecord
  <2>3. SlotOK(bot, e)
    BY <1>1 DEF Good
  <2> QED
    BY <1>9, <2>1, <2>2, <2>3 DEF SlotOK
<1>16. Good(c)
  BY <1>1, <1>8, <1>9, <1>14, <1>15 DEF Good
<1>17. Forgets(bot, c, m.id)
  BY <1>1, <1>9 DEF Forgets, BotRecord
<1>18. \A e \in Side : c.ordersMap[e] = IF e = d THEN orders ELSE bot.ordersMap[e]
  BY <1>1, <1>4, <1>9 DEF BotRecord
<1>19. ElsewhereSame(bot, c, d, m.orderId)
  BY <1>4, <1>9, <1>10, <1>18 DEF ElsewhereSame
<1>20. c.ordersMap[d][m.orderId] = req
  BY <1>2, <1>4, <1>10, <1>18
<1>21. Confirms(bot, c, m)
  BY <1>2, <1>3, <1>4, <1>6, <1>9, <1>17, <1>19, <1>20
     DEF Confirms, PlaceOrderAccepted, d, req
<1> QED
  BY <1>5, <1>16, <1>21

(* What an order update says, and the state an update about an order the   *)
(* robot knows finds.                                                      *)
LEMMA UpdateFields ==
  ASSUME NEW m \in Message, m.type = "orders"
  PROVE  /\ m.direction \in Side
         /\ m.orderId \in OrderIds
         /\ m.remaining \in 0..Quantity
BY DEF Message

LEMMA KnownOrder ==
  ASSUME NEW b, Good(b), NEW d \in Side, NEW o \in OrderIds,
         b.ordersMap[d][o] # None
  PROVE  /\ b.ordersMap[d][o] \in OrderReq
         /\ PendingIn(b, d) = {} /\ KnownIn(b, d) = {o}
         /\ b.isOrderPlaced[d]
         /\ Ready(b)
         /\ b.positionSize \in Int
<1>1. b \in BotRecord
  BY DEF Good
<1>2. b.ordersMap[d][o] \in OrderReq
  BY <1>1 DEF BotRecord
<1>3. o \in KnownIn(b, d)
  BY DEF KnownIn
<1>4. PendingIn(b, d) = {} /\ KnownIn(b, d) = {o} /\ b.isOrderPlaced[d]
  BY <1>3 DEF Good, SlotOK
<1>5. Ready(b)
  BY <1>4 DEF Good
<1>6. b.positionSize \in Int
  BY <1>1, <1>5 DEF Ready, BotRecord
<1> QED
  BY <1>2, <1>4, <1>5, <1>6

(* The state c after the update m about an order known in state b: an      *)
(* execution, or a cancellation.                                           *)
Executes(b, c, m) ==
  LET d == m.direction
      o == m.orderId
      order == b.ordersMap[d][o]
  IN  /\ d \in Side /\ o \in OrderIds /\ order # None
      /\ Ready(c)
      /\ c.orderReqMap = b.orderReqMap
      /\ ElsewhereSame(b, c, d, o)
      /\ c.isOrderPlaced[d] <=> m.remaining # 0
      /\ Reduced(order, c.ordersMap[d][o], m.remaining)
      /\ c.positionSize = IF d = "Buy"
                          THEN b.positionSize + (order.quantity - m.remaining)
                          ELSE b.positionSize - (order.quantity - m.remaining)
      /\ c.sent = <<>>

Withdraws(b, c, m) ==
  LET d == m.direction
      o == m.orderId
      order == b.ordersMap[d][o]
      p == placeOrder(b, d, order.quantity)
  IN  /\ d \in Side /\ o \in OrderIds /\ order # None
      /\ SameMarket(b, c)
      /\ ElsewhereSame(b, c, d, o) /\ c.ordersMap[d][o] = None
      /\ c.isOrderPlaced[d] <=> order.isReplaceOrder
      /\ c.orderReqMap = IF order.isReplaceOrder THEN p.orderReqMap
                                                 ELSE b.orderReqMap
      /\ c.sent = IF order.isReplaceOrder THEN p.sent ELSE <<>>

LEMMA FilledGood ==
  ASSUME RobotInv, NEW m \in Message, OrderFilled(m)
  PROVE  \E c : Good(c) /\ Finish(c) /\ Executes(bot, c, m)
<1> DEFINE d == m.direction
           o == m.orderId
           order == bot.ordersMap[d][o]
           filled == order.quantity - m.remaining
           size == IF d = "Buy" THEN bot.positionSize + filled
                                ELSE bot.positionSize - filled
           left == IF m.remaining = 0 THEN None
                   ELSE [order EXCEPT !.quantity = m.remaining]
           orders == [bot.ordersMap[d] EXCEPT ![o] = left]
           flags == [bot.isOrderPlaced EXCEPT ![d] = @ /\ m.remaining # 0]
           c == [bot EXCEPT !.positionSize = size,
                            !.ordersMap = [@ EXCEPT ![d] = orders],
                            !.isOrderPlaced = flags]
<1>1. Good(bot) /\ bot \in BotRecord /\ bot.sent = <<>>
  BY RobotInvGood DEF Good
<1>2. d \in Side /\ o \in OrderIds /\ m.remaining \in 0..Quantity
  BY UpdateFields DEF OrderFilled
<1>3. order # None
  BY DEF OrderFilled, Knows
<1>4. /\ order \in OrderReq
      /\ PendingIn(bot, d) = {} /\ KnownIn(bot, d) = {o}
      /\ bot.isOrderPlaced[d] /\ Ready(bot) /\ bot.positionSize \in Int
  BY <1>1, <1>2, <1>3, KnownOrder
<1>5. Finish(c)
  BY <1>1, <1>2 DEF OrderFilled, AfterFill, BotRecord
<1>6. /\ left \in OrderReq \cup {None}
      /\ left = None <=> m.remaining = 0
      /\ Reduced(order, left, m.remaining)
  <2>1. CASE m.remaining # 0
    <3>1. m.remaining \in 1..Quantity
      BY <1>2, <2>1
    <3> HIDE DEF order
    <3>2. [order EXCEPT !.quantity = m.remaining] \in OrderReq
      BY <1>4, <3>1 DEF OrderReq
    <3>3. [order EXCEPT !.quantity = m.remaining] # None
      BY <3>2, NoOrderReqAssumption
    <3>4. /\ [order EXCEPT !.quantity = m.remaining].quantity = m.remaining
          /\ [order EXCEPT !.quantity = m.remaining].price = order.price
          /\ [order EXCEPT !.quantity = m.remaining].isReplaceOrder
               = order.isReplaceOrder
      BY <1>4 DEF OrderReq
    <3> QED
      BY <2>1, <3>2, <3>3, <3>4 DEF Reduced
  <2>2. CASE m.remaining = 0
    BY <2>2 DEF Reduced
  <2> QED
    BY <2>1, <2>2
<1>7. orders \in [OrderIds -> OrderReq \cup {None}]
  BY <1>1, <1>2, <1>6 DEF BotRecord
<1>8. size \in Int
  <2>1. /\ order.quantity \in Int /\ m.remaining \in Int
        /\ bot.positionSize \in Int
    BY <1>2, <1>4 DEF OrderReq
  <2> HIDE DEF order
  <2> QED
    BY <2>1
<1>9. flags \in [Side -> BOOLEAN]
  BY <1>1, <1>2 DEF BotRecord
<1>10. \A x \in OrderIds : orders[x] = IF x = o THEN left ELSE bot.ordersMap[d][x]
  BY <1>1, <1>2 DEF BotRecord
<1>11. flags[d] <=> m.remaining # 0
  BY <1>1, <1>2, <1>4 DEF BotRecord
<1>12. \A e \in Side \ {d} : flags[e] = bot.isOrderPlaced[e]
  BY <1>1, <1>2 DEF BotRecord
<1> HIDE DEF c, flags, orders, left, size, filled, order
<1>13. c = [bot EXCEPT !.positionSize = size,
                       !.ordersMap = [@ EXCEPT ![d] = orders],
                       !.isOrderPlaced = flags]
  BY DEF c
<1>14. c \in BotRecord
  BY <1>1, <1>2, <1>7, <1>8, <1>9, <1>13 DEF BotRecord
<1>15. /\ c.orderReqMap = bot.orderReqMap
       /\ c.isOrderPlaced = flags
       /\ c.ordersMap = [bot.ordersMap EXCEPT ![d] = orders]
       /\ c.minPriceIncrement = bot.minPriceIncrement
       /\ c.bestBuyPrice = bot.bestBuyPrice
       /\ c.bestSellPrice = bot.bestSellPrice
       /\ c.positionSize = size /\ c.sent = <<>>
  BY <1>1, <1>13 DEF BotRecord
<1>16. Ready(c)
  BY <1>4, <1>8, <1>15 DEF Ready
<1>17. \A e \in Side : PendingIn(c, e) = PendingIn(bot, e)
  BY <1>15 DEF PendingIn
<1>18. KnownIn(c, d) = IF m.remaining = 0 THEN {} ELSE {o}
  BY <1>1, <1>2, <1>4, <1>6, <1>10, <1>15 DEF KnownIn, BotRecord
<1>19. SlotOK(c, d)
  BY <1>2, <1>4, <1>11, <1>15, <1>17, <1>18 DEF SlotOK
<1>20. ASSUME NEW e \in Side \ {d}
       PROVE  SlotOK(c, e)
  <2>1. KnownIn(c, e) = KnownIn(bot, e)
    BY <1>1, <1>15 DEF KnownIn, BotRecord
  <2>2. SlotOK(bot, e)
    BY <1>1 DEF Good
  <2> QED
    BY <1>12, <1>15, <1>17, <2>1, <2>2 DEF SlotOK
<1>21. Good(c)
  BY <1>14, <1>16, <1>19, <1>20 DEF Good
<1>22. \A e \in Side : c.ordersMap[e] = IF e = d THEN orders ELSE bot.ordersMap[e]
  BY <1>1, <1>2, <1>15 DEF BotRecord
<1>23. ElsewhereSame(bot, c, d, o) /\ c.ordersMap[d][o] = left
  BY <1>2, <1>10, <1>12, <1>15, <1>22 DEF ElsewhereSame
<1>24. c.isOrderPlaced[d] <=> m.remaining # 0
  BY <1>11, <1>15
<1>25. Reduced(order, c.ordersMap[d][o], m.remaining)
  BY <1>6, <1>23
<1>26. c.positionSize = IF d = "Buy"
                       THEN bot.positionSize + (order.quantity - m.remaining)
                       ELSE bot.positionSize - (order.quantity - m.remaining)
  BY <1>15 DEF size, filled
<1>27. /\ Good(c) /\ Finish(c) /\ Ready(c)
       /\ c.orderReqMap = bot.orderReqMap /\ c.sent = <<>>
  BY <1>5, <1>15, <1>16, <1>21
<1>28. Executes(bot, c, m)
  BY <1>2, <1>3, <1>23, <1>24, <1>25, <1>26, <1>27 DEF order, Executes
<1> QED
  BY <1>27, <1>28

(* Erasing a side's order from the map leaves a good state when the flag   *)
(* has been brought up to date: cleared, or raised for a new request.      *)
Erased(b, n, c, d, o) ==
  /\ ElsewhereSame(b, c, d, o) /\ c.ordersMap[d][o] = None
  /\ c.orderReqMap = n.orderReqMap /\ c.isOrderPlaced = n.isOrderPlaced
  /\ SameMarket(n, c) /\ c.sent = n.sent

LEMMA EraseGood ==
  ASSUME NEW b, Good(b), NEW d \in Side, NEW o \in OrderIds,
         b.ordersMap[d][o] # None,
         NEW n \in BotRecord, Ready(n), n.ordersMap = b.ordersMap,
         \A e \in Side \ {d} : /\ PendingIn(n, e) = PendingIn(b, e)
                              /\ n.isOrderPlaced[e] = b.isOrderPlaced[e],
         \/ n.isOrderPlaced[d] /\ \E i \in ReqIds : PendingIn(n, d) = {i}
         \/ ~n.isOrderPlaced[d] /\ PendingIn(n, d) = {},
         NEW orders, orders = [n.ordersMap[d] EXCEPT ![o] = None],
         NEW c, c = [n EXCEPT !.ordersMap = [@ EXCEPT ![d] = orders]]
  PROVE  Good(c) /\ Erased(b, n, c, d, o)
<1>1. KnownIn(b, d) = {o}
  BY KnownOrder
<1>2. orders \in [OrderIds -> OrderReq \cup {None}]
  BY DEF BotRecord
<1>3. \A x \in OrderIds : orders[x] = IF x = o THEN None ELSE b.ordersMap[d][x]
  BY DEF BotRecord
<1>5. c \in BotRecord
  BY <1>2 DEF BotRecord
<1>6. /\ c.orderReqMap = n.orderReqMap /\ c.isOrderPlaced = n.isOrderPlaced
      /\ c.ordersMap = [n.ordersMap EXCEPT ![d] = orders]
      /\ Ready(c) <=> Ready(n)
      /\ SameMarket(n, c) /\ c.sent = n.sent
  BY DEF BotRecord, Ready, SameMarket
<1>7. \A e \in Side : PendingIn(c, e) = PendingIn(n, e)
  BY <1>6 DEF PendingIn
<1>8. KnownIn(c, d) = {}
  <2>1. c.ordersMap[d] = orders
    BY <1>6 DEF BotRecord
  <2>2. \A x \in OrderIds \ {o} : b.ordersMap[d][x] = None
    BY <1>1 DEF KnownIn
  <2> QED
    BY <1>3, <2>1, <2>2 DEF KnownIn
<1>9. SlotOK(c, d)
  BY <1>6, <1>7, <1>8 DEF SlotOK
<1>10. ASSUME NEW e \in Side \ {d}
       PROVE  SlotOK(c, e)
  <2>1. c.ordersMap[e] = b.ordersMap[e]
    BY <1>6 DEF BotRecord
  <2>2. KnownIn(c, e) = KnownIn(b, e)
    BY <2>1 DEF KnownIn
  <2>3. PendingIn(c, e) = PendingIn(b, e) /\ c.isOrderPlaced[e] = b.isOrderPlaced[e]
    BY <1>6, <1>7
  <2>4. SlotOK(b, e)
    BY DEF Good
  <2> QED
    BY <2>2, <2>3, <2>4 DEF SlotOK
<1>11. Good(c)
  BY <1>5, <1>6, <1>9, <1>10 DEF Good
<1>12. \A e \in Side : c.ordersMap[e] = IF e = d THEN orders ELSE b.ordersMap[e]
  BY <1>6 DEF BotRecord
<1>13. ElsewhereSame(b, c, d, o) /\ c.ordersMap[d][o] = None
  BY <1>3, <1>6, <1>12 DEF ElsewhereSame
<1> QED
  BY <1>6, <1>11, <1>13 DEF Erased

LEMMA CancelledGood ==
  ASSUME RobotInv, NEW m \in Message, OrderCancelled(m)
  PROVE  \E c : Good(c) /\ Finish(c) /\ Withdraws(bot, c, m)
<1> DEFINE d == m.direction
           o == m.orderId
           order == bot.ordersMap[d][o]
           isNext == order.isReplaceOrder
           next == IF isNext THEN placeOrder(bot, d, order.quantity)
                   ELSE [bot EXCEPT !.isOrderPlaced = [@ EXCEPT ![d] = FALSE]]
           orders == [next.ordersMap[d] EXCEPT ![o] = None]
           c == [next EXCEPT !.ordersMap = [@ EXCEPT ![d] = orders]]
<1>1. Good(bot) /\ bot \in BotRecord /\ bot.sent = <<>>
  BY RobotInvGood DEF Good
<1>2. d \in Side /\ o \in OrderIds
  BY UpdateFields DEF OrderCancelled
<1>3. order # None
  BY DEF OrderCancelled, Knows
<1>4. PendingIn(bot, d) = {} /\ Ready(bot) /\ \A e \in Side : SlotOK(bot, e)
  BY <1>1, <1>2, <1>3, KnownOrder DEF Good
<1>5. order.quantity > 0
  BY <1>1, <1>2, <1>3, KnownOrder DEF OrderReq
<1>6. AfterCancel(bot, m) = c
  <2>1. next \in BotRecord
    <3>1. CASE isNext
      <4>1. Places(bot, placeOrder(bot, d, order.quantity), d)
        BY <1>1, <1>2, <1>4, PlaceOrderEffect
      <4> QED
        BY <3>1, <4>1 DEF Places
    <3>2. CASE ~isNext
      <4>1. [bot.isOrderPlaced EXCEPT ![d] = FALSE] \in [Side -> BOOLEAN]
        BY <1>1, <1>2 DEF BotRecord
      <4> QED
        BY <1>1, <3>2, <4>1 DEF BotRecord
    <3> QED
      BY <3>1, <3>2
  <2> QED
    BY <1>1, <1>2, <1>5, <2>1 DEF AfterCancel, BotRecord
<1>7. Finish(c)
  BY <1>6 DEF OrderCancelled
<1>8. bot.ordersMap[d][o] # None
  BY <1>3 DEF order
<1>9. orders = [next.ordersMap[d] EXCEPT ![o] = None]
  OBVIOUS
<1>10. c = [next EXCEPT !.ordersMap = [@ EXCEPT ![d] = orders]]
  OBVIOUS
<1>11. CASE isNext
  <2> DEFINE p == placeOrder(bot, d, order.quantity)
  <2>1. next = p
    BY <1>11
  <2> HIDE DEF next, orders, c, order
  <2>3. Places(bot, p, d)
    BY <1>1, <1>2, <1>4, PlaceOrderEffect
  <2>4. SameMarket(bot, p)
    BY <1>1, <1>2, PlaceOrderMarket
  <2> HIDE DEF next, orders, c, p, d, o, order
  <2>5. p.isOrderPlaced[d]
    BY <2>3 DEF Places
  <2>6. \A e \in Side \ {d} : /\ PendingIn(p, e) = PendingIn(bot, e)
                              /\ p.isOrderPlaced[e] = bot.isOrderPlaced[e]
    BY <2>3 DEF Places
  <2>7. p.isOrderPlaced[d] /\ \E i \in ReqIds : PendingIn(p, d) = {i}
    BY <2>3 DEF Places
  <2>8. p \in BotRecord /\ Ready(p) /\ p.ordersMap = bot.ordersMap
    BY <2>3 DEF Places
  <2>9. orders = [p.ordersMap[d] EXCEPT ![o] = None]
        /\ c = [p EXCEPT !.ordersMap = [@ EXCEPT ![d] = orders]]
    BY <1>9, <1>10, <2>1
  <2>10. Good(c) /\ Erased(bot, p, c, d, o)
    BY <1>1, <1>2, <1>8, <2>6, <2>7, <2>8, <2>9, EraseGood, Zenon
  <2>11. SameMarket(bot, c)
    BY <2>4, <2>10 DEF SameMarket, Erased
  <2>12. /\ c.isOrderPlaced[d] /\ c.ordersMap[d][o] = None
         /\ ElsewhereSame(bot, c, d, o)
         /\ c.orderReqMap = p.orderReqMap /\ c.sent = p.sent
    BY <2>5, <2>10 DEF Erased
  <2> QED
    BY <1>2, <1>3, <1>7, <1>11, <2>10, <2>11, <2>12
       DEF Withdraws, p, d, o, order
<1>12. CASE ~isNext
  <2> DEFINE n == [bot EXCEPT !.isOrderPlaced = [@ EXCEPT ![d] = FALSE]]
  <2>1. next = n
    BY <1>12
  <2>2. /\ n.isOrderPlaced = [bot.isOrderPlaced EXCEPT ![d] = FALSE]
        /\ n.orderReqMap = bot.orderReqMap
        /\ n.ordersMap = bot.ordersMap
        /\ Ready(n) /\ SameMarket(bot, n) /\ n.sent = <<>>
    BY <1>1, <1>4 DEF BotRecord, Ready, SameMarket
  <2>3. n \in BotRecord
    BY <1>1, <1>2 DEF BotRecord
  <2> HIDE DEF next, orders, c, n, d, o, order
  <2>4. \A e \in Side : PendingIn(n, e) = PendingIn(bot, e)
    BY <2>2 DEF PendingIn
  <2>5. /\ ~n.isOrderPlaced[d]
        /\ \A e \in Side \ {d} : n.isOrderPlaced[e] = bot.isOrderPlaced[e]
    BY <1>1, <1>2, <2>2 DEF BotRecord
  <2>6. PendingIn(n, d) = {}
    BY <1>2, <1>4, <2>4
  <2>7. \A e \in Side \ {d} : /\ PendingIn(n, e) = PendingIn(bot, e)
                              /\ n.isOrderPlaced[e] = bot.isOrderPlaced[e]
    BY <2>4, <2>5
  <2>8. ~n.isOrderPlaced[d] /\ PendingIn(n, d) = {}
    BY <2>5, <2>6
  <2>9. Ready(n) /\ n.ordersMap = bot.ordersMap
    BY <2>2
  <2>10. orders = [n.ordersMap[d] EXCEPT ![o] = None]
         /\ c = [n EXCEPT !.ordersMap = [@ EXCEPT ![d] = orders]]
    BY <1>9, <1>10, <2>1
  <2>11. Good(c) /\ Erased(bot, n, c, d, o)
    BY <1>1, <1>2, <1>8, <2>3, <2>7, <2>8, <2>9, <2>10, EraseGood, Zenon
  <2>12. SameMarket(bot, c) /\ c.orderReqMap = bot.orderReqMap /\ c.sent = <<>>
    BY <2>2, <2>11 DEF SameMarket, Erased
  <2>13. /\ ~c.isOrderPlaced[d] /\ c.ordersMap[d][o] = None
         /\ ElsewhereSame(bot, c, d, o)
    BY <2>5, <2>11 DEF Erased
  <2> QED
    BY <1>2, <1>3, <1>7, <1>12, <2>11, <2>12, <2>13
       DEF Withdraws, d, o, order
<1> QED
  BY <1>11, <1>12

(* A message that only makes the robot run the tail.                       *)
LEMMA NoNews ==
  ASSUME RobotInv
  PROVE  Good(bot) /\ Unmoved(bot, bot)
BY RobotInvGood DEF Unmoved, News, SameOrders

(* A handler that leaves a good state for the tail.                        *)
LEMMA HandlerInv ==
  ASSUME RobotInv, NEW c, Good(c), Finish(c)
  PROVE  RobotInv'
BY FinishRobotInv DEF RobotInv

-----------------------------------------------------------------------------
(* The exchange keeps its types, and sends messages of the right type.     *)
WireTypeOK ==
  /\ ExchangeTypeOK
  /\ toExchange \in Seq(Request)
  /\ toBot \in Seq(Message)

LEMMA ReceivesType ==
  ASSUME toExchange \in Seq(Request), NEW type, Receives(type)
  PROVE  /\ Head(toExchange) \in Request /\ Head(toExchange).type = type
         /\ toExchange' \in Seq(Request)
BY HeadTailProperties DEF Receives

LEMMA PublishType ==
  ASSUME toBot \in Seq(Message), NEW m \in Message, NEW channel
  PROVE  /\ Publish(channel, m) \in Seq(Message)
         /\ Append(toBot, m) \in Seq(Message)
BY AppendProperties DEF Publish

LEMMA WithdrawType ==
  ASSUME WireTypeOK, NEW o \in OrderIds, live[o] # None, Withdraw(o)
  PROVE  /\ live' \in [OrderIds -> LiveOrder \cup {None}]
         /\ toBot' \in Seq(Message)
<1>1. live[o] \in LiveOrder
  BY DEF WireTypeOK, ExchangeTypeOK
<1>2. OrderUpdate(o, live[o].direction, "Cancelled", live[o].remaining) \in Message
  <2>1. live[o].direction \in Side /\ live[o].remaining \in 0..Quantity
    BY <1>1 DEF LiveOrder
  <2> QED
    BY <2>1 DEF OrderUpdate, Message
<1>3. toBot' \in Seq(Message)
  BY <1>2, PublishType DEF Withdraw, WireTypeOK
<1>4. live' \in [OrderIds -> LiveOrder \cup {None}]
  BY DEF Withdraw, WireTypeOK, ExchangeTypeOK
<1> QED
  BY <1>3, <1>4

LEMMA SubscribeType ==
  ASSUME WireTypeOK, ProcessSubscribe
  PROVE  WireTypeOK'
<1> DEFINE r == Head(toExchange)
           m == PositionsSnapshot(IF position = 0 THEN None ELSE position)
<1>1. r \in Request /\ r.type = "subscribe" /\ toExchange' \in Seq(Request)
  BY ReceivesType DEF ProcessSubscribe, WireTypeOK
<1>2. r.channel \in Channel
  BY <1>1 DEF Request
<1>3. m \in Message
  BY DEF PositionsSnapshot, Message, WireTypeOK, ExchangeTypeOK
<1>4. Append(toBot, m) \in Seq(Message)
  BY <1>3, PublishType DEF WireTypeOK
<1>5. toBot' \in Seq(Message)
  BY <1>4 DEF ProcessSubscribe, WireTypeOK
<1> QED
  BY <1>1, <1>2, <1>5 DEF ProcessSubscribe, WireTypeOK, ExchangeTypeOK

LEMMA AcceptType ==
  ASSUME WireTypeOK, NEW o \in OrderIds, AcceptOrder(o)
  PROVE  WireTypeOK'
<1> DEFINE r == Head(toExchange)
           new == [direction |-> r.direction, price |-> r.price,
                   remaining |-> r.quantity]
           m == PlaceOrderResponse(r.id, TRUE, o)
<1>1. r \in Request /\ r.type = "placeOrder" /\ toExchange' \in Seq(Request)
  BY ReceivesType DEF AcceptOrder, WireTypeOK
<1>2. r.id \in ReqIds /\ new \in LiveOrder
  BY <1>1 DEF Request, LiveOrder
<1>3. m \in Message
  BY <1>2 DEF PlaceOrderResponse, Message
<1>4. live' \in [OrderIds -> LiveOrder \cup {None}]
  BY <1>2 DEF AcceptOrder, WireTypeOK, ExchangeTypeOK
<1>5. Append(toBot, m) \in Seq(Message)
  BY <1>3, PublishType DEF WireTypeOK
<1>6. toBot' \in Seq(Message)
  BY <1>5 DEF AcceptOrder, WireTypeOK
<1>7. [id |-> r.id, orderId |-> o] \in [id : ReqIds, orderId : OrderIds]
  BY <1>2
<1>8. owed' \subseteq [id : ReqIds, orderId : OrderIds]
  BY <1>7 DEF AcceptOrder, WireTypeOK, ExchangeTypeOK
<1> QED
  BY <1>1, <1>4, <1>6, <1>8 DEF AcceptOrder, WireTypeOK, ExchangeTypeOK

LEMMA RejectType ==
  ASSUME WireTypeOK, RejectOrder
  PROVE  WireTypeOK'
<1> DEFINE r == Head(toExchange)
           m == PlaceOrderResponse(r.id, FALSE, None)
<1>1. r \in Request /\ r.type = "placeOrder" /\ toExchange' \in Seq(Request)
  BY ReceivesType DEF RejectOrder, WireTypeOK
<1>2. r.id \in ReqIds
  BY <1>1 DEF Request
<1>3. m \in Message
  BY <1>2 DEF PlaceOrderResponse, Message
<1>4. toBot' \in Seq(Message)
  BY <1>3, PublishType DEF RejectOrder, WireTypeOK
<1> QED
  BY <1>1, <1>4 DEF RejectOrder, WireTypeOK, ExchangeTypeOK

LEMMA OwedType ==
  ASSUME WireTypeOK, SendOwedResponse
  PROVE  WireTypeOK'
<1>1. PICK a \in owed :
        /\ toBot' = Append(toBot, PlaceOrderResponse(a.id, TRUE, a.orderId))
        /\ owed' = owed \ {a}
        /\ UNCHANGED <<toExchange, subscribed, live, position>>
  BY DEF SendOwedResponse
<1>2. a.id \in ReqIds /\ a.orderId \in OrderIds
  BY DEF WireTypeOK, ExchangeTypeOK
<1>3. PlaceOrderResponse(a.id, TRUE, a.orderId) \in Message
  BY <1>2 DEF PlaceOrderResponse, Message
<1>4. toBot' \in Seq(Message)
  BY <1>1, <1>3, PublishType DEF WireTypeOK
<1> QED
  BY <1>1, <1>4 DEF WireTypeOK, ExchangeTypeOK

LEMMA CancelType ==
  ASSUME WireTypeOK, ProcessCancel
  PROVE  WireTypeOK'
<1> DEFINE r == Head(toExchange)
<1>1. r \in Request /\ r.type = "cancelOrder" /\ toExchange' \in Seq(Request)
  BY ReceivesType DEF ProcessCancel, WireTypeOK
<1>2. r.orderId \in OrderIds
  BY <1>1 DEF Request
<1>3. live' \in [OrderIds -> LiveOrder \cup {None}] /\ toBot' \in Seq(Message)
  BY <1>2, WithdrawType DEF ProcessCancel, WireTypeOK, ExchangeTypeOK
<1> QED
  BY <1>1, <1>3 DEF ProcessCancel, WireTypeOK, ExchangeTypeOK

LEMMA FillType ==
  ASSUME WireTypeOK, NEW o \in OrderIds, NEW k \in 1..Quantity, Fill(o, k)
  PROVE  WireTypeOK'
<1> DEFINE d == live[o].direction
           left == live[o].remaining - k
           status == IF left = 0 THEN "Filled" ELSE "PartiallyFilled"
           rest == IF left = 0 THEN None ELSE [live[o] EXCEPT !.remaining = left]
<1>1. live[o] \in LiveOrder
  BY DEF Fill, WireTypeOK, ExchangeTypeOK
<1>2. d \in Side /\ left \in 0..Quantity
  <2>1. d \in Side /\ live[o].remaining \in 1..Quantity
    BY <1>1 DEF LiveOrder
  <2>2. k \in 1..live[o].remaining
    BY DEF Fill
  <2> QED
    BY <2>1, <2>2
<1>3. OrderUpdate(o, d, status, left) \in Message
  BY <1>2 DEF OrderUpdate, Message
<1>4. toBot' \in Seq(Message)
  BY <1>3, PublishType DEF Fill, WireTypeOK
<1>5. rest \in LiveOrder \cup {None}
  <2>1. PICK l \in LiveOrder : l = live[o]
    BY <1>1
  <2>2. left \in 1..Quantity => [l EXCEPT !.remaining = left] \in LiveOrder
    BY DEF LiveOrder
  <2> QED
    BY <1>2, <2>1, <2>2
<1>6. live' \in [OrderIds -> LiveOrder \cup {None}]
  <2>1. live' = [live EXCEPT ![o] = rest]
    BY DEF Fill, WireTypeOK, ExchangeTypeOK
  <2> QED
    BY <1>5, <2>1 DEF WireTypeOK, ExchangeTypeOK
<1>7. position' \in Int
  BY DEF Fill, ExchangeAssumption
<1> QED
  BY <1>4, <1>6, <1>7 DEF Fill, WireTypeOK, ExchangeTypeOK

-----------------------------------------------------------------------------
(* The inductive invariant and its three facts.                            *)
IInv == TypeOK /\ SlotInv /\ MarketKnown

LEMMA IInvParts ==
  IInv <=> RobotInv /\ WireTypeOK /\ session \in {"opening", "ready", "refused"}
BY DEF IInv, TypeOK, RobotInv, WireTypeOK

LEMMA InitIInv == Init => IInv
<1> SUFFICES ASSUME Init PROVE IInv
  OBVIOUS
<1>1. BotTypeOK
  BY DEF Init, BotInit, BotTypeOK
<1>2. ASSUME NEW d \in Side
      PROVE  /\ PendingIn(bot, d) = {} /\ KnownIn(bot, d) = {}
             /\ ~bot.isOrderPlaced[d]
  BY DEF Init, BotInit, PendingIn, KnownIn
<1>3. SlotInv /\ MarketKnown
  BY <1>2 DEF SlotInv, SlotOK, MarketKnown
<1>4. ExchangeTypeOK /\ toExchange \in Seq(Request) /\ toBot \in Seq(Message)
  BY DEF Init, ExchangeInit, ExchangeTypeOK
<1> QED
  BY <1>1, <1>3, <1>4 DEF IInv, TypeOK, Init

(* The steps that deliver no message bring news about no order.            *)
LEMMA ConnectNews ==
  ASSUME RobotInv, Connect
  PROVE  /\ UNCHANGED exchangeVars /\ toBot' = toBot
         /\ \E c : Good(c) /\ Finish(c) /\ Unmoved(bot, c)
<1>1. PICK isOk \in BOOLEAN : connectHandler(isOk) /\ UNCHANGED <<toBot, exchangeVars>>
  BY DEF Connect
<1> QED
  BY <1>1, ConnectHandlerGood DEF exchangeVars

LEMMA MarketNews ==
  ASSUME RobotInv, Market
  PROVE  /\ UNCHANGED exchangeVars /\ toBot' = toBot
         /\ \E c : Good(c) /\ Finish(c) /\ Unmoved(bot, c)
<1>1. UNCHANGED exchangeVars /\ toBot' = toBot
  BY DEF Market, RobotStep
<1>2. CASE \E increment \in Increments : InstrumentsMessage(increment)
  BY <1>1, <1>2, InstrumentsGood
<1>3. CASE \E u \in BookUpdates : OrderBookMessage(u.bid, u.ask)
  BY <1>1, <1>3, OrderBookGood
<1>4. CASE OtherMessage
  BY <1>1, <1>4, NoNews DEF OtherMessage
<1> QED
  BY <1>1, <1>2, <1>3, <1>4 DEF Market, RobotStep

(* The robot's state is the invariant's only part that Deliver disturbs:   *)
(* one case for each handler.                                              *)
LEMMA DeliverInv ==
  ASSUME RobotInv, WireTypeOK, Deliver
  PROVE  RobotInv' /\ WireTypeOK'
<1> DEFINE m == Head(toBot)
<1>1. m \in Message /\ toBot' \in Seq(Message)
  BY HeadTailProperties DEF Deliver, WireTypeOK
<1>2. /\ UNCHANGED exchangeVars
      /\ \/ PlaceOrderRejected(m) \/ PlaceOrderAccepted(m)
         \/ OrderFilled(m) \/ OrderCancelled(m) \/ OrderUnknown(m)
         \/ PositionsMessage(m)
  BY DEF Deliver, RobotStep
<1> HIDE DEF m
<1>3. RobotInv'
  <2>1. CASE PlaceOrderRejected(m)
    BY <1>1, <2>1, RejectedGood, HandlerInv
  <2>2. CASE PlaceOrderAccepted(m)
    BY <1>1, <2>2, AcceptedGood, HandlerInv
  <2>3. CASE OrderFilled(m)
    BY <1>1, <2>3, FilledGood, HandlerInv
  <2>4. CASE OrderCancelled(m)
    BY <1>1, <2>4, CancelledGood, HandlerInv
  <2>5. CASE OrderUnknown(m)
    BY <2>5, NoNews, HandlerInv DEF OrderUnknown
  <2>6. CASE PositionsMessage(m)
    BY <1>1, <2>6, PositionsGood, HandlerInv
  <2> QED
    BY <1>2, <2>1, <2>2, <2>3, <2>4, <2>5, <2>6
<1> QED
  BY <1>1, <1>2, <1>3 DEF WireTypeOK, ExchangeTypeOK, exchangeVars, RobotInv

LEMMA ExchangeStepInv ==
  ASSUME RobotInv, WireTypeOK, WireTypeOK', UNCHANGED bot
  PROVE  RobotInv'
<1>1. BotTypeOK'
  BY DEF RobotInv, BotTypeOK
<1>2. SlotInv'
  BY DEF RobotInv, SlotInv, SlotOK, PendingIn, KnownIn
<1>3. MarketKnown'
  BY DEF RobotInv, MarketKnown, Ready
<1> QED
  BY <1>1, <1>2, <1>3 DEF RobotInv, WireTypeOK

LEMMA NextIInv == IInv /\ [Next]_vars => IInv'
<1> SUFFICES ASSUME IInv, [Next]_vars PROVE IInv'
  OBVIOUS
<1>1. RobotInv /\ WireTypeOK /\ session \in {"opening", "ready", "refused"}
  BY IInvParts
<1>2. RobotInv' /\ WireTypeOK'
  <2>1. CASE Serve
    <3>1. WireTypeOK'
      BY <1>1, <2>1, SubscribeType, AcceptType, CancelType, OwedType
         DEF Serve, ExchangeStep, Accept
    <3> QED
      BY <1>1, <2>1, <3>1, ExchangeStepInv DEF Serve, ExchangeStep
  <2>2. CASE Trade
    <3>1. WireTypeOK'
      BY <1>1, <2>2, FillType DEF Trade, ExchangeStep
    <3> QED
      BY <1>1, <2>2, <3>1, ExchangeStepInv DEF Trade, ExchangeStep
  <2>3. CASE Refuse
    <3>1. WireTypeOK'
      BY <1>1, <2>3, RejectType DEF Refuse, ExchangeStep
    <3> QED
      BY <1>1, <2>3, <3>1, ExchangeStepInv DEF Refuse, ExchangeStep
  <2>4. CASE Withdrawn
    <3>1. PICK o \in OrderIds : CancelByExchange(o) /\ UNCHANGED bot
      BY <2>4 DEF Withdrawn, ExchangeStep
    <3>2. live' \in [OrderIds -> LiveOrder \cup {None}] /\ toBot' \in Seq(Message)
      BY <1>1, <3>1, WithdrawType DEF CancelByExchange
    <3>3. WireTypeOK'
      BY <1>1, <3>1, <3>2 DEF CancelByExchange, WireTypeOK, ExchangeTypeOK
    <3> QED
      BY <1>1, <3>1, <3>3, ExchangeStepInv
  <2>5. CASE Connect \/ Market
    <3>1. UNCHANGED exchangeVars /\ toBot' = toBot
      BY <1>1, <2>5, ConnectNews, MarketNews
    <3>2. RobotInv'
      BY <1>1, <2>5, ConnectNews, MarketNews, HandlerInv
    <3> QED
      BY <1>1, <3>1, <3>2 DEF WireTypeOK, ExchangeTypeOK, exchangeVars, RobotInv
  <2>6. CASE Deliver
    BY <1>1, <2>6, DeliverInv
  <2>7. CASE UNCHANGED vars
    <3>1. WireTypeOK' /\ UNCHANGED bot
      BY <1>1, <2>7 DEF vars, exchangeVars, WireTypeOK, ExchangeTypeOK
    <3> QED
      BY <1>1, <3>1, ExchangeStepInv
  <2> QED
    BY <2>1, <2>2, <2>3, <2>4, <2>5, <2>6, <2>7 DEF Next
<1>3. session' \in {"opening", "ready", "refused"}
  BY <1>1 DEF Next, Serve, Trade, Refuse, Withdrawn, Connect, Deliver, Market,
              ExchangeStep, RobotStep, vars
<1> QED
  BY <1>2, <1>3 DEF IInv, RobotInv, WireTypeOK, TypeOK

-----------------------------------------------------------------------------
(* The invariant holds in every behaviour of the specification.            *)
LEMMA Invariance == Spec => []IInv
BY InitIInv, NextIInv, PTL DEF Spec

(* Every variable keeps its type; in particular no quantity the robot      *)
(* remembers of an order leaves 1..Quantity.                               *)
THEOREM TypeCorrect == Spec => []TypeOK
<1>1. IInv => TypeOK
  BY DEF IInv
<1> QED
  BY <1>1, Invariance, PTL

(* The flag of a side is set exactly while the robot has one order there,  *)
(* waiting for its answer or known, and it never has two.                  *)
THEOREM SlotCorrect == Spec => []SlotInv
<1>1. IInv => SlotInv
  BY DEF IInv
<1> QED
  BY <1>1, Invariance, PTL

(* A side that has an order can always compute the price of its successor. *)
THEOREM MarketKnownCorrect == Spec => []MarketKnown
<1>1. IInv => MarketKnown
  BY DEF IInv
<1> QED
  BY <1>1, Invariance, PTL

-----------------------------------------------------------------------------
(* The placements of a queue, requests or answers, and their ids.          *)
Placements(q) == {k \in DOMAIN q : q[k].type = "placeOrder"}

Ids(q) == {q[k].id : k \in Placements(q)}

Distinct(q) == \A j, k \in Placements(q) : q[j].id = q[k].id => j = k

(* A queue position by position: without its head, with a message more,    *)
(* and followed by another queue.                                          *)
LEMMA QueueTail ==
  ASSUME NEW S, NEW q \in Seq(S), q # <<>>
  PROVE  /\ Head(q) \in S /\ Tail(q) \in Seq(S)
         /\ 1 \in DOMAIN q /\ Head(q) = q[1]
         /\ \A k \in DOMAIN Tail(q) : /\ k \in Nat \ {0} /\ k + 1 \in DOMAIN q
                                     /\ Tail(q)[k] = q[k + 1]
         /\ \A k \in DOMAIN q \ {1} : /\ k - 1 \in DOMAIN Tail(q)
                                      /\ Tail(q)[k - 1] = q[k]
<1>1. Len(q) \in Nat \ {0} /\ DOMAIN q = 1..Len(q) /\ Head(q) = q[1]
  BY EmptySeq, LenProperties
<1>2. /\ Head(q) \in S /\ Tail(q) \in Seq(S)
      /\ DOMAIN Tail(q) = 1..(Len(q) - 1)
      /\ \A k \in 1..(Len(q) - 1) : Tail(q)[k] = q[k + 1]
  BY HeadTailProperties, LenProperties
<1>3. \A k \in DOMAIN q \ {1} : k - 1 \in DOMAIN Tail(q) /\ (k - 1) + 1 = k
  BY <1>1, <1>2
<1> QED
  BY <1>1, <1>2, <1>3

LEMMA QueueAppend ==
  ASSUME NEW S, NEW q \in Seq(S), NEW m \in S
  PROVE  /\ Append(q, m) \in Seq(S)
         /\ Len(q) + 1 \in DOMAIN Append(q, m) /\ Append(q, m)[Len(q) + 1] = m
         /\ \A k \in DOMAIN q : /\ k \in DOMAIN Append(q, m)
                              /\ Append(q, m)[k] = q[k]
                              /\ k \in Nat /\ k < Len(q) + 1
         /\ \A k \in DOMAIN Append(q, m) : k \in DOMAIN q \/ k = Len(q) + 1
         /\ Len(q) \in Nat
BY AppendProperties, LenProperties

(* c is q followed by r, element by element.                               *)
Joined(c, q, r) ==
  /\ Len(q) \in Nat
  /\ \A k \in DOMAIN q : k \in DOMAIN c /\ c[k] = q[k]
  /\ \A k \in DOMAIN r : /\ k \in Nat
                       /\ Len(q) + k \in DOMAIN c /\ c[Len(q) + k] = r[k]
  /\ \A k \in DOMAIN c : k \in DOMAIN q \/ \E j \in DOMAIN r : k = Len(q) + j

LEMMA QueueConcat ==
  ASSUME NEW S, NEW q \in Seq(S), NEW r \in Seq(S), NEW c, c = q \o r
  PROVE  c \in Seq(S) /\ Joined(c, q, r)
<1>1. /\ c \in Seq(S) /\ Len(q) \in Nat /\ Len(r) \in Nat
      /\ DOMAIN q = 1..Len(q) /\ DOMAIN r = 1..Len(r)
      /\ DOMAIN c = 1..(Len(q) + Len(r))
      /\ \A k \in 1..Len(q) : c[k] = q[k]
      /\ \A k \in 1..Len(r) : c[Len(q) + k] = r[k]
  BY ConcatProperties, LenProperties
<1>2. ASSUME NEW k \in DOMAIN c, k \notin DOMAIN q
      PROVE  k - Len(q) \in DOMAIN r /\ k = Len(q) + (k - Len(q))
  BY <1>1, <1>2
<1>3. \A k \in DOMAIN c : k \in DOMAIN q \/ \E j \in DOMAIN r : k = Len(q) + j
  BY <1>2
<1>4. /\ \A k \in DOMAIN q : k \in DOMAIN c /\ c[k] = q[k]
      /\ \A k \in DOMAIN r : /\ k \in Nat /\ Len(q) + k \in DOMAIN c
                           /\ c[Len(q) + k] = r[k]
  BY <1>1
<1> QED
  BY <1>1, <1>3, <1>4 DEF Joined

(* A queue loses its head: a placement takes its id along.                 *)
LEMMA TailIds ==
  ASSUME NEW S, NEW q \in Seq(S), q # <<>>, Distinct(q)
  PROVE  /\ Distinct(Tail(q))
         /\ Ids(Tail(q)) \subseteq Ids(q)
         /\ Head(q).type = "placeOrder" => /\ Head(q).id \in Ids(q)
                                           /\ Head(q).id \notin Ids(Tail(q))
<1>1. \A k \in Placements(Tail(q)) : /\ k + 1 \in Placements(q)
                                     /\ k \in Nat \ {0}
                                     /\ Tail(q)[k] = q[k + 1]
  BY QueueTail DEF Placements
<1>2. Distinct(Tail(q))
  <2> SUFFICES ASSUME NEW j \in Placements(Tail(q)), NEW k \in Placements(Tail(q)),
                      Tail(q)[j].id = Tail(q)[k].id
               PROVE  j = k
    BY DEF Distinct
  <2>1. /\ j + 1 \in Placements(q) /\ Tail(q)[j] = q[j + 1]
        /\ k + 1 \in Placements(q) /\ Tail(q)[k] = q[k + 1]
    BY <1>1
  <2>2. j + 1 = k + 1
    BY <2>1 DEF Distinct
  <2> QED
    BY <1>1, <2>2
<1>3. Ids(Tail(q)) \subseteq Ids(q)
  BY <1>1 DEF Ids
<1>4. ASSUME Head(q).type = "placeOrder"
      PROVE  Head(q).id \in Ids(q) /\ Head(q).id \notin Ids(Tail(q))
  <2>1. 1 \in Placements(q) /\ Head(q) = q[1]
    BY <1>4, QueueTail DEF Placements
  <2>2. \A k \in Placements(Tail(q)) : Tail(q)[k].id # q[1].id
    <3> SUFFICES ASSUME NEW k \in Placements(Tail(q)), Tail(q)[k].id = q[1].id
                 PROVE  FALSE
      OBVIOUS
    <3>1. k + 1 = 1
      BY <1>1, <2>1 DEF Distinct
    <3> QED
      BY <1>1, <3>1
  <2> QED
    BY <2>1, <2>2 DEF Ids
<1> QED
  BY <1>2, <1>3, <1>4

(* A queue gains a message: a placement needs an id of its own.            *)
LEMMA AppendIds ==
  ASSUME NEW S, NEW q \in Seq(S), NEW m \in S, Distinct(q),
         m.type = "placeOrder" => m.id \notin Ids(q)
  PROVE  /\ Distinct(Append(q, m))
         /\ Ids(Append(q, m)) =
              Ids(q) \cup (IF m.type = "placeOrder" THEN {m.id} ELSE {})
<1> DEFINE a == Append(q, m)
<1>1. \A k \in Placements(a) : \/ k \in Placements(q) /\ a[k] = q[k]
                               \/ /\ k = Len(q) + 1 /\ a[k] = m
                                  /\ m.type = "placeOrder"
  BY QueueAppend DEF Placements
<1>2. \A k \in Placements(q) : k \in Placements(a) /\ a[k] = q[k]
  BY QueueAppend DEF Placements
<1>3. m.type = "placeOrder" => Len(q) + 1 \in Placements(a) /\ a[Len(q) + 1] = m
  BY QueueAppend DEF Placements
<1> HIDE DEF a
<1>4. \A k \in Placements(q) : m.type = "placeOrder" => q[k].id # m.id
  BY DEF Ids
<1>5. Distinct(a)
  BY <1>1, <1>4 DEF Distinct
<1>6. Ids(a) \subseteq Ids(q) \cup (IF m.type = "placeOrder" THEN {m.id} ELSE {})
  BY <1>1 DEF Ids
<1>7. Ids(q) \subseteq Ids(a)
  BY <1>2 DEF Ids
<1>8. m.type = "placeOrder" => m.id \in Ids(a)
  BY <1>3 DEF Ids
<1> QED
  BY <1>5, <1>6, <1>7, <1>8 DEF a

(* A queue gains a queue that shares no id with it.                        *)
LEMMA JoinedPlacements ==
  ASSUME NEW q, NEW r, NEW c, Joined(c, q, r)
  PROVE  /\ \A k \in Placements(q) : k \in Placements(c) /\ c[k] = q[k]
         /\ \A k \in Placements(r) : /\ Len(q) + k \in Placements(c)
                                    /\ c[Len(q) + k] = r[k]
         /\ \A k \in Placements(c) :
              \/ k \in Placements(q) /\ c[k] = q[k]
              \/ \E j \in Placements(r) : k = Len(q) + j /\ c[k] = r[j]
BY DEF Joined, Placements

LEMMA JoinedIds ==
  ASSUME NEW q, NEW r, NEW c, Joined(c, q, r), Distinct(q), Distinct(r),
         Ids(q) \cap Ids(r) = {}
  PROVE  Distinct(c) /\ Ids(c) = Ids(q) \cup Ids(r)
<1>1. /\ \A k \in Placements(q) : k \in Placements(c) /\ c[k] = q[k]
      /\ \A k \in Placements(r) : /\ Len(q) + k \in Placements(c)
                                 /\ c[Len(q) + k] = r[k]
      /\ \A k \in Placements(c) :
           \/ k \in Placements(q) /\ c[k] = q[k]
           \/ \E j \in Placements(r) : k = Len(q) + j /\ c[k] = r[j]
  BY JoinedPlacements
<1>2. \A j \in Placements(q), k \in Placements(r) : q[j].id # r[k].id
  BY DEF Ids
<1>3. Distinct(c)
  BY <1>1, <1>2 DEF Distinct
<1>4. Ids(c) \subseteq Ids(q) \cup Ids(r)
  BY <1>1 DEF Ids
<1>5. Ids(q) \subseteq Ids(c) /\ Ids(r) \subseteq Ids(c)
  BY <1>1 DEF Ids
<1> QED
  BY <1>3, <1>4, <1>5

-----------------------------------------------------------------------------
(* What the robot remembers of a request for a new order.                  *)
Record(r) == [direction |-> r.direction, price |-> r.price,
              quantity |-> r.quantity, isReplaceOrder |-> FALSE]

(* A handler that found the requests R has, so far, kept them, and has     *)
(* remembered exactly what it sent, under ids R did not use.               *)
Orderly(R, b) ==
  /\ Distinct(b.sent)
  /\ \A i \in ReqIds : R[i] # None => b.orderReqMap[i] = R[i]
  /\ \A i \in ReqIds : b.orderReqMap[i] # None
                        => R[i] # None \/ i \in Ids(b.sent)
  /\ \A k \in Placements(b.sent) :
       /\ R[b.sent[k].id] = None
       /\ b.orderReqMap[b.sent[k].id] = Record(b.sent[k])
       /\ b.sent[k].quantity = Quantity

(* An order as it was, or with a new price and to be replaced.             *)
Requoted(x, y) ==
  \/ y = x
  \/ /\ x # None
     /\ \E price \in Int : y = [x EXCEPT !.price = price, !.isReplaceOrder = TRUE]

(* The orders of b, some of them requoted.                                 *)
Kept(b, c) == \A d \in Side, o \in OrderIds :
  Requoted(b.ordersMap[d][o], c.ordersMap[d][o])

LEMMA PlacementRecord ==
  ASSUME NEW q \in Seq(Request), NEW k \in Placements(q)
  PROVE  /\ q[k] \in Request /\ q[k].type = "placeOrder"
         /\ q[k].id \in ReqIds /\ q[k].direction \in Side
         /\ Record(q[k]) \in OrderReq /\ Record(q[k]) # None
         /\ Record(q[k]).direction = q[k].direction
<1>1. q[k] \in Request /\ q[k].type = "placeOrder"
  BY DEF Placements
<1>2. /\ q[k].id \in ReqIds /\ q[k].direction \in Side /\ q[k].price \in Int
      /\ q[k].quantity \in 1..Quantity
  BY <1>1 DEF Request
<1>3. Record(q[k]) \in OrderReq
  BY <1>2 DEF Record, OrderReq
<1>4. Record(q[k]) # None
  BY <1>3, NoOrderReqAssumption
<1> QED
  BY <1>1, <1>2, <1>3, <1>4 DEF Record

LEMMA PlaceOrderFields ==
  ASSUME NEW b \in BotRecord, NEW d \in Side, NEW quantity,
         NEW p, p = placeOrder(b, d, quantity),
         NEW r, r = PlaceOrderRequest(NextReqId(b), d, calculateOrderPrice(b, d),
                                      Quantity)
  PROVE  /\ \A j \in ReqIds : p.orderReqMap[j] =
              IF j = NextReqId(b) THEN Record(r) ELSE b.orderReqMap[j]
         /\ p.sent = Append(b.sent, r)
         /\ p.ordersMap = b.ordersMap
         /\ p.minPriceIncrement = b.minPriceIncrement
         /\ p.bestBuyPrice = b.bestBuyPrice
         /\ p.bestSellPrice = b.bestSellPrice
         /\ p.positionSize = b.positionSize
<1> DEFINE i == NextReqId(b)
           price == calculateOrderPrice(b, d)
<1>1. Record(r) = [direction |-> d, price |-> price, quantity |-> Quantity,
                   isReplaceOrder |-> FALSE]
  BY DEF Record, PlaceOrderRequest
<1>2. p = [b EXCEPT !.orderReqMap = [@ EXCEPT ![i] = Record(r)],
                    !.isOrderPlaced = [@ EXCEPT ![d] = TRUE],
                    !.sent = Append(@, r)]
  BY <1>1 DEF placeOrder, BotRecord
<1> HIDE DEF i, price
<1> QED
  BY <1>2 DEF BotRecord, i

(* placeOrder takes an id that is free, and remembers what it sends.       *)
LEMMA PlaceOrderOrderly ==
  ASSUME NEW b \in BotRecord, Ready(b), NEW d \in Side, NEW quantity,
         PendingIn(b, d) = {}, \A e \in Side : SlotOK(b, e),
         NEW p, p = placeOrder(b, d, quantity), NEW R, Orderly(R, b)
  PROVE  Orderly(R, p)
<1> DEFINE i == NextReqId(b)
<1> PICK r : r = PlaceOrderRequest(i, d, calculateOrderPrice(b, d), Quantity)
  OBVIOUS
<1>1. i \in ReqIds /\ b.orderReqMap[i] = None
  BY NextReqIdFree
<1>2. \A j \in ReqIds : p.orderReqMap[j] = IF j = i THEN Record(r)
                                           ELSE b.orderReqMap[j]
  BY PlaceOrderFields
<1>3. p.sent = Append(b.sent, r)
  BY PlaceOrderFields
<1>4. calculateOrderPrice(b, d) \in Int
  BY PriceType
<1>5. r \in Request /\ r.type = "placeOrder" /\ r.id = i /\ r.quantity = Quantity
  BY <1>1, <1>4 DEF PlaceOrderRequest, Request
<1>6. b.sent \in Seq(Request) /\ p.sent \in Seq(Request)
  BY <1>3, <1>5, AppendProperties DEF BotRecord
<1> HIDE DEF i
<1>7. R[i] = None
  BY <1>1 DEF Orderly
<1>8. i \notin Ids(b.sent)
  <2> SUFFICES ASSUME NEW k \in Placements(b.sent), b.sent[k].id = i
               PROVE  FALSE
    BY DEF Ids
  <2>1. b.orderReqMap[i] = Record(b.sent[k])
    BY DEF Orderly
  <2> QED
    BY <1>1, <1>6, <2>1, PlacementRecord
<1>9. Distinct(b.sent)
  BY DEF Orderly
<1>10. Distinct(p.sent) /\ Ids(p.sent) = Ids(b.sent) \cup {i}
  BY <1>3, <1>5, <1>6, <1>8, <1>9, AppendIds
<1>11. \A j \in ReqIds : R[j] # None => p.orderReqMap[j] = R[j]
  BY <1>7, <1>2 DEF Orderly
<1>12. \A j \in ReqIds : p.orderReqMap[j] # None
                           => R[j] # None \/ j \in Ids(p.sent)
  BY <1>10, <1>2 DEF Orderly
<1>13. ASSUME NEW k \in Placements(p.sent)
       PROVE  /\ R[p.sent[k].id] = None
              /\ p.orderReqMap[p.sent[k].id] = Record(p.sent[k])
              /\ p.sent[k].quantity = Quantity
  <2>1. p.sent[k] = r \/ (k \in Placements(b.sent) /\ p.sent[k] = b.sent[k])
    BY <1>3, <1>5, <1>6, AppendProperties, LenProperties DEF Placements
  <2>2. CASE p.sent[k] = r
    BY <1>1, <1>5, <1>7, <1>2, <2>2
  <2>3. CASE k \in Placements(b.sent) /\ p.sent[k] = b.sent[k]
    <3>1. b.sent[k].id \in ReqIds /\ b.sent[k].id # i
      BY <1>6, <1>8, <2>3, PlacementRecord DEF Ids
    <3> QED
      BY <1>2, <2>3, <3>1 DEF Orderly
  <2> QED
    BY <2>1, <2>2, <2>3
<1> QED
  BY <1>10, <1>11, <1>12, <1>13 DEF Orderly

(* replaceOrderIfPriceChanged sends cancellations and nothing else.        *)
Stale(b, d) ==
  {o \in OrderIds : /\ b.ordersMap[d][o] # None
                    /\ b.ordersMap[d][o].price # calculateOrderPrice(b, d)}

Cancels(S) == SetToSeq({CancelOrderRequest(o) : o \in S})

LEMMA CancelsFields ==
  ASSUME NEW S \in SUBSET OrderIds
  PROVE  /\ Cancels(S) \in Seq(Request)
         /\ \A k \in DOMAIN Cancels(S) :
              \E o \in S : Cancels(S)[k] = CancelOrderRequest(o)
         /\ \A o \in S :
              \E k \in DOMAIN Cancels(S) : Cancels(S)[k] = CancelOrderRequest(o)
         /\ Placements(Cancels(S)) = {}
<1> DEFINE T == {CancelOrderRequest(o) : o \in S}
<1>1. Cancels(S) \in Seq(Request)
  BY CancelsType DEF Cancels
<1>2. /\ SetToSeq(T) \in Seq(T)
      /\ \A x \in T : \E k \in DOMAIN SetToSeq(T) : SetToSeq(T)[k] = x
  BY CancelsFinite, SetToSeqElements
<1>3. \A k \in DOMAIN SetToSeq(T) : SetToSeq(T)[k] \in T
  <2> HIDE DEF T
  <2> QED
    BY <1>2, LenProperties
<1>4. \A k \in DOMAIN Cancels(S) :
        \E o \in S : Cancels(S)[k] = CancelOrderRequest(o)
  BY <1>3 DEF Cancels
<1>5. \A o \in S :
        \E k \in DOMAIN Cancels(S) : Cancels(S)[k] = CancelOrderRequest(o)
  BY <1>2 DEF Cancels
<1>6. Placements(Cancels(S)) = {}
  BY <1>4 DEF Placements, CancelOrderRequest
<1> QED
  BY <1>1, <1>4, <1>5, <1>6

Repriced(b, d) ==
  [o \in OrderIds |->
     IF o \in Stale(b, d)
     THEN [b.ordersMap[d][o] EXCEPT !.price = calculateOrderPrice(b, d),
                                    !.isReplaceOrder = TRUE]
     ELSE b.ordersMap[d][o]]

LEMMA ReplaceFields ==
  ASSUME NEW b \in BotRecord, NEW d \in Side,
         NEW r, r = replaceOrderIfPriceChanged(b, d)
  PROVE  /\ r.orderReqMap = b.orderReqMap
         /\ r.sent = b.sent \o Cancels(Stale(b, d))
         /\ \A e \in Side : r.ordersMap[e] = IF e = d THEN Repriced(b, d)
                                              ELSE b.ordersMap[e]
         /\ r.isOrderPlaced = b.isOrderPlaced
         /\ r.minPriceIncrement = b.minPriceIncrement
         /\ r.bestBuyPrice = b.bestBuyPrice
         /\ r.bestSellPrice = b.bestSellPrice
         /\ r.positionSize = b.positionSize
<1>1. r = [b EXCEPT !.ordersMap = [@ EXCEPT ![d] = Repriced(b, d)],
                    !.sent = @ \o Cancels(Stale(b, d))]
  BY DEF replaceOrderIfPriceChanged, BotRecord, Stale, Cancels, Repriced
<1> QED
  BY <1>1 DEF BotRecord

LEMMA ReplaceOrderly ==
  ASSUME NEW b \in BotRecord, NEW d \in Side,
         NEW r, r = replaceOrderIfPriceChanged(b, d), NEW R, Orderly(R, b)
  PROVE  Orderly(R, r)
<1> DEFINE S == Stale(b, d)
<1>1. /\ Cancels(S) \in Seq(Request) /\ Placements(Cancels(S)) = {}
  BY CancelsFields DEF Stale
<1>2. r.orderReqMap = b.orderReqMap /\ r.sent = b.sent \o Cancels(S)
  BY ReplaceFields
<1>3. b.sent \in Seq(Request)
  BY DEF BotRecord
<1> HIDE DEF S
<1>4. Joined(r.sent, b.sent, Cancels(S))
  BY <1>1, <1>2, <1>3, QueueConcat
<1>5. /\ Distinct(Cancels(S)) /\ Ids(Cancels(S)) = {}
      /\ Distinct(b.sent)
  BY <1>1 DEF Distinct, Ids, Orderly
<1>6. Distinct(r.sent) /\ Ids(r.sent) = Ids(b.sent)
  <2>1. Ids(b.sent) \cap Ids(Cancels(S)) = {}
    BY <1>5
  <2>2. Distinct(r.sent) /\ Ids(r.sent) = Ids(b.sent) \cup Ids(Cancels(S))
    BY <1>4, <1>5, <2>1, JoinedIds
  <2> QED
    BY <1>5, <2>2
<1>7. \A k \in Placements(r.sent) : k \in Placements(b.sent) /\ r.sent[k] = b.sent[k]
  BY <1>1, <1>4, JoinedPlacements
<1> HIDE DEF S
<1> QED
  BY <1>2, <1>6, <1>7, ZenonT(30) DEF Orderly

(* It leaves the orders as they are, or to be replaced.                    *)
LEMMA ReplaceKept ==
  ASSUME NEW b \in BotRecord, Ready(b), NEW d \in Side,
         NEW r, r = replaceOrderIfPriceChanged(b, d)
  PROVE  Kept(b, r)
<1>1. calculateOrderPrice(b, d) \in Int
  BY PriceType
<1> SUFFICES ASSUME NEW e \in Side, NEW o \in OrderIds
             PROVE  Requoted(b.ordersMap[e][o], r.ordersMap[e][o])
  BY DEF Kept
<1>2. r.ordersMap[e] = IF e = d THEN Repriced(b, d) ELSE b.ordersMap[e]
  BY ReplaceFields
<1>3. CASE e = d /\ o \in Stale(b, d)
  <2>1. b.ordersMap[e][o] # None
    BY <1>3 DEF Stale
  <2>2. r.ordersMap[e][o] = [b.ordersMap[e][o] EXCEPT
                                 !.price = calculateOrderPrice(b, d),
                                 !.isReplaceOrder = TRUE]
    BY <1>2, <1>3 DEF Repriced
  <2> QED
    BY <1>1, <2>1, <2>2 DEF Requoted
<1>4. CASE ~(e = d /\ o \in Stale(b, d))
  BY <1>2, <1>4 DEF Repriced, Requoted
<1> QED
  BY <1>3, <1>4

LEMMA KeptTransitive ==
  ASSUME NEW a \in BotRecord, NEW b, NEW c, Kept(a, b), Kept(b, c)
  PROVE  Kept(a, c)
<1>1. ASSUME NEW x \in OrderReq \cup {None}, NEW y, NEW z,
             Requoted(x, y), Requoted(y, z)
      PROVE  Requoted(x, z)
  <2>1. CASE z = y
    BY <1>1, <2>1
  <2>2. CASE y = x
    BY <1>1, <2>2
  <2>3. CASE z # y /\ y # x
    <3>1. x # None /\ x \in OrderReq
      BY <1>1, <2>3 DEF Requoted
    <3>2. PICK p \in Int : y = [x EXCEPT !.price = p, !.isReplaceOrder = TRUE]
      BY <1>1, <2>3 DEF Requoted
    <3>3. PICK q \in Int : z = [y EXCEPT !.price = q, !.isReplaceOrder = TRUE]
      BY <1>1, <2>3 DEF Requoted
    <3>4. z = [x EXCEPT !.price = q, !.isReplaceOrder = TRUE]
      BY <3>1, <3>2, <3>3 DEF OrderReq
    <3> QED
      BY <3>1, <3>4 DEF Requoted
  <2> QED
    BY <2>1, <2>2, <2>3
<1> SUFFICES ASSUME NEW d \in Side, NEW o \in OrderIds
             PROVE  Requoted(a.ordersMap[d][o], c.ordersMap[d][o])
  BY DEF Kept
<1>2. a.ordersMap[d][o] \in OrderReq \cup {None}
  BY DEF BotRecord
<1>3. /\ Requoted(a.ordersMap[d][o], b.ordersMap[d][o])
      /\ Requoted(b.ordersMap[d][o], c.ordersMap[d][o])
  BY DEF Kept
<1> QED
  BY <1>1, <1>2, <1>3

(* Requote keeps the market as well: what the price depends on.            *)
LEMMA PlaceIfNoneOrderly ==
  ASSUME NEW b, Good(b), Ready(b), NEW d \in Side,
         NEW p, p = placeOrderIfNone(b, d), NEW R, Orderly(R, b)
  PROVE  Orderly(R, p) /\ Kept(b, p) /\ SameMarket(b, p)
<1>1. CASE ~b.isOrderPlaced[d] /\ p = placeOrder(b, d, Quantity)
  <2>1. b \in BotRecord /\ PendingIn(b, d) = {} /\ \A e \in Side : SlotOK(b, e)
    BY <1>1 DEF Good, SlotOK
  <2>2. Orderly(R, p)
    BY <1>1, <2>1, PlaceOrderOrderly
  <2>3. p.ordersMap = b.ordersMap /\ SameMarket(b, p)
    BY <1>1, <2>1, PlaceOrderFields DEF SameMarket
  <2> QED
    BY <2>2, <2>3 DEF Kept, Requoted
<1>2. CASE p = b
  BY <1>2 DEF Kept, Requoted, SameMarket
<1> QED
  BY <1>1, <1>2 DEF placeOrderIfNone

LEMMA RequoteOrderly ==
  ASSUME NEW b, Good(b), NEW R, Orderly(R, b)
  PROVE  /\ Orderly(R, Requote(b))
         /\ Kept(b, Requote(b))
         /\ SameMarket(b, Requote(b))
<1>1. CASE ~Ready(b)
  BY <1>1 DEF Requote, Kept, Requoted, SameMarket
<1>2. CASE Ready(b)
  <2> DEFINE buy    == placeOrderIfNone(b, "Buy")
             placed == placeOrderIfNone(buy, "Sell")
             bids   == replaceOrderIfPriceChanged(placed, "Buy")
             asks   == replaceOrderIfPriceChanged(bids, "Sell")
  <2>1. "Buy" \in Side /\ "Sell" \in Side
    BY DEF Side
  <2>2. Good(buy) /\ Ready(buy)
    BY <1>2, <2>1, PlaceIfNoneGood
  <2>3. Orderly(R, buy) /\ Kept(b, buy) /\ SameMarket(b, buy)
    BY <1>2, <2>1, PlaceIfNoneOrderly
  <2> HIDE DEF buy
  <2>4. Good(placed) /\ Ready(placed)
    BY <2>1, <2>2, PlaceIfNoneGood
  <2>5. Orderly(R, placed) /\ Kept(buy, placed) /\ SameMarket(buy, placed)
    BY <2>1, <2>2, <2>3, PlaceIfNoneOrderly
  <2> HIDE DEF placed
  <2>6. Good(bids) /\ Ready(bids)
    BY <2>1, <2>4, ReplaceGood
  <2>7. placed \in BotRecord /\ bids \in BotRecord
    BY <2>4, <2>6 DEF Good
  <2>8. Orderly(R, bids) /\ Kept(placed, bids) /\ SameMarket(placed, bids)
    BY <2>1, <2>4, <2>5, <2>7, ReplaceOrderly, ReplaceKept, ReplaceFields
       DEF SameMarket
  <2> HIDE DEF bids
  <2>9. Orderly(R, asks) /\ Kept(bids, asks) /\ SameMarket(bids, asks)
    BY <2>1, <2>6, <2>7, <2>8, ReplaceOrderly, ReplaceKept, ReplaceFields
       DEF SameMarket
  <2>10. asks = Requote(b)
    BY <1>2 DEF Requote, bids, placed, buy
  <2> HIDE DEF asks
  <2>11. b \in BotRecord
    BY DEF Good
  <2>12. Kept(b, placed)
    BY <2>3, <2>5, <2>11, KeptTransitive
  <2>13. Kept(b, bids)
    BY <2>8, <2>11, <2>12, KeptTransitive
  <2>14. Kept(b, asks)
    BY <2>9, <2>11, <2>13, KeptTransitive
  <2>15. SameMarket(b, asks)
    BY <2>3, <2>5, <2>8, <2>9 DEF SameMarket
  <2> QED
    BY <2>9, <2>10, <2>14, <2>15
<1> QED
  BY <1>1, <1>2

-----------------------------------------------------------------------------
(* The invariant.                                                          *)
OwedIds == {a.id : a \in owed}

(* Each id is under way once, and the robot remembers its request.         *)
IdInv ==
  /\ Distinct(toExchange) /\ Distinct(toBot)
  /\ \A a, c \in owed : a.id = c.id => a = c
  /\ Ids(toExchange) \cap Ids(toBot) = {}
  /\ OwedIds \cap (Ids(toExchange) \cup Ids(toBot)) = {}
  /\ \A i \in Ids(toBot) \cup OwedIds : bot.orderReqMap[i] # None
  /\ \A k \in Placements(toExchange) :
       bot.orderReqMap[toExchange[k].id] = Record(toExchange[k])

(* An order that can be executed is in the map of its side, or will be put *)
(* there by an answer that is owed or on its way.                          *)
Answering(o, d) ==
  \/ \E a \in owed : a.orderId = o /\ bot.orderReqMap[a.id].direction = d
  \/ \E k \in Placements(toBot) :
       /\ toBot[k].isOk /\ toBot[k].orderId = o
       /\ bot.orderReqMap[toBot[k].id].direction = d

LiveInv == \A o \in OrderIds : live[o] # None =>
  \/ bot.ordersMap[live[o].direction][o] # None
  \/ Answering(o, live[o].direction)

(* The update that ends an order is sent when the order is gone.           *)
Ends(m) == m.type = "orders" /\ (m.status = "Cancelled" \/ m.remaining = 0)

EndedInv == \A k \in DOMAIN toBot :
  Ends(toBot[k]) => live[toBot[k].orderId] = None

LinkInv == IdInv /\ LiveInv /\ EndedInv

-----------------------------------------------------------------------------
(* The robot's steps.                                                      *)

(* What Finish does, given what Requote does.                              *)
LEMMA FinishOrderly ==
  ASSUME NEW c, Good(c), NEW R, Orderly(R, c), Finish(c)
  PROVE  \E done \in BotRecord :
           /\ Orderly(R, done) /\ Kept(c, done) /\ SameMarket(c, done)
           /\ toExchange' = toExchange \o done.sent
           /\ bot'.orderReqMap = done.orderReqMap
           /\ bot'.ordersMap = done.ordersMap
           /\ SameMarket(done, bot')
<1> DEFINE done == Requote(c)
<1>1. done \in BotRecord
  BY RequoteGood DEF Good
<1>2. Orderly(R, done) /\ Kept(c, done) /\ SameMarket(c, done)
  BY RequoteOrderly
<1>3. bot' = [done EXCEPT !.sent = <<>>] /\ toExchange' = toExchange \o done.sent
  BY DEF Finish
<1> HIDE DEF done
<1>4. /\ bot'.orderReqMap = done.orderReqMap
      /\ bot'.ordersMap = done.ordersMap
      /\ SameMarket(done, bot')
  BY <1>1, <1>3 DEF BotRecord, SameMarket
<1> QED
  BY <1>1, <1>2, <1>3, <1>4

(* The requests R are those whose ids are still under way.                 *)
Undisturbed(R) == \A i \in Ids(toExchange) \cup Ids(toBot') \cup OwedIds :
  R[i] = bot.orderReqMap[i]

(* The ids stay apart when the robot keeps the requests R it found, those  *)
(* under way among them, and sends what done has sent.                     *)
LEMMA RobotIds ==
  ASSUME toExchange \in Seq(Request), toBot \in Seq(Message), IdInv,
         UNCHANGED owed,
         toBot' = toBot \/ (toBot # <<>> /\ toBot' = Tail(toBot)),
         Ids(toExchange) \cup Ids(toBot') \cup OwedIds \subseteq ReqIds,
         NEW R, NEW done, Orderly(R, done), Undisturbed(R),
         bot'.orderReqMap = done.orderReqMap,
         Joined(toExchange', toExchange, done.sent)
  PROVE  IdInv' /\ Undisturbed(bot'.orderReqMap)
<1> PICK s : s = done.sent
  OBVIOUS
<1>0. /\ Joined(toExchange', toExchange, s) /\ Distinct(s)
      /\ \A i \in ReqIds : R[i] # None => bot'.orderReqMap[i] = R[i]
      /\ \A k \in Placements(s) : /\ R[s[k].id] = None
                                  /\ bot'.orderReqMap[s[k].id] = Record(s[k])
  BY DEF Orderly
<1>1. Distinct(toBot') /\ Ids(toBot') \subseteq Ids(toBot)
  <2>1. Distinct(toBot)
    BY DEF IdInv
  <2>2. CASE toBot' = toBot
    BY <2>1, <2>2
  <2>3. CASE toBot # <<>> /\ toBot' = Tail(toBot)
    <3>1. Distinct(Tail(toBot)) /\ Ids(Tail(toBot)) \subseteq Ids(toBot)
      BY <2>1, <2>3, TailIds
    <3> QED
      BY <2>3, <3>1
  <2> QED
    BY <2>2, <2>3
<1>2. \A i \in Ids(toExchange) : bot.orderReqMap[i] # None
  <2> SUFFICES ASSUME NEW k \in Placements(toExchange)
               PROVE  bot.orderReqMap[toExchange[k].id] # None
    BY DEF Ids
  <2> QED
    BY PlacementRecord DEF IdInv
<1>3. \A i \in Ids(toBot') \cup OwedIds : bot.orderReqMap[i] # None
  BY <1>1 DEF IdInv
<1>4. \A i \in Ids(toExchange) \cup Ids(toBot') \cup OwedIds :
        R[i] # None /\ bot'.orderReqMap[i] = bot.orderReqMap[i]
  BY <1>0, <1>2, <1>3 DEF Undisturbed
<1>5. \A i \in Ids(s) : R[i] = None
  BY <1>0 DEF Ids
<1>6. Ids(s) \cap (Ids(toExchange) \cup Ids(toBot') \cup OwedIds) = {}
  BY <1>4, <1>5
<1>7. Distinct(toExchange') /\ Ids(toExchange') = Ids(toExchange) \cup Ids(s)
  <2>1. Ids(toExchange) \cap Ids(s) = {} /\ Distinct(toExchange)
    BY <1>6 DEF IdInv
  <2> QED
    BY <1>0, <2>1, JoinedIds
<1>8. ASSUME NEW k \in Placements(toExchange')
      PROVE  bot'.orderReqMap[toExchange'[k].id] = Record(toExchange'[k])
  <2>1. \/ k \in Placements(toExchange) /\ toExchange'[k] = toExchange[k]
        \/ \E j \in Placements(s) : toExchange'[k] = s[j]
    BY <1>0, <1>8, JoinedPlacements
  <2>2. CASE k \in Placements(toExchange) /\ toExchange'[k] = toExchange[k]
    <3>1. toExchange[k].id \in Ids(toExchange)
      BY <2>2 DEF Ids
    <3> QED
      BY <1>4, <2>2, <3>1 DEF IdInv
  <2> QED
    BY <1>0, <2>1, <2>2
<1>9. Ids(toExchange') \cap Ids(toBot') = {}
  BY <1>1, <1>6, <1>7 DEF IdInv
<1>10. OwedIds \cap (Ids(toExchange') \cup Ids(toBot')) = {}
  BY <1>1, <1>6, <1>7 DEF IdInv
<1>11. OwedIds' = OwedIds
  BY DEF OwedIds
<1>12. \A a, c \in owed' : a.id = c.id => a = c
  BY DEF IdInv
<1>13. \A i \in Ids(toBot') \cup OwedIds : bot'.orderReqMap[i] # None
  BY <1>3, <1>4
<1>14. IdInv'
  BY <1>1, <1>7, <1>8, <1>9, <1>10, <1>11, <1>12, <1>13 DEF IdInv, Distinct, Ids, Placements
<1> QED
  BY <1>4, <1>14 DEF Undisturbed

LEMMA IdsType ==
  ASSUME RobotInv, WireTypeOK
  PROVE  /\ Ids(toExchange) \subseteq ReqIds
         /\ Ids(toBot) \subseteq ReqIds
         /\ OwedIds \subseteq ReqIds
<1>1. Ids(toExchange) \subseteq ReqIds
  BY PlacementRecord DEF Ids, RobotInv
<1>2. \A k \in Placements(toBot) : toBot[k].id \in ReqIds
  <2>1. \A k \in DOMAIN toBot : toBot[k] \in Message
    BY LenProperties DEF WireTypeOK
  <2> QED
    BY <2>1 DEF Placements, Message
<1>3. OwedIds \subseteq ReqIds
  BY DEF OwedIds, WireTypeOK, ExchangeTypeOK
<1> QED
  BY <1>1, <1>2, <1>3 DEF Ids

(* What a handler must leave for the links to hold after Finish: the       *)
(* requests it found, and every order that can be executed.                *)
KeepsLive(c) == \A o \in OrderIds :
  live[o] # None /\ bot.ordersMap[live[o].direction][o] # None
    => c.ordersMap[live[o].direction][o] # None

TakesAnswer(c) ==
  toBot' # toBot /\ Head(toBot).type = "placeOrder" /\ Head(toBot).isOk
    => c.ordersMap[bot.orderReqMap[Head(toBot).id].direction][Head(toBot).orderId]
         # None

LEMMA KeptNone ==
  ASSUME NEW c \in BotRecord, NEW b \in BotRecord, Kept(c, b),
         NEW d \in Side, NEW o \in OrderIds
  PROVE  c.ordersMap[d][o] = None <=> b.ordersMap[d][o] = None
<1>1. c.ordersMap[d][o] \in OrderReq \cup {None}
  BY DEF BotRecord
<1>2. CASE c.ordersMap[d][o] \in OrderReq /\ b.ordersMap[d][o] # c.ordersMap[d][o]
  <2>1. PICK p \in Int : b.ordersMap[d][o] =
          [c.ordersMap[d][o] EXCEPT !.price = p, !.isReplaceOrder = TRUE]
    BY <1>2 DEF Kept, Requoted
  <2>2. b.ordersMap[d][o] \in OrderReq
    BY <1>2, <2>1 DEF OrderReq
  <2> QED
    BY <1>2, <2>2, NoOrderReqAssumption
<1>3. CASE c.ordersMap[d][o] = None
  BY <1>3 DEF Kept, Requoted
<1> QED
  BY <1>1, <1>2, <1>3

(* The robot has not been told of the end of order o of side d: the order  *)
(* is in its map, or will be put there.                                    *)
Claimed(o, d) == bot.ordersMap[d][o] # None \/ Answering(o, d)

(* A handler that reads an answer, if there is one to read, loses no order *)
(* but those it takes out of its map.                                      *)
LEMMA RobotClaims ==
  ASSUME RobotInv, WireTypeOK, LinkInv, UNCHANGED exchangeVars,
         toBot' = toBot \/ (toBot # <<>> /\ toBot' = Tail(toBot)),
         NEW c, Good(c), NEW R, Orderly(R, c), Finish(c),
         Undisturbed(R), TakesAnswer(c)
  PROVE  /\ IdInv'
         /\ \A d \in Side, o \in OrderIds :
              /\ Claimed(o, d)
              /\ bot.ordersMap[d][o] # None => c.ordersMap[d][o] # None
              => Claimed(o, d)'
<1>1. PICK done \in BotRecord :
        /\ Orderly(R, done) /\ Kept(c, done)
        /\ toExchange' = toExchange \o done.sent
        /\ bot'.orderReqMap = done.orderReqMap
        /\ bot'.ordersMap = done.ordersMap
  BY FinishOrderly
<1>2. done.sent \in Seq(Request) /\ toExchange \in Seq(Request) /\ toBot \in Seq(Message)
  BY DEF BotRecord, RobotInv, WireTypeOK
<1>3. Joined(toExchange', toExchange, done.sent)
  BY <1>1, <1>2, QueueConcat
<1>4. Ids(toExchange) \subseteq ReqIds
  BY IdsType
<1>5. Ids(toBot) \subseteq ReqIds /\ OwedIds \subseteq ReqIds
  BY IdsType
<1>6. Ids(toBot') \subseteq ReqIds
  BY <1>2, <1>5, TailIds DEF LinkInv, IdInv
<1>7. /\ IdInv'
      /\ \A i \in Ids(toBot') \cup OwedIds : bot'.orderReqMap[i] = bot.orderReqMap[i]
  <2>1. UNCHANGED owed /\ IdInv
    BY DEF exchangeVars, LinkInv
  <2>2. Ids(toExchange) \cup Ids(toBot') \cup OwedIds \subseteq ReqIds
    BY <1>4, <1>5, <1>6
  <2>3. IdInv' /\ Undisturbed(bot'.orderReqMap)
    BY <1>1, <1>2, <1>3, <2>1, <2>2, RobotIds
  <2> QED
    BY <2>3 DEF Undisturbed
<1>8. UNCHANGED <<live, owed>>
  BY DEF exchangeVars
<1>9. ASSUME NEW d \in Side, NEW o \in OrderIds, Claimed(o, d),
             bot.ordersMap[d][o] # None => c.ordersMap[d][o] # None
      PROVE  Claimed(o, d)'
  <2>2. c \in BotRecord
    BY DEF Good
  <2>3. c.ordersMap[d][o] # None => bot'.ordersMap[d][o] # None
    BY <1>1, <2>2, KeptNone
  <2>4. CASE bot.ordersMap[d][o] # None
    BY <1>9, <2>3, <2>4 DEF Claimed
  <2>5. CASE \E a \in owed : a.orderId = o /\ bot.orderReqMap[a.id].direction = d
    <3>1. PICK a \in owed : a.orderId = o /\ bot.orderReqMap[a.id].direction = d
      BY <2>5
    <3>2. bot'.orderReqMap[a.id] = bot.orderReqMap[a.id]
      BY <1>7 DEF OwedIds
    <3> QED
      BY <1>8, <3>1, <3>2 DEF Answering, Claimed
  <2>6. ASSUME NEW k \in Placements(toBot),
               toBot[k].isOk, toBot[k].orderId = o,
               bot.orderReqMap[toBot[k].id].direction = d
        PROVE  Claimed(o, d)'
    <3>1. CASE toBot' = toBot
      <4>1. bot'.orderReqMap[toBot[k].id] = bot.orderReqMap[toBot[k].id]
        BY <1>7, <3>1 DEF Ids
      <4> QED
        BY <1>8, <2>6, <3>1, <4>1 DEF Answering, Claimed, Placements
    <3>2. CASE toBot' # toBot /\ toBot # <<>> /\ toBot' = Tail(toBot) /\ k = 1
      <4>1. Head(toBot) = toBot[k] /\ toBot[k].type = "placeOrder"
        BY <1>2, <3>2, QueueTail DEF Placements
      <4> QED
        BY <2>3, <2>6, <3>2, <4>1 DEF TakesAnswer, Claimed
    <3>3. CASE toBot # <<>> /\ toBot' = Tail(toBot) /\ k # 1
      <4>1. k - 1 \in Placements(toBot') /\ toBot'[k - 1] = toBot[k]
        BY <1>2, <3>3, QueueTail DEF Placements
      <4>2. bot'.orderReqMap[toBot[k].id] = bot.orderReqMap[toBot[k].id]
        BY <1>7, <4>1 DEF Ids
      <4>3. /\ toBot'[k - 1].isOk /\ toBot'[k - 1].orderId = o
            /\ bot'.orderReqMap[toBot'[k - 1].id].direction = d
        BY <2>6, <4>1, <4>2
      <4> QED
        BY <1>8, <4>1, <4>3 DEF Answering, Claimed, Placements
    <3> QED
      BY <3>1, <3>2, <3>3
  <2> QED
    BY <1>9, <2>4, <2>5, <2>6 DEF Claimed, Answering
<1> QED
  BY <1>7, <1>9

LEMMA RobotLinks ==
  ASSUME RobotInv, WireTypeOK, LinkInv, UNCHANGED exchangeVars,
         toBot' = toBot \/ (toBot # <<>> /\ toBot' = Tail(toBot)),
         NEW c, Good(c), NEW R, Orderly(R, c), Finish(c),
         Undisturbed(R), KeepsLive(c), TakesAnswer(c)
  PROVE  LinkInv'
<1>1. /\ IdInv'
      /\ \A d \in Side, o \in OrderIds :
           /\ Claimed(o, d)
           /\ bot.ordersMap[d][o] # None => c.ordersMap[d][o] # None
           => Claimed(o, d)'
  BY RobotClaims
<1>2. toBot \in Seq(Message)
  BY DEF WireTypeOK
<1>3. IdInv'
  BY <1>1
<1>4. UNCHANGED <<live, owed>>
  BY DEF exchangeVars
<1>5. LiveInv'
  <2> SUFFICES ASSUME NEW o \in OrderIds, live[o] # None
               PROVE  Claimed(o, live[o].direction)'
    BY <1>4 DEF LiveInv, Claimed, Answering
  <2>1. live[o].direction \in Side
    BY DEF WireTypeOK, ExchangeTypeOK, LiveOrder
  <2>2. Claimed(o, live[o].direction)
    BY DEF LinkInv, LiveInv, Claimed
  <2>3. Claimed(o, live[o].direction) =>
          (bot.ordersMap[live[o].direction][o] # None
             => c.ordersMap[live[o].direction][o] # None)
    BY DEF KeepsLive
  <2> PICK d : d = live[o].direction
    OBVIOUS
  <2>4. Claimed(o, d)'
    BY <1>1, <2>1, <2>2, <2>3
  <2> QED
    BY <1>4, <2>4 DEF Claimed, Answering
<1>6. EndedInv'
  <2>1. CASE toBot' = toBot
    BY <1>4, <2>1 DEF LinkInv, EndedInv
  <2>2. CASE toBot # <<>> /\ toBot' = Tail(toBot)
    <3>1. \A k \in DOMAIN toBot' : /\ k + 1 \in DOMAIN toBot
                                  /\ toBot'[k] = toBot[k + 1]
      BY <1>2, <2>2, QueueTail
    <3> QED
      BY <1>4, <3>1 DEF LinkInv, EndedInv
  <2> QED
    BY <2>1, <2>2
<1> QED
  BY <1>3, <1>5, <1>6 DEF LinkInv

(* A handler that sends no placement is orderly about the requests it      *)
(* leaves.                                                                 *)
LEMMA SilentOrderly ==
  ASSUME NEW c, Placements(c.sent) = {}
  PROVE  Orderly(c.orderReqMap, c)
BY DEF Orderly, Distinct

(* News, and messages about orders the robot does not know.                *)
LEMMA NewsLinks ==
  ASSUME RobotInv, WireTypeOK, LinkInv, UNCHANGED exchangeVars,
         \/ toBot' = toBot
         \/ /\ toBot # <<>> /\ toBot' = Tail(toBot)
            /\ Head(toBot).type # "placeOrder",
         NEW c, Good(c), Finish(c), News(bot, c)
  PROVE  LinkInv'
<1>1. Placements(c.sent) = {} /\ c.orderReqMap = bot.orderReqMap
  BY DEF News, SameOrders, Placements
<1>2. Orderly(bot.orderReqMap, c)
  BY <1>1, SilentOrderly
<1>3. KeepsLive(c) /\ TakesAnswer(c)
  BY DEF News, SameOrders, KeepsLive, TakesAnswer
<1> QED
  BY <1>2, <1>3, RobotLinks DEF Undisturbed

(* The answer to a placement takes its id along.                           *)
LEMMA AnswerLinks ==
  ASSUME RobotInv, WireTypeOK, LinkInv, UNCHANGED exchangeVars,
         toBot # <<>>, toBot' = Tail(toBot), Head(toBot).type = "placeOrder",
         NEW c, Good(c), Finish(c), Forgets(bot, c, Head(toBot).id),
         KeepsLive(c), TakesAnswer(c)
  PROVE  LinkInv'
<1> DEFINE id == Head(toBot).id
<1>1. Orderly(c.orderReqMap, c)
  BY SilentOrderly DEF Forgets, Placements
<1>2. toExchange \in Seq(Request) /\ toBot \in Seq(Message)
  BY DEF RobotInv, WireTypeOK
<1>3. /\ id \in Ids(toBot) /\ id \notin Ids(toBot')
      /\ Ids(toBot') \subseteq Ids(toBot)
  BY <1>2, TailIds DEF LinkInv, IdInv
<1>4. id \notin Ids(toExchange) /\ id \notin OwedIds
  BY <1>3 DEF LinkInv, IdInv
<1>5. Ids(toExchange) \cup Ids(toBot') \cup OwedIds \subseteq ReqIds
  BY <1>3, IdsType
<1>6. Undisturbed(c.orderReqMap)
  BY <1>3, <1>4, <1>5 DEF Forgets, Undisturbed
<1> QED
  BY <1>1, <1>6, RobotLinks

(* The successor of a cancelled order is orderly too.                      *)
LEMMA WithdrawOrderly ==
  ASSUME RobotInv, NEW m, NEW c, Withdraws(bot, c, m)
  PROVE  Orderly(bot.orderReqMap, c)
<1> DEFINE d == m.direction
           order == bot.ordersMap[d][m.orderId]
           p == placeOrder(bot, d, order.quantity)
<1>1. CASE ~order.isReplaceOrder
  BY <1>1, SilentOrderly DEF Withdraws, Placements
<1>2. CASE order.isReplaceOrder
  <2>1. Good(bot) /\ bot \in BotRecord /\ bot.sent = <<>>
    BY RobotInvGood DEF Good
  <2>2. d \in Side /\ m.orderId \in OrderIds /\ order # None
    BY DEF Withdraws
  <2>3. PendingIn(bot, d) = {} /\ Ready(bot)
    BY <2>1, <2>2, KnownOrder
  <2>4. Orderly(bot.orderReqMap, bot)
    BY <2>1, SilentOrderly DEF Placements
  <2>5. \A e \in Side : SlotOK(bot, e)
    BY <2>1 DEF Good
  <2>6. c.orderReqMap = p.orderReqMap /\ c.sent = p.sent
    BY <1>2 DEF Withdraws
  <2> HIDE DEF d, order
  <2>7. Orderly(bot.orderReqMap, p)
    BY <2>1, <2>2, <2>3, <2>4, <2>5, PlaceOrderOrderly
  <2> QED
    BY <2>6, <2>7 DEF Orderly
<1> QED
  BY <1>1, <1>2

LEMMA DeliverLinks ==
  ASSUME RobotInv, WireTypeOK, LinkInv, Deliver
  PROVE  LinkInv'
<1> DEFINE m == Head(toBot)
<1>1. /\ toBot # <<>> /\ toBot' = Tail(toBot) /\ UNCHANGED exchangeVars
      /\ m \in Message /\ 1 \in DOMAIN toBot /\ m = toBot[1]
  BY QueueTail DEF Deliver, RobotStep, WireTypeOK
<1>2. \/ PlaceOrderRejected(m) \/ PlaceOrderAccepted(m)
      \/ OrderFilled(m) \/ OrderCancelled(m) \/ OrderUnknown(m)
      \/ PositionsMessage(m)
  BY DEF Deliver, RobotStep
<1>3. Ends(m) => live[m.orderId] = None
  BY <1>1 DEF LinkInv, EndedInv
<1> HIDE DEF m
<1>4. CASE PlaceOrderRejected(m)
  <2>1. PICK c : Good(c) /\ Finish(c) /\ Refuses(bot, c, m)
    BY <1>1, <1>4, RejectedGood
  <2>2. KeepsLive(c) /\ TakesAnswer(c)
    BY <2>1 DEF Refuses, KeepsLive, TakesAnswer, m
  <2>3. Forgets(bot, c, m.id) /\ m.type = "placeOrder"
    BY <2>1 DEF Refuses
  <2> QED
    BY <1>1, <2>1, <2>2, <2>3, AnswerLinks DEF m
<1>5. CASE PlaceOrderAccepted(m)
  <2>1. PICK c : Good(c) /\ Finish(c) /\ Confirms(bot, c, m)
    BY <1>1, <1>5, AcceptedGood
  <2>2. c.ordersMap[bot.orderReqMap[m.id].direction][m.orderId] # None
    BY <2>1, NoOrderReqAssumption DEF Confirms
  <2>3. \A o \in OrderIds : live[o] # None => live[o].direction \in Side
    BY DEF WireTypeOK, ExchangeTypeOK, LiveOrder
  <2>4. KeepsLive(c)
    BY <2>1, <2>2, <2>3, SMTT(30) DEF Confirms, ElsewhereSame, KeepsLive
  <2>5. TakesAnswer(c)
    BY <2>2 DEF TakesAnswer, m
  <2>6. Forgets(bot, c, m.id) /\ m.type = "placeOrder"
    BY <2>1 DEF Confirms
  <2> QED
    BY <1>1, <2>1, <2>4, <2>5, <2>6, AnswerLinks DEF m
<1>6. CASE OrderFilled(m) \/ OrderCancelled(m)
  <2>1. m.type = "orders"
    BY <1>6 DEF OrderFilled, OrderCancelled
  <2>2. \A o \in OrderIds : live[o] # None => live[o].direction \in Side
    BY DEF WireTypeOK, ExchangeTypeOK, LiveOrder
  <2>3. ASSUME NEW c, Good(c), Finish(c), Orderly(bot.orderReqMap, c),
               ElsewhereSame(bot, c, m.direction, m.orderId),
               c.ordersMap[m.direction][m.orderId] # None \/ Ends(m)
        PROVE  LinkInv'
    <3>1. KeepsLive(c)
      BY <1>3, <2>2, <2>3 DEF ElsewhereSame, KeepsLive
    <3>2. TakesAnswer(c)
      BY <2>1 DEF TakesAnswer, m
    <3> QED
      BY <1>1, <2>3, <3>1, <3>2, RobotLinks DEF Undisturbed
  <2>4. CASE OrderFilled(m)
    <3>1. PICK c : Good(c) /\ Finish(c) /\ Executes(bot, c, m)
      BY <1>1, <2>4, FilledGood
    <3>2. Orderly(bot.orderReqMap, c)
      BY <3>1, SilentOrderly DEF Executes, Placements
    <3>3. ElsewhereSame(bot, c, m.direction, m.orderId)
      BY <3>1 DEF Executes
    <3>4. c.ordersMap[m.direction][m.orderId] # None \/ Ends(m)
      BY <2>1, <3>1 DEF Executes, Reduced, Ends
    <3> QED
      BY <2>3, <3>1, <3>2, <3>3, <3>4
  <2>5. CASE OrderCancelled(m)
    <3>1. PICK c : Good(c) /\ Finish(c) /\ Withdraws(bot, c, m)
      BY <1>1, <2>5, CancelledGood
    <3>2. Ends(m)
      BY <2>1, <2>5 DEF Ends, OrderCancelled
    <3>3. ElsewhereSame(bot, c, m.direction, m.orderId)
      BY <3>1 DEF Withdraws
    <3>4. Orderly(bot.orderReqMap, c)
      BY <3>1, WithdrawOrderly
    <3> QED
      BY <2>3, <3>1, <3>2, <3>3, <3>4
  <2> QED
    BY <1>6, <2>4, <2>5
<1>7. CASE OrderUnknown(m)
  BY <1>1, <1>7, NoNews, NewsLinks DEF OrderUnknown, Unmoved, m
<1>8. CASE PositionsMessage(m)
  <2>1. PICK c : Good(c) /\ Finish(c) /\ News(bot, c)
    BY <1>1, <1>8, PositionsGood DEF Adopts
  <2> QED
    BY <1>1, <1>8, <2>1, NewsLinks DEF PositionsMessage, m
<1> QED
  BY <1>2, <1>4, <1>5, <1>6, <1>7, <1>8

-----------------------------------------------------------------------------
(* The exchange's steps.                                                   *)

(* The exchange says m, or nothing.                                        *)
Says(m) == toBot' = toBot \/ toBot' = Append(toBot, m)

LEMMA SaysFields ==
  ASSUME toBot \in Seq(Message), NEW m \in Message, Says(m)
  PROVE  /\ \A k \in Placements(toBot) : /\ k \in Placements(toBot')
                                        /\ toBot'[k] = toBot[k]
         /\ \A k \in DOMAIN toBot' : \/ k \in DOMAIN toBot /\ toBot'[k] = toBot[k]
                                     \/ toBot'[k] = m
         /\ m.type # "placeOrder" /\ Distinct(toBot)
              => Distinct(toBot') /\ Ids(toBot') = Ids(toBot)
<1>1. CASE toBot' = toBot
  BY <1>1
<1>2. CASE toBot' = Append(toBot, m)
  <2>1. /\ \A k \in DOMAIN toBot : k \in DOMAIN toBot' /\ toBot'[k] = toBot[k]
        /\ \A k \in DOMAIN toBot' : k \in DOMAIN toBot \/ toBot'[k] = m
    BY <1>2, QueueAppend
  <2>2. ASSUME m.type # "placeOrder", Distinct(toBot)
        PROVE  Distinct(toBot') /\ Ids(toBot') = Ids(toBot)
    <3>1. Distinct(Append(toBot, m)) /\ Ids(Append(toBot, m)) = Ids(toBot) \cup {}
      BY <2>2, AppendIds
    <3> QED
      BY <1>2, <3>1
  <2> QED
    BY <2>1, <2>2 DEF Placements
<1> QED
  BY <1>1, <1>2 DEF Says

(* The exchange takes the request at the head of the queue.                *)
LEMMA ReceivesFields ==
  ASSUME toExchange \in Seq(Request), Distinct(toExchange),
         NEW type, Receives(type)
  PROVE  /\ Head(toExchange) \in Request /\ Head(toExchange).type = type
         /\ Distinct(toExchange') /\ Ids(toExchange') \subseteq Ids(toExchange)
         /\ \A k \in Placements(toExchange') :
              \E j \in Placements(toExchange) : toExchange'[k] = toExchange[j]
         /\ type = "placeOrder" =>
              /\ 1 \in Placements(toExchange) /\ toExchange[1] = Head(toExchange)
              /\ Head(toExchange).id \in Ids(toExchange)
              /\ Head(toExchange).id \notin Ids(toExchange')
<1>1. toExchange # <<>> /\ toExchange' = Tail(toExchange)
      /\ Head(toExchange).type = type
  BY DEF Receives
<1>2. Distinct(toExchange') /\ Ids(toExchange') \subseteq Ids(toExchange)
      /\ (type = "placeOrder" => /\ Head(toExchange).id \in Ids(toExchange)
                                 /\ Head(toExchange).id \notin Ids(toExchange'))
  BY <1>1, TailIds
<1>3. /\ Head(toExchange) \in Request
      /\ 1 \in DOMAIN toExchange /\ Head(toExchange) = toExchange[1]
      /\ \A k \in DOMAIN toExchange' : /\ k + 1 \in DOMAIN toExchange
                                      /\ toExchange'[k] = toExchange[k + 1]
  BY <1>1, QueueTail
<1>4. \A k \in Placements(toExchange') :
        k + 1 \in Placements(toExchange) /\ toExchange'[k] = toExchange[k + 1]
  BY <1>3 DEF Placements
<1> QED
  BY <1>1, <1>2, <1>3, <1>4 DEF Placements

(* Ids move from the requests to the answers, owed or sent.                *)
LEMMA IdsMove ==
  ASSUME IdInv, UNCHANGED bot,
         Distinct(toExchange'), Distinct(toBot'),
         \A a, c \in owed' : a.id = c.id => a = c,
         Ids(toExchange') \subseteq Ids(toExchange),
         \A k \in Placements(toExchange') :
           \E j \in Placements(toExchange) : toExchange'[k] = toExchange[j],
         Ids(toExchange') \cap (Ids(toBot') \cup OwedIds') = {},
         OwedIds' \cap Ids(toBot') = {},
         Ids(toBot') \cup OwedIds' \subseteq Ids(toExchange) \cup Ids(toBot) \cup OwedIds,
         toExchange \in Seq(Request)
  PROVE  IdInv'
<1>1. \A i \in Ids(toExchange) : bot.orderReqMap[i] # None
  <2> SUFFICES ASSUME NEW k \in Placements(toExchange)
               PROVE  bot.orderReqMap[toExchange[k].id] # None
    BY DEF Ids
  <2> QED
    BY PlacementRecord DEF IdInv
<1>2. \A i \in Ids(toBot') \cup OwedIds' : bot'.orderReqMap[i] # None
  BY <1>1 DEF IdInv
<1>3. \A k \in Placements(toExchange') :
        bot'.orderReqMap[toExchange'[k].id] = Record(toExchange'[k])
  BY DEF IdInv
<1>4. OwedIds' \cap (Ids(toExchange') \cup Ids(toBot')) = {}
      /\ Ids(toExchange') \cap Ids(toBot') = {}
  OBVIOUS
<1> QED
  BY <1>2, <1>3, <1>4 DEF IdInv, Distinct, Ids, Placements

(* Steps that move no id: they say something about orders, or positions.   *)
LEMMA UpdateLinks ==
  ASSUME RobotInv, WireTypeOK, LinkInv, UNCHANGED <<bot, owed>>,
         toExchange' = toExchange \/ \E type : Receives(type),
         NEW m \in Message, m.type # "placeOrder", Says(m),
         \A o \in OrderIds : live'[o] # None
           => live[o] # None /\ live'[o].direction = live[o].direction,
         Ends(m) => live'[m.orderId] = None
  PROVE  LinkInv'
<1>1. toExchange \in Seq(Request) /\ toBot \in Seq(Message)
  BY DEF RobotInv, WireTypeOK
<1>2. /\ \A k \in Placements(toBot) : k \in Placements(toBot') /\ toBot'[k] = toBot[k]
      /\ \A k \in DOMAIN toBot' : \/ k \in DOMAIN toBot /\ toBot'[k] = toBot[k]
                                  \/ toBot'[k] = m
      /\ Distinct(toBot') /\ Ids(toBot') = Ids(toBot)
  BY <1>1, SaysFields DEF LinkInv, IdInv
<1>3. OwedIds' = OwedIds /\ \A a, c \in owed' : a.id = c.id => a = c
  BY DEF OwedIds, LinkInv, IdInv
<1>4. /\ Distinct(toExchange') /\ Ids(toExchange') \subseteq Ids(toExchange)
      /\ \A k \in Placements(toExchange') :
           \E j \in Placements(toExchange) : toExchange'[k] = toExchange[j]
  <2>1. Distinct(toExchange)
    BY DEF LinkInv, IdInv
  <2>2. CASE toExchange' = toExchange
    BY <2>1, <2>2
  <2>3. CASE \E type : Receives(type)
    BY <1>1, <2>1, <2>3, ReceivesFields
  <2> QED
    BY <2>2, <2>3
<1>5. IdInv'
  <2>1. /\ Ids(toExchange) \cap Ids(toBot) = {}
        /\ OwedIds \cap (Ids(toExchange) \cup Ids(toBot)) = {}
        /\ IdInv
    BY DEF LinkInv, IdInv
  <2> QED
    BY <1>1, <1>2, <1>3, <1>4, <2>1, IdsMove
<1>6. LiveInv'
  <2> SUFFICES ASSUME NEW o \in OrderIds, live'[o] # None
               PROVE  \/ bot'.ordersMap[live'[o].direction][o] # None
                      \/ Answering(o, live[o].direction)'
    BY DEF LiveInv, Answering
  <2>1. live[o] # None /\ live'[o].direction = live[o].direction
    OBVIOUS
  <2>2. \/ bot.ordersMap[live[o].direction][o] # None
        \/ Answering(o, live[o].direction)
    BY <2>1 DEF LinkInv, LiveInv
  <2> QED
    BY <1>2, <2>1, <2>2 DEF Answering
<1>7. EndedInv'
  <2> SUFFICES ASSUME NEW k \in DOMAIN toBot', Ends(toBot'[k])
               PROVE  live'[toBot'[k].orderId] = None
    BY DEF EndedInv, Ends
  <2>1. CASE toBot'[k] = m
    BY <2>1
  <2>2. CASE k \in DOMAIN toBot /\ toBot'[k] = toBot[k]
    <3>1. toBot[k] \in Message
      BY <1>1, <2>2, LenProperties
    <3>2. toBot[k].orderId \in OrderIds
      BY <2>2, <3>1, UpdateFields DEF Ends
    <3>3. live[toBot[k].orderId] = None
      BY <2>2 DEF LinkInv, EndedInv
    <3> QED
      BY <2>2, <3>2, <3>3
  <2> QED
    BY <1>2, <2>1, <2>2
<1> QED
  BY <1>5, <1>6, <1>7 DEF LinkInv

(* An accepted placement: its order is answered for, now or later.         *)
LEMMA AcceptLinks ==
  ASSUME RobotInv, WireTypeOK, LinkInv, UNCHANGED bot,
         NEW o \in OrderIds, Fresh(o), AcceptOrder(o)
  PROVE  LinkInv'
<1> DEFINE r == Head(toExchange)
           m == PlaceOrderResponse(r.id, TRUE, o)
           a == [id |-> r.id, orderId |-> o]
<1>1. toExchange \in Seq(Request) /\ toBot \in Seq(Message)
      /\ Distinct(toExchange) /\ Distinct(toBot)
  BY DEF RobotInv, WireTypeOK, LinkInv, IdInv
<1>2. Receives("placeOrder")
  BY DEF AcceptOrder
<1>3. /\ r \in Request /\ r.type = "placeOrder"
      /\ Distinct(toExchange') /\ Ids(toExchange') \subseteq Ids(toExchange)
      /\ \A k \in Placements(toExchange') :
           \E j \in Placements(toExchange) : toExchange'[k] = toExchange[j]
      /\ 1 \in Placements(toExchange) /\ toExchange[1] = r
      /\ r.id \in Ids(toExchange) /\ r.id \notin Ids(toExchange')
  BY <1>1, <1>2, ReceivesFields
<1>4. /\ r.id \in ReqIds /\ r.direction \in Side
      /\ bot.orderReqMap[r.id].direction = r.direction
  BY <1>1, <1>3, PlacementRecord DEF LinkInv, IdInv
<1>5. m \in Message /\ m.type = "placeOrder" /\ m.id = r.id /\ m.isOk
      /\ m.orderId = o
  BY <1>4 DEF PlaceOrderResponse, Message
<1>6. a.id = r.id /\ a.orderId = o
  OBVIOUS
<1> PICK d \in Side : d = r.direction
  BY <1>4
<1>7. /\ \A x \in OrderIds : x # o => live'[x] = live[x]
      /\ live'[o].direction = d
  BY DEF AcceptOrder, WireTypeOK, ExchangeTypeOK
<1>8. \/ toBot' = Append(toBot, m) /\ owed' = owed
      \/ toBot' = toBot /\ owed' = owed \cup {a}
  BY DEF AcceptOrder
<1>9. /\ Ids(toExchange) \cap Ids(toBot) = {}
      /\ OwedIds \cap (Ids(toExchange) \cup Ids(toBot)) = {}
      /\ \A x, y \in owed : x.id = y.id => x = y
      /\ IdInv
  BY DEF LinkInv, IdInv
<1>10. r.id \notin Ids(toBot) /\ r.id \notin OwedIds
  BY <1>3, <1>9
<1>11. Says(m)
  BY <1>8 DEF Says
<1> HIDE DEF r, m, a
<1>12. /\ \A k \in Placements(toBot) : k \in Placements(toBot') /\ toBot'[k] = toBot[k]
       /\ \A k \in DOMAIN toBot' : \/ k \in DOMAIN toBot /\ toBot'[k] = toBot[k]
                                   \/ toBot'[k] = m
  BY <1>1, <1>5, <1>11, SaysFields
<1>13. ASSUME toBot' = Append(toBot, m), owed' = owed
       PROVE  IdInv' /\ Answering(o, d)'
  <2>1. Distinct(toBot') /\ Ids(toBot') = Ids(toBot) \cup {r.id}
    <3>1. /\ Distinct(Append(toBot, m))
          /\ Ids(Append(toBot, m)) = Ids(toBot) \cup {m.id}
      BY <1>1, <1>5, <1>10, AppendIds
    <3> QED
      BY <1>5, <1>13, <3>1
  <2>2. OwedIds' = OwedIds
    BY <1>13 DEF OwedIds
  <2>3. IdInv'
    BY <1>1, <1>3, <1>9, <1>10, <1>13, <2>1, <2>2, IdsMove
  <2>4. Answering(o, d)'
    <3>1. /\ Len(toBot) + 1 \in DOMAIN toBot'
          /\ toBot'[Len(toBot) + 1] = m
      BY <1>1, <1>5, <1>13, QueueAppend
    <3> QED
      BY <1>4, <1>5, <3>1 DEF Answering, Placements
  <2> QED
    BY <2>3, <2>4
<1>14. ASSUME toBot' = toBot, owed' = owed \cup {a}
       PROVE  IdInv' /\ Answering(o, d)'
  <2>1. OwedIds' = OwedIds \cup {r.id}
    BY <1>6, <1>14 DEF OwedIds
  <2>2. \A x, y \in owed' : x.id = y.id => x = y
    BY <1>6, <1>9, <1>10, <1>14 DEF OwedIds
  <2>3. Ids(toBot') = Ids(toBot) /\ Distinct(toBot')
    BY <1>1, <1>14
  <2>4. IdInv'
    BY <1>1, <1>3, <1>9, <1>10, <2>1, <2>2, <2>3, IdsMove
  <2>5. Answering(o, d)'
    BY <1>4, <1>6, <1>14 DEF Answering
  <2> QED
    BY <2>4, <2>5
<1>15. IdInv' /\ Answering(o, d)'
  BY <1>8, <1>13, <1>14
<1>16. LiveInv'
  <2> SUFFICES ASSUME NEW x \in OrderIds, live'[x] # None
               PROVE  \/ bot'.ordersMap[live'[x].direction][x] # None
                      \/ Answering(x, live[x].direction)'
    BY DEF LiveInv, Answering
  <2>1. CASE x = o
    BY <1>7, <1>15, <2>1
  <2>2. CASE x # o
    <3>1. live[x] # None /\ live'[x] = live[x]
      BY <1>7, <2>2
    <3>2. \/ bot.ordersMap[live[x].direction][x] # None
          \/ Answering(x, live[x].direction)
      BY <3>1 DEF LinkInv, LiveInv
    <3>3. owed \subseteq owed'
      BY <1>8
    <3>4. Answering(x, live[x].direction) => Answering(x, live[x].direction)'
      BY <1>12, <3>1, <3>3 DEF Answering
    <3> QED
      BY <3>1, <3>2, <3>4 DEF Answering
  <2> QED
    BY <2>1, <2>2
<1>17. EndedInv'
  <2> SUFFICES ASSUME NEW k \in DOMAIN toBot', Ends(toBot'[k])
               PROVE  live'[toBot'[k].orderId] = None
    BY DEF EndedInv, Ends
  <2>1. toBot'[k] # m
    BY <1>5 DEF Ends
  <2>2. k \in DOMAIN toBot /\ toBot'[k] = toBot[k]
    BY <1>12, <2>1
  <2>3. toBot[k].type = "orders" /\ toBot[k].orderId \in OrderIds
    <3>1. toBot[k] \in Message
      BY <1>1, <2>2, LenProperties
    <3> QED
      BY <2>2, <3>1, UpdateFields DEF Ends
  <2>4. toBot[k].orderId # o
    BY <2>2, <2>3 DEF Fresh
  <2>5. live[toBot[k].orderId] = None
    BY <2>2 DEF LinkInv, EndedInv
  <2> QED
    BY <1>7, <2>2, <2>3, <2>4, <2>5
<1> QED
  BY <1>15, <1>16, <1>17 DEF LinkInv

(* An answer that was owed is sent.                                        *)
LEMMA OwedLinks ==
  ASSUME RobotInv, WireTypeOK, LinkInv, UNCHANGED bot, SendOwedResponse
  PROVE  LinkInv'
<1>1. PICK a \in owed :
        /\ toBot' = Append(toBot, PlaceOrderResponse(a.id, TRUE, a.orderId))
        /\ owed' = owed \ {a}
        /\ UNCHANGED <<toExchange, live>>
  BY DEF SendOwedResponse
<1> DEFINE m == PlaceOrderResponse(a.id, TRUE, a.orderId)
<1>2. toExchange \in Seq(Request) /\ toBot \in Seq(Message)
      /\ Distinct(toExchange) /\ Distinct(toBot)
  BY DEF RobotInv, WireTypeOK, LinkInv, IdInv
<1>3. m \in Message /\ m.type = "placeOrder" /\ m.id = a.id /\ m.isOk
      /\ m.orderId = a.orderId
  BY DEF PlaceOrderResponse, Message, WireTypeOK, ExchangeTypeOK
<1>4. /\ Ids(toExchange) \cap Ids(toBot) = {}
      /\ OwedIds \cap (Ids(toExchange) \cup Ids(toBot)) = {}
      /\ \A x, y \in owed : x.id = y.id => x = y
      /\ IdInv
  BY DEF LinkInv, IdInv
<1>5. a.id \in OwedIds /\ a.id \notin Ids(toBot)
  BY <1>4 DEF OwedIds
<1>6. OwedIds' = OwedIds \ {a.id}
  BY <1>1, <1>4 DEF OwedIds
<1>7. toBot' = Append(toBot, m) /\ Says(m)
  BY <1>1 DEF Says
<1> HIDE DEF m
<1>8. /\ \A k \in Placements(toBot) : k \in Placements(toBot') /\ toBot'[k] = toBot[k]
      /\ \A k \in DOMAIN toBot' : \/ k \in DOMAIN toBot /\ toBot'[k] = toBot[k]
                                  \/ toBot'[k] = m
  BY <1>2, <1>3, <1>7, SaysFields
<1>9. Distinct(toBot') /\ Ids(toBot') = Ids(toBot) \cup {a.id}
  <2>1. Distinct(Append(toBot, m)) /\ Ids(Append(toBot, m)) = Ids(toBot) \cup {m.id}
    BY <1>2, <1>3, <1>5, AppendIds
  <2> QED
    BY <1>3, <1>7, <2>1
<1>10. IdInv'
  <2>1. \A x, y \in owed' : x.id = y.id => x = y
    BY <1>1, <1>4
  <2>2. /\ Ids(toExchange') = Ids(toExchange) /\ Distinct(toExchange')
        /\ \A k \in Placements(toExchange') :
             \E j \in Placements(toExchange) : toExchange'[k] = toExchange[j]
    BY <1>1, <1>2
  <2> QED
    BY <1>2, <1>4, <1>5, <1>6, <1>9, <2>1, <2>2, IdsMove
<1>11. LiveInv'
  <2> SUFFICES ASSUME NEW x \in OrderIds, live[x] # None
               PROVE  \/ bot'.ordersMap[live[x].direction][x] # None
                      \/ Answering(x, live[x].direction)'
    BY <1>1, ZenonT(30) DEF LiveInv, Answering
  <2>1. \/ bot.ordersMap[live[x].direction][x] # None
        \/ Answering(x, live[x].direction)
    BY DEF LinkInv, LiveInv
  <2>2. CASE a.orderId = x /\ bot.orderReqMap[a.id].direction = live[x].direction
    <3>1. Len(toBot) + 1 \in DOMAIN toBot' /\ toBot'[Len(toBot) + 1] = m
      BY <1>2, <1>3, <1>7, QueueAppend
    <3> QED
      BY <1>1, <1>3, <2>2, <3>1, ZenonT(30) DEF Answering, Placements
  <2>3. CASE ~(a.orderId = x /\ bot.orderReqMap[a.id].direction = live[x].direction)
    BY <1>1, <1>8, <2>1, <2>3, ZenonT(30) DEF Answering
  <2> QED
    BY <2>2, <2>3
<1>12. EndedInv'
  <2>1. ~Ends(m)
    BY <1>3 DEF Ends
  <2> QED
    BY <1>1, <1>8, <2>1 DEF LinkInv, EndedInv
<1> QED
  BY <1>10, <1>11, <1>12 DEF LinkInv

(* A refused placement is answered.                                        *)
LEMMA RejectLinks ==
  ASSUME RobotInv, WireTypeOK, LinkInv, UNCHANGED bot, RejectOrder
  PROVE  LinkInv'
<1> DEFINE r == Head(toExchange)
           m == PlaceOrderResponse(r.id, FALSE, None)
<1>1. toExchange \in Seq(Request) /\ toBot \in Seq(Message)
      /\ Distinct(toExchange) /\ Distinct(toBot)
  BY DEF RobotInv, WireTypeOK, LinkInv, IdInv
<1>2. /\ r \in Request /\ r.type = "placeOrder"
      /\ Distinct(toExchange') /\ Ids(toExchange') \subseteq Ids(toExchange)
      /\ \A k \in Placements(toExchange') :
           \E j \in Placements(toExchange) : toExchange'[k] = toExchange[j]
      /\ r.id \in Ids(toExchange) /\ r.id \notin Ids(toExchange')
  BY <1>1, ReceivesFields DEF RejectOrder
<1>3. r.id \in ReqIds
  BY <1>2 DEF Request
<1>4. m \in Message /\ m.type = "placeOrder" /\ m.id = r.id
  BY <1>3 DEF PlaceOrderResponse, Message
<1>5. /\ Ids(toExchange) \cap Ids(toBot) = {}
      /\ OwedIds \cap (Ids(toExchange) \cup Ids(toBot)) = {}
      /\ \A x, y \in owed : x.id = y.id => x = y
      /\ IdInv
  BY DEF LinkInv, IdInv
<1>6. UNCHANGED <<live, owed>> /\ toBot' = Append(toBot, m)
  BY DEF RejectOrder
<1> HIDE DEF r, m
<1>7. /\ \A k \in Placements(toBot) : k \in Placements(toBot') /\ toBot'[k] = toBot[k]
      /\ \A k \in DOMAIN toBot' : \/ k \in DOMAIN toBot /\ toBot'[k] = toBot[k]
                                  \/ toBot'[k] = m
  BY <1>1, <1>4, <1>6, SaysFields DEF Says
<1>8. r.id \notin Ids(toBot)
  BY <1>2, <1>5
<1>9. Distinct(toBot') /\ Ids(toBot') = Ids(toBot) \cup {r.id}
  <2>1. Distinct(Append(toBot, m)) /\ Ids(Append(toBot, m)) = Ids(toBot) \cup {m.id}
    BY <1>1, <1>4, <1>8, AppendIds
  <2> QED
    BY <1>4, <1>6, <2>1
<1>10. OwedIds' = OwedIds /\ \A x, y \in owed' : x.id = y.id => x = y
  BY <1>5, <1>6 DEF OwedIds
<1>11. IdInv'
  BY <1>1, <1>2, <1>5, <1>9, <1>10, IdsMove
<1>12. LiveInv'
  <2> SUFFICES ASSUME NEW x \in OrderIds, live[x] # None
               PROVE  \/ bot'.ordersMap[live[x].direction][x] # None
                      \/ Answering(x, live[x].direction)'
    BY <1>6, ZenonT(30) DEF LiveInv, Answering
  <2>1. \/ bot.ordersMap[live[x].direction][x] # None
        \/ Answering(x, live[x].direction)
    BY DEF LinkInv, LiveInv
  <2> QED
    BY <1>6, <1>7, <2>1, ZenonT(30) DEF Answering
<1>13. EndedInv'
  <2>1. ~Ends(m)
    BY <1>4 DEF Ends
  <2> QED
    BY <1>6, <1>7, <2>1 DEF LinkInv, EndedInv
<1> QED
  BY <1>11, <1>12, <1>13 DEF LinkInv

-----------------------------------------------------------------------------
(* The invariant, its three facts and what follows from it.                *)
LinkIInv == IInv /\ LinkInv

LEMMA InitLinks == Init => LinkIInv
<1> SUFFICES ASSUME Init PROVE LinkIInv
  OBVIOUS
<1>1. /\ toExchange = <<>> /\ toBot = <<>> /\ owed = {}
      /\ \A o \in OrderIds : live[o] = None
  BY DEF Init, ExchangeInit
<1>2. Placements(toExchange) = {} /\ Placements(toBot) = {}
  BY <1>1 DEF Placements
<1>3. IdInv
  BY <1>1, <1>2 DEF IdInv, Distinct, Ids, OwedIds
<1>4. LiveInv /\ EndedInv
  BY <1>1 DEF LiveInv, EndedInv
<1> QED
  BY <1>3, <1>4, InitIInv DEF LinkIInv, LinkInv

LEMMA NextLinks == LinkIInv /\ [Next]_vars => LinkIInv'
<1> SUFFICES ASSUME LinkIInv, [Next]_vars PROVE LinkIInv'
  OBVIOUS
<1>1. RobotInv /\ WireTypeOK /\ LinkInv
  BY IInvParts DEF LinkIInv
<1>2. LinkInv'
  <2> DEFINE quiet == PositionsSnapshot(None)
  <2>1. quiet \in Message /\ quiet.type # "placeOrder" /\ ~Ends(quiet)
    BY DEF PositionsSnapshot, Message, Ends
  <2> HIDE DEF quiet
  <2>2. CASE ExchangeStep(ProcessSubscribe)
    <3> DEFINE m == PositionsSnapshot(IF position = 0 THEN None ELSE position)
    <3>1. m \in Message /\ m.type # "placeOrder" /\ ~Ends(m)
      BY <1>1 DEF PositionsSnapshot, Message, Ends, WireTypeOK, ExchangeTypeOK
    <3>2. /\ UNCHANGED <<bot, owed, live>> /\ Says(m)
          /\ \E type : Receives(type)
      BY <2>2 DEF ExchangeStep, ProcessSubscribe, Says
    <3> HIDE DEF m
    <3> QED
      BY <1>1, <3>1, <3>2, UpdateLinks
  <2>3. CASE ExchangeStep(Accept)
    BY <1>1, <2>3, AcceptLinks DEF ExchangeStep, Accept
  <2>4. ASSUME NEW o \in OrderIds, live[o] # None, Withdraw(o),
               UNCHANGED <<bot, owed>>,
               toExchange' = toExchange \/ \E type : Receives(type)
        PROVE  LinkInv'
    <3> DEFINE m == OrderUpdate(o, live[o].direction, "Cancelled", live[o].remaining)
    <3>1. live[o] \in LiveOrder
      BY <1>1, <2>4 DEF WireTypeOK, ExchangeTypeOK
    <3>2. m \in Message /\ m.type # "placeOrder" /\ m.orderId = o
      <4>1. live[o].direction \in Side /\ live[o].remaining \in 0..Quantity
        BY <3>1 DEF LiveOrder
      <4> QED
        BY <4>1 DEF OrderUpdate, Message
    <3>3. Says(m)
      BY <2>4 DEF Withdraw, Publish, Says
    <3>4. \A x \in OrderIds : live'[x] = IF x = o THEN None ELSE live[x]
      BY <1>1, <2>4 DEF Withdraw, WireTypeOK, ExchangeTypeOK
    <3> HIDE DEF m
    <3> QED
      BY <1>1, <2>4, <3>2, <3>3, <3>4, UpdateLinks
  <2>5. CASE ExchangeStep(ProcessCancel)
    <3> DEFINE o == Head(toExchange).orderId
    <3>1. /\ UNCHANGED <<bot, owed>> /\ Receives("cancelOrder")
          /\ \/ live[o] # None /\ Withdraw(o)
             \/ UNCHANGED <<live, toBot>>
      BY <2>5 DEF ExchangeStep, ProcessCancel
    <3>2. o \in OrderIds
      <4>1. Head(toExchange) \in Request /\ Head(toExchange).type = "cancelOrder"
        BY <1>1, <3>1, ReceivesType DEF RobotInv
      <4> QED
        BY <4>1 DEF Request
    <3> HIDE DEF o
    <3>3. CASE live[o] # None /\ Withdraw(o)
      BY <2>4, <3>1, <3>2, <3>3
    <3>4. CASE UNCHANGED <<live, toBot>>
      BY <1>1, <2>1, <3>1, <3>4, UpdateLinks DEF Says
    <3> QED
      BY <3>1, <3>3, <3>4
  <2>6. CASE ExchangeStep(SendOwedResponse)
    BY <1>1, <2>6, OwedLinks DEF ExchangeStep
  <2>7. CASE Trade
    <3>1. PICK o \in OrderIds, k \in 1..Quantity : Fill(o, k) /\ UNCHANGED bot
      BY <2>7 DEF Trade, ExchangeStep
    <3> DEFINE left == live[o].remaining - k
               m == OrderUpdate(o, live[o].direction,
                      IF left = 0 THEN "Filled" ELSE "PartiallyFilled", left)
    <3>2. live[o] # None /\ live[o] \in LiveOrder /\ left \in 0..Quantity
      <4>1. live[o] # None /\ k <= live[o].remaining
        BY <3>1 DEF Fill
      <4>2. live[o] \in LiveOrder
        BY <1>1, <4>1 DEF WireTypeOK, ExchangeTypeOK
      <4> QED
        BY <4>1, <4>2 DEF LiveOrder
    <3>3. m \in Message /\ m.type # "placeOrder" /\ m.orderId = o
          /\ m.remaining = left /\ m.status # "Cancelled"
      BY <3>2 DEF OrderUpdate, Message, LiveOrder
    <3>4. Says(m) /\ UNCHANGED <<toExchange, owed>>
      BY <3>1 DEF Fill, Publish, Says
    <3>5. live' = [live EXCEPT ![o] = IF left = 0 THEN None
                                      ELSE [@ EXCEPT !.remaining = left]]
      BY <3>1 DEF Fill
    <3>6. \A x \in OrderIds :
            /\ x # o => live'[x] = live[x]
            /\ x = o => IF left = 0 THEN live'[x] = None
                        ELSE live'[x].direction = live[x].direction
      BY <1>1, <3>2, <3>5 DEF WireTypeOK, ExchangeTypeOK, LiveOrder
    <3> HIDE DEF m
    <3>7. Ends(m) => live'[m.orderId] = None
      BY <3>3, <3>6 DEF Ends
    <3>8. \A x \in OrderIds : live'[x] # None
            => live[x] # None /\ live'[x].direction = live[x].direction
      BY <3>2, <3>6
    <3> QED
      BY <1>1, <3>1, <3>3, <3>4, <3>7, <3>8, UpdateLinks
  <2>8. CASE Refuse
    BY <1>1, <2>8, RejectLinks DEF Refuse, ExchangeStep
  <2>9. CASE Withdrawn
    BY <2>4, <2>9 DEF Withdrawn, ExchangeStep, CancelByExchange
  <2>10. CASE Connect
    BY <1>1, <2>10, ConnectNews, NewsLinks DEF Unmoved
  <2>11. CASE Deliver
    BY <1>1, <2>11, DeliverLinks
  <2>12. CASE Market
    BY <1>1, <2>12, MarketNews, NewsLinks DEF Unmoved
  <2>13. CASE UNCHANGED vars
    BY <1>1, <2>1, <2>13, UpdateLinks DEF vars, exchangeVars, Says
  <2>14. Serve => \/ ExchangeStep(ProcessSubscribe) \/ ExchangeStep(Accept)
                  \/ ExchangeStep(ProcessCancel) \/ ExchangeStep(SendOwedResponse)
    BY DEF Serve, ExchangeStep
  <2> QED
    BY <2>2, <2>3, <2>5, <2>6, <2>7, <2>8, <2>9, <2>10, <2>11, <2>12, <2>13,
       <2>14 DEF Next
<1> QED
  BY <1>2, NextIInv DEF LinkIInv

LEMMA LinksInvariance == Spec => []LinkIInv
BY InitLinks, NextLinks, PTL DEF Spec

(* An answer to a placement names a request the robot still holds, once,   *)
(* so that messageHandler may dereference m_orderReqMap[ id ].             *)
THEOREM ResponsesKnownCorrect == Spec => []ResponsesKnown
<1>1. LinkIInv => ResponsesKnown
  <2> SUFFICES ASSUME LinkIInv PROVE ResponsesKnown
    OBVIOUS
  <2>1. Distinct(toBot) /\ \A i \in Ids(toBot) : bot.orderReqMap[i] # None
    BY DEF LinkIInv, LinkInv, IdInv
  <2> QED
    BY <2>1 DEF ResponsesKnown, Distinct, Ids, Placements
<1> QED
  BY <1>1, LinksInvariance, PTL

(* Two sets that have at most one element between them.                    *)
LEMMA AtMostOne ==
  ASSUME NEW S, NEW T,
         \/ S = {} /\ \E x : T \subseteq {x}
         \/ T = {} /\ \E x : S \subseteq {x}
  PROVE  Cardinality(S) + Cardinality(T) <= 1
<1>1. Cardinality({}) = 0 /\ \A x : Cardinality({x}) = 1
  BY FS_EmptySet, FS_Singleton
<1>2. ASSUME NEW U, NEW x, U \subseteq {x}
      PROVE  Cardinality(U) \in {0, 1}
  <2>1. U = {} \/ U = {x}
    BY <1>2
  <2> QED
    BY <1>1, <2>1
<1>3. CASE S = {} /\ \E x : T \subseteq {x}
  <2>1. Cardinality(S) = 0 /\ Cardinality(T) \in {0, 1}
    BY <1>1, <1>2, <1>3
  <2> QED
    BY <2>1
<1>4. CASE T = {} /\ \E x : S \subseteq {x}
  <2>1. Cardinality(T) = 0 /\ Cardinality(S) \in {0, 1}
    BY <1>1, <1>2, <1>4
  <2> QED
    BY <2>1
<1> QED
  BY <1>3, <1>4

(* A side has one order at the exchange at most, what is on its way to it  *)
(* included, whatever races with a replacement.                            *)
THEOREM OneOrderPerSideCorrect == Spec => []OneOrderPerSide
<1>1. LinkIInv => OneOrderPerSide
  <2> SUFFICES ASSUME LinkIInv, NEW d \in Side
               PROVE  Cardinality(LiveOn(d)) + Cardinality(Sent(d)) <= 1
    BY DEF OneOrderPerSide
  <2>1. /\ IdInv /\ LiveInv /\ SlotOK(bot, d)
        /\ toExchange \in Seq(Request)
        /\ Ids(toExchange) \subseteq ReqIds /\ Ids(toBot) \subseteq ReqIds
        /\ OwedIds \subseteq ReqIds
    BY IInvParts, IdsType DEF LinkIInv, LinkInv, IInv, SlotInv, RobotInv
  <2>2. \A k \in Sent(d) : /\ k \in Placements(toExchange)
                           /\ toExchange[k].id \in PendingIn(bot, d)
    <3> SUFFICES ASSUME NEW k \in Sent(d)
                 PROVE  /\ k \in Placements(toExchange)
                        /\ toExchange[k].id \in PendingIn(bot, d)
      OBVIOUS
    <3>1. k \in Placements(toExchange) /\ toExchange[k].direction = d
      BY DEF Sent, Placements
    <3>2. bot.orderReqMap[toExchange[k].id] = Record(toExchange[k])
      BY <2>1, <3>1 DEF IdInv
    <3> QED
      BY <2>1, <3>1, <3>2, PlacementRecord DEF PendingIn
  <2>3. ASSUME NEW o \in LiveOn(d)
        PROVE  o \in KnownIn(bot, d) \/ Answering(o, d)
    BY <2>1 DEF LiveOn, LiveInv, KnownIn
  <2>4. \A a \in owed : bot.orderReqMap[a.id].direction = d
                          => a.id \in PendingIn(bot, d) /\ a.id \in OwedIds
    BY <2>1 DEF IdInv, OwedIds, PendingIn
  <2>5. \A k \in Placements(toBot) : bot.orderReqMap[toBot[k].id].direction = d
                          => toBot[k].id \in PendingIn(bot, d) /\ toBot[k].id \in Ids(toBot)
    BY <2>1 DEF IdInv, Ids, PendingIn
  <2>6. CASE PendingIn(bot, d) = {}
    <3>1. Sent(d) = {}
      BY <2>2, <2>6
    <3>2. LiveOn(d) \subseteq KnownIn(bot, d)
      BY <2>3, <2>4, <2>5, <2>6 DEF Answering
    <3>3. \E o : KnownIn(bot, d) \subseteq {o}
      BY <2>1 DEF SlotOK
    <3> QED
      BY <3>1, <3>2, <3>3, AtMostOne
  <2>7. CASE KnownIn(bot, d) = {} /\ \E i : PendingIn(bot, d) = {i}
    <3>1. PICK i : PendingIn(bot, d) = {i}
      BY <2>7
    <3>2. /\ \A o \in LiveOn(d) : Answering(o, d)
          /\ \A a \in owed : bot.orderReqMap[a.id].direction = d
                               => a.id = i /\ i \in OwedIds
          /\ \A k \in Placements(toBot) :
               bot.orderReqMap[toBot[k].id].direction = d
                 => toBot[k].id = i /\ i \in Ids(toBot)
      <4>1. \A o \in LiveOn(d) : Answering(o, d)
        BY <2>3, <2>7
      <4>2. \A a \in owed : bot.orderReqMap[a.id].direction = d
                               => a.id = i /\ i \in OwedIds
        BY <2>4, <3>1
      <4>3. \A k \in Placements(toBot) :
               bot.orderReqMap[toBot[k].id].direction = d
                 => toBot[k].id = i /\ i \in Ids(toBot)
        BY <2>5, <3>1
      <4> QED
        BY <4>1, <4>2, <4>3
    <3>3. /\ \A a, c \in owed : a.id = c.id => a = c
          /\ \A j, k \in Placements(toBot) : toBot[j].id = toBot[k].id => j = k
          /\ i \notin Ids(toBot) \/ i \notin OwedIds
          /\ i \in Ids(toBot) \cup OwedIds => i \notin Ids(toExchange)
      BY <2>1 DEF IdInv, Distinct
    <3>4. \A j, k \in Sent(d) : j = k
      BY <2>1, <2>2, <3>1 DEF IdInv, Distinct
    <3>5. \A o \in LiveOn(d) : Sent(d) = {}
      BY <2>2, <3>1, <3>2, <3>3 DEF Answering, Ids
    <3>6. \A o, x \in LiveOn(d) : o = x
      BY <3>2, <3>3 DEF Answering
    <3>7. CASE LiveOn(d) = {}
      <4>1. \E k : Sent(d) \subseteq {k}
        BY <3>4
      <4> QED
        BY <3>7, <4>1, AtMostOne
    <3>8. CASE LiveOn(d) # {}
      <4>1. Sent(d) = {} /\ \E o : LiveOn(d) \subseteq {o}
        BY <3>5, <3>6, <3>8
      <4> QED
        BY <4>1, AtMostOne
    <3> QED
      BY <3>7, <3>8
  <2> QED
    BY <2>1, <2>6, <2>7 DEF SlotOK
<1> QED
  BY <1>1, LinksInvariance, PTL

=============================================================================
