---------------------------- MODULE TradingOrders ----------------------------
(***************************************************************************)
(* The robot's books and the exchange's, and the position the robot adds   *)
(* up from them, for every value of the constants under which the answer   *)
(* to a placement comes before any update about its order (ResponseFirst;  *)
(* without it the books do come apart).                                    *)
(*                                                                         *)
(* What ties the orders is a predicate on the messages q under way to the  *)
(* robot, the exchange's orders L, the robot's orders M and its requests R *)
(* (Orders).  The exchange disturbs it by changing L and adding a message  *)
(* at the end of q, the robot by reading the message at its head (Reads):  *)
(* one lemma for each, about any q, L, M and R.                            *)
(*                                                                         *)
(* The robot adds to its position what an order lost between two updates.  *)
(* The invariant of PositionAccounting says how far that addition is       *)
(* behind the account: by what the updates under way will take from the    *)
(* one order a side can have (Due).  The exchange moves both together, the *)
(* robot reads the one into the other.                                     *)
(***************************************************************************)
EXTENDS TradingRefinement

USE ReqIdsAssumption, OrderIdsAssumption, QuantityAssumption, NoneAssumption,
    ConfAssumption, ExchangeAssumption, MarketAssumption

(* m is the answer that gives side d the order o.                          *)
Names(m, R, d, o) ==
  /\ m.type = "placeOrder" /\ m.isOk
  /\ m.orderId = o /\ R[m.id].direction = d

Named(q, R, d, o) == \E k \in DOMAIN q : Names(q[k], R, d, o)

(* m is an update about side d's order o.                                  *)
Updates(m, d, o) == m.type = "orders" /\ m.direction = d /\ m.orderId = o

(* The order is known to the robot, or will be when it reads its name.     *)
Held(q, M, R, d, o) == M[d][o] # None \/ Named(q, R, d, o)

(* What is left of side d's order o: what the exchange can still execute,  *)
(* or what the update that ends it says.                                   *)
LeftIs(q, L, d, o, r) ==
  \/ L[o] # None /\ L[o].direction = d /\ L[o].remaining = r
  \/ \E k \in DOMAIN q : Updates(q[k], d, o) /\ Ends(q[k]) /\ q[k].remaining = r

(* Updates about an order come after its name and up to its end.           *)
Ordered(q) == \A j, k \in DOMAIN q :
  j < k /\ q[j].type = "orders" =>
    /\ q[k].type = "placeOrder" /\ q[k].isOk => q[k].orderId # q[j].orderId
    /\ q[k].type = "orders" /\ Ends(q[j]) => q[k].orderId # q[j].orderId

Over(q, L) == \A k \in DOMAIN q : Ends(q[k]) => L[q[k].orderId] = None

(* An update finds the order known, once the messages before it are read.  *)
Told(q, M, R) == \A k \in DOMAIN q : q[k].type = "orders" =>
  \/ M[q[k].direction][q[k].orderId] # None
  \/ \E j \in DOMAIN q : j < k /\ Names(q[j], R, q[k].direction, q[k].orderId)

(* An order the robot knows, or will, can be executed or its end is on the *)
(* way.                                                                    *)
Lives(q, L, M, R) == \A d \in Side, o \in OrderIds :
  Held(q, M, R, d, o) => \E r \in 0..Quantity : LeftIs(q, L, d, o, r)

(* An execution on its way says that r is left of side d's order o.        *)
Filling(q, d, o, r) == \E k \in DOMAIN q :
  Updates(q[k], d, o) /\ IsFill(q[k]) /\ q[k].remaining = r

(* What is left of an order is what the robot remembers, or what an update *)
(* on its way says, or all of it.                                          *)
Counted(q, L, M, R) == \A d \in Side, o \in OrderIds, r \in 0..Quantity :
  LeftIs(q, L, d, o, r) =>
    \/ M[d][o] # None /\ M[d][o].quantity = r
    \/ Filling(q, d, o, r)
    \/ r = Quantity /\ Named(q, R, d, o)

(* No execution on its way says that less is left.                         *)
Least(q, L) == \A d \in Side, o \in OrderIds, r, s \in 0..Quantity :
  LeftIs(q, L, d, o, r) /\ Filling(q, d, o, s) => r <= s

Orders(q, L, M, R) ==
  /\ Ordered(q) /\ Over(q, L) /\ Told(q, M, R)
  /\ Lives(q, L, M, R) /\ Counted(q, L, M, R) /\ Least(q, L)

-----------------------------------------------------------------------------
(* The prices, the requests, and what comes before any order.              *)
Cancelling(q, o) == \E k \in DOMAIN q :
  q[k].type = "cancelOrder" /\ q[k].orderId = o

(* An order stands at the price the robot remembers, unless its            *)
(* cancellation is on the way.                                             *)
Priced(L, M, out) == \A o \in OrderIds :
  L[o] # None /\ M[L[o].direction][o] # None =>
    IF M[L[o].direction][o].isReplaceOrder
    THEN Cancelling(out, o)
    ELSE M[L[o].direction][o].price = L[o].price

AnswerPriced(q, L, R) == \A k \in DOMAIN q, o \in OrderIds :
  L[o] # None /\ Names(q[k], R, L[o].direction, o)
    => R[q[k].id].price = L[o].price

(* A request that waits for its answer is on its way, or the answer is.    *)
Waiting(out, q, R) == \A i \in ReqIds : R[i] # None => i \in Ids(out) \cup Ids(q)

(* Before the orders channel is subscribed to, the robot cannot trade.     *)
BeforeOrders ==
  /\ bot.bestBuyPrice = None
  /\ "orders" \notin subscribed /\ "orderbook" \notin subscribed
  /\ toBot = <<>>
  /\ \A o \in OrderIds : live[o] = None
  /\ IF session = "ready"
     THEN toExchange \in { << SubscribeRequest("instruments"),
                              SubscribeRequest("orders"),
                              SubscribeRequest("orderbook"),
                              SubscribeRequest("positions") >>,
                           << SubscribeRequest("orders"),
                              SubscribeRequest("orderbook"),
                              SubscribeRequest("positions") >> }
     ELSE toExchange = <<>>

OrderInv ==
  /\ "orders" \in subscribed \/ BeforeOrders
  /\ owed = {}
  /\ Orders(toBot, live, bot.ordersMap, bot.orderReqMap)
  /\ Priced(live, bot.ordersMap, toExchange)
  /\ AnswerPriced(toBot, live, bot.orderReqMap)
  /\ Waiting(toExchange, toBot, bot.orderReqMap)


-----------------------------------------------------------------------------
(* What a message is, and what a queue says without its head and with a    *)
(* message more.                                                           *)
LEMMA MessageFields ==
  ASSUME NEW m \in Message
  PROVE  /\ m.type \in {"placeOrder", "orders", "positions"}
         /\ m.type = "orders" => /\ m.direction \in Side /\ m.orderId \in OrderIds
                                 /\ m.remaining \in 0..Quantity
                                 /\ ~IsFill(m) => Ends(m)
         /\ m.type = "placeOrder" /\ m.isOk => m.orderId \in OrderIds
         /\ m.type = "placeOrder" => m.id \in ReqIds
BY DEF Message, IsFill, Ends

(* The queue t says what the queue q says, and what m says.                *)
SaysMore(t, q, m, R, L) == \A d, o :
  /\ Named(t, R, d, o) <=> Named(q, R, d, o) \/ Names(m, R, d, o)
  /\ \A r : Filling(t, d, o, r) <=>
       \/ Filling(q, d, o, r)
       \/ Updates(m, d, o) /\ IsFill(m) /\ m.remaining = r
  /\ \A r : LeftIs(t, L, d, o, r) <=>
       \/ LeftIs(q, L, d, o, r)
       \/ Updates(m, d, o) /\ Ends(m) /\ m.remaining = r

LEMMA QueueSays ==
  ASSUME NEW t, NEW q, NEW m, NEW R, NEW L,
         \A k \in DOMAIN q : \E j \in DOMAIN t : t[j] = q[k],
         \A k \in DOMAIN t : t[k] = m \/ \E j \in DOMAIN q : q[j] = t[k],
         \E k \in DOMAIN t : t[k] = m
  PROVE  SaysMore(t, q, m, R, L)
<1> SUFFICES ASSUME NEW d, NEW o
             PROVE  /\ Named(t, R, d, o) <=> Named(q, R, d, o) \/ Names(m, R, d, o)
                    /\ \A r : Filling(t, d, o, r) <=>
                         \/ Filling(q, d, o, r)
                         \/ Updates(m, d, o) /\ IsFill(m) /\ m.remaining = r
                    /\ \A r : LeftIs(t, L, d, o, r) <=>
                         \/ LeftIs(q, L, d, o, r)
                         \/ Updates(m, d, o) /\ Ends(m) /\ m.remaining = r
  BY DEF SaysMore
<1>1. Named(t, R, d, o) <=> Named(q, R, d, o) \/ Names(m, R, d, o)
  BY DEF Named
<1>2. ASSUME NEW r
      PROVE  Filling(t, d, o, r) <=>
               \/ Filling(q, d, o, r)
               \/ Updates(m, d, o) /\ IsFill(m) /\ m.remaining = r
  BY DEF Filling
<1>3. ASSUME NEW r
      PROVE  LeftIs(t, L, d, o, r) <=>
               \/ LeftIs(q, L, d, o, r)
               \/ Updates(m, d, o) /\ Ends(m) /\ m.remaining = r
  BY DEF LeftIs
<1> QED
  BY <1>1, <1>2, <1>3

LEMMA TailSays ==
  ASSUME NEW q \in Seq(Message), q # <<>>, NEW R, NEW L
  PROVE  SaysMore(q, Tail(q), q[1], R, L)
<1> PICK t : t = Tail(q)
  OBVIOUS
<1>1. /\ \A k \in DOMAIN t : k + 1 \in DOMAIN q /\ t[k] = q[k + 1]
      /\ \A k \in DOMAIN q \ {1} : k - 1 \in DOMAIN t /\ t[k - 1] = q[k]
      /\ 1 \in DOMAIN q
  BY QueueTail
<1>2. /\ \A k \in DOMAIN t : \E j \in DOMAIN q : q[j] = t[k]
      /\ \A k \in DOMAIN q : q[k] = q[1] \/ \E j \in DOMAIN t : t[j] = q[k]
      /\ \E k \in DOMAIN q : q[k] = q[1]
  BY <1>1
<1> QED
  BY <1>2, QueueSays, ZenonT(60)

LEMMA AppendSays ==
  ASSUME NEW q \in Seq(Message), NEW m \in Message, NEW R, NEW L
  PROVE  SaysMore(Append(q, m), q, m, R, L)
<1> PICK t : t = Append(q, m)
  OBVIOUS
<1>1. /\ \A k \in DOMAIN q : k \in DOMAIN t /\ t[k] = q[k]
      /\ \A k \in DOMAIN t : k \in DOMAIN q \/ t[k] = m
      /\ Len(q) + 1 \in DOMAIN t /\ t[Len(q) + 1] = m
  BY QueueAppend
<1>2. /\ \A k \in DOMAIN q : \E j \in DOMAIN t : t[j] = q[k]
      /\ \A k \in DOMAIN t : t[k] = m \/ \E j \in DOMAIN q : q[j] = t[k]
      /\ \E k \in DOMAIN t : t[k] = m
  BY <1>1
<1> QED
  BY <1>2, QueueSays

-----------------------------------------------------------------------------
(* The robot reads a message.                                              *)

(* Reading m makes the orders N of the orders M.                           *)
Reads(m, R, M, N) == \A d \in Side, o \in OrderIds :
  /\ ~Names(m, R, d, o) /\ ~Updates(m, d, o) => N[d][o] = M[d][o]
  /\ Names(m, R, d, o) => /\ M[d][o] = None
                          /\ N[d][o] # None /\ N[d][o].quantity = Quantity
  /\ Updates(m, d, o) =>
       /\ M[d][o] # None
       /\ IF Ends(m) THEN N[d][o] = None
          ELSE /\ m.remaining < M[d][o].quantity
               /\ N[d][o] # None /\ N[d][o].quantity = m.remaining

(* Nothing that is left of the queue q names the order m has updated, or   *)
(* speaks of the one m has ended.                                          *)
LEMMA ReadLast ==
  ASSUME NEW q \in Seq(Message), q # <<>>, NEW L, Ordered(q), Over(q, L),
         NEW m, m = q[1], NEW t, t = Tail(q), NEW R,
         NEW d, NEW o, Updates(m, d, o)
  PROVE  /\ ~Named(t, R, d, o)
         /\ Ends(m) => \A r : ~LeftIs(t, L, d, o, r) /\ ~Filling(t, d, o, r)
<1>1. ASSUME NEW k \in DOMAIN t
      PROVE  /\ t[k].type = "placeOrder" /\ t[k].isOk => t[k].orderId # o
             /\ t[k].type = "orders" /\ Ends(m) => t[k].orderId # o
  <2>1. 1 < k + 1 /\ k + 1 \in DOMAIN q /\ t[k] = q[k + 1] /\ 1 \in DOMAIN q
    BY QueueTail
  <2> QED
    BY <2>1 DEF Ordered, Updates
<1>2. ~Named(t, R, d, o)
  BY <1>1 DEF Named, Names
<1>3. ASSUME Ends(m) PROVE \A k \in DOMAIN t : ~Updates(t[k], d, o)
  BY <1>1, <1>3 DEF Updates
<1>4. Ends(m) => L[o] = None
  <2>1. 1 \in DOMAIN q
    BY QueueTail
  <2> QED
    BY <2>1 DEF Over, Updates
<1> QED
  BY <1>2, <1>3, <1>4 DEF LeftIs, Filling

LEMMA OrdersRead ==
  ASSUME NEW q \in Seq(Message), q # <<>>, NEW L, NEW M, NEW R, NEW N,
         Orders(q, L, M, R), Reads(q[1], R, M, N)
  PROVE  Orders(Tail(q), L, N, R)
<1> PICK m : m = q[1]
  OBVIOUS
<1> PICK t : t = Tail(q)
  OBVIOUS
<1>1. /\ \A k \in DOMAIN t : /\ k \in Nat \ {0} /\ k + 1 \in DOMAIN q
                            /\ t[k] = q[k + 1]
      /\ \A k \in DOMAIN q \ {1} : k - 1 \in DOMAIN t /\ t[k - 1] = q[k]
      /\ 1 \in DOMAIN q
  BY QueueTail
<1>2. \A k \in DOMAIN q : k \in Nat \ {0} /\ q[k] \in Message
  BY LenProperties
<1>3. m \in Message /\ \A k \in DOMAIN t : t[k] \in Message
  BY <1>1, <1>2
<1>4. Ordered(t)
  <2> SUFFICES ASSUME NEW j \in DOMAIN t, NEW k \in DOMAIN t, j < k,
                      t[j].type = "orders"
               PROVE  /\ t[k].type = "placeOrder" /\ t[k].isOk
                           => t[k].orderId # t[j].orderId
                      /\ t[k].type = "orders" /\ Ends(t[j])
                           => t[k].orderId # t[j].orderId
    BY DEF Ordered
  <2>1. /\ j + 1 \in DOMAIN q /\ k + 1 \in DOMAIN q /\ j + 1 < k + 1
        /\ t[j] = q[j + 1] /\ t[k] = q[k + 1]
    BY <1>1
  <2> QED
    BY <2>1 DEF Orders, Ordered
(* Nothing that is left contradicts an update just read.                   *)
<1>5. ASSUME NEW k \in DOMAIN t, m.type = "orders"
      PROVE  /\ t[k].type = "placeOrder" /\ t[k].isOk => t[k].orderId # m.orderId
             /\ t[k].type = "orders" /\ Ends(m) => t[k].orderId # m.orderId
  <2>1. 1 < k + 1 /\ k + 1 \in DOMAIN q /\ t[k] = q[k + 1]
    BY <1>1
  <2> QED
    BY <1>1, <1>5, <2>1 DEF Orders, Ordered
<1>6. ASSUME NEW d, NEW o
      PROVE  /\ Named(q, R, d, o) <=> Named(t, R, d, o) \/ Names(m, R, d, o)
             /\ \A r : Filling(q, d, o, r) <=>
                  \/ Filling(t, d, o, r)
                  \/ Updates(m, d, o) /\ IsFill(m) /\ m.remaining = r
             /\ \A r : LeftIs(q, L, d, o, r) <=>
                  \/ LeftIs(t, L, d, o, r)
                  \/ Updates(m, d, o) /\ Ends(m) /\ m.remaining = r
  <2>1. SaysMore(q, t, m, R, L)
    BY TailSays
  <2> QED
    BY <2>1 DEF SaysMore
<1>7. ASSUME NEW d, NEW o, Names(m, R, d, o)
      PROVE  ~Updates(m, d, o)
  BY <1>7 DEF Names, Updates
<1>8. Over(t, L)
  BY <1>1 DEF Orders, Over
<1>9. Told(t, N, R)
  <2> SUFFICES ASSUME NEW k \in DOMAIN t, t[k].type = "orders"
               PROVE  \/ N[t[k].direction][t[k].orderId] # None
                      \/ \E j \in DOMAIN t :
                           j < k /\ Names(t[j], R, t[k].direction, t[k].orderId)
    BY DEF Told
  <2> PICK d : d = t[k].direction
    OBVIOUS
  <2> PICK o : o = t[k].orderId
    OBVIOUS
  <2>1. d \in Side /\ o \in OrderIds
    BY <1>3, MessageFields
  <2>2. k + 1 \in DOMAIN q /\ t[k] = q[k + 1]
    BY <1>1
  <2>3. \/ M[d][o] # None
        \/ \E j \in DOMAIN q : j < k + 1 /\ Names(q[j], R, d, o)
    BY <2>2 DEF Orders, Told
  <2>4. ~(Updates(m, d, o) /\ Ends(m))
    BY <1>5 DEF Updates
  <2>5. CASE M[d][o] # None \/ Names(m, R, d, o)
    BY <2>1, <2>4, <2>5 DEF Reads
  <2>6. ASSUME NEW j \in DOMAIN q \ {1}, j < k + 1, Names(q[j], R, d, o)
        PROVE  \E i \in DOMAIN t : i < k /\ Names(t[i], R, d, o)
    <3>1. j - 1 \in DOMAIN t /\ t[j - 1] = q[j] /\ j - 1 < k
      BY <1>1, <1>2, <2>6
    <3> QED
      BY <2>6, <3>1
  <2> QED
    BY <2>3, <2>5, <2>6
(* What the robot is to be told cannot have ended.                         *)
<1>10. ASSUME NEW d, NEW o, Named(t, R, d, o)
       PROVE  ~Updates(m, d, o)
  BY <1>10, ReadLast DEF Orders
<1>11. ASSUME NEW d, NEW o, NEW r, LeftIs(t, L, d, o, r)
       PROVE  ~(Updates(m, d, o) /\ Ends(m))
  BY <1>11, ReadLast DEF Orders
<1>12. Lives(t, L, N, R)
  <2> SUFFICES ASSUME NEW d \in Side, NEW o \in OrderIds, Held(t, N, R, d, o)
               PROVE  \E r \in 0..Quantity : LeftIs(t, L, d, o, r)
    BY DEF Lives
  <2>1. Held(q, M, R, d, o)
    BY <1>6 DEF Held, Reads
  <2>2. PICK r \in 0..Quantity : LeftIs(q, L, d, o, r)
    BY <2>1 DEF Orders, Lives
  <2>3. ~(Updates(m, d, o) /\ Ends(m))
    BY <1>10 DEF Held, Reads
  <2> QED
    BY <1>6, <2>2, <2>3
<1>13. Counted(t, L, N, R)
  <2> SUFFICES ASSUME NEW d \in Side, NEW o \in OrderIds, NEW r \in 0..Quantity,
                      LeftIs(t, L, d, o, r)
               PROVE  \/ N[d][o] # None /\ N[d][o].quantity = r
                      \/ Filling(t, d, o, r)
                      \/ r = Quantity /\ Named(t, R, d, o)
    BY DEF Counted
  <2>1. LeftIs(q, L, d, o, r) /\ ~(Updates(m, d, o) /\ Ends(m))
    BY <1>6, <1>11
  <2>2. \/ M[d][o] # None /\ M[d][o].quantity = r
        \/ Filling(q, d, o, r)
        \/ r = Quantity /\ Named(q, R, d, o)
    BY <2>1 DEF Orders, Counted
  <2>3. CASE Updates(m, d, o)
    <3>1. IsFill(m) /\ m.remaining \in 0..Quantity
      BY <1>3, <2>1, <2>3, MessageFields DEF Updates
    <3>2. /\ N[d][o] # None /\ N[d][o].quantity = m.remaining
          /\ m.remaining < M[d][o].quantity
      BY <2>1, <2>3 DEF Reads
    <3>3. r <= m.remaining
      <4>1. Filling(q, d, o, m.remaining)
        BY <1>6, <2>3, <3>1
      <4> QED
        BY <2>1, <3>1, <4>1 DEF Orders, Least
    <3>4. M[d][o].quantity # r
      BY <3>1, <3>2, <3>3
    <3> QED
      BY <1>6, <1>7, <2>2, <2>3, <3>2, <3>4
  <2>4. CASE Names(m, R, d, o)
    BY <1>6, <1>7, <2>2, <2>4 DEF Reads
  <2>5. CASE ~Updates(m, d, o) /\ ~Names(m, R, d, o)
    BY <1>6, <2>2, <2>5 DEF Reads
  <2> QED
    BY <2>3, <2>4, <2>5
<1>14. Least(t, L)
  BY <1>6 DEF Orders, Least
<1> QED
  BY <1>4, <1>8, <1>9, <1>12, <1>13, <1>14 DEF Orders

-----------------------------------------------------------------------------
(* The exchange sends a message.                                           *)

(* One that is about no order.                                             *)
LEMMA OrdersNeutral ==
  ASSUME NEW q \in Seq(Message), NEW m \in Message, NEW L, NEW M, NEW R,
         Orders(q, L, M, R), m.type # "orders",
         ~(m.type = "placeOrder" /\ m.isOk)
  PROVE  Orders(Append(q, m), L, M, R)
<1> PICK t : t = Append(q, m)
  OBVIOUS
<1>1. /\ \A k \in DOMAIN q : k \in DOMAIN t /\ t[k] = q[k]
      /\ \A k \in DOMAIN t : \/ k \in DOMAIN q /\ t[k] = q[k]
                             \/ t[k] = m
  BY QueueAppend
<1>2. ~Ends(m) /\ ~IsFill(m)
  BY DEF Ends, IsFill
<1>3. \A d, o : ~Names(m, R, d, o)
  BY DEF Names
<1>4. /\ \A d, o : Named(t, R, d, o) <=> Named(q, R, d, o)
      /\ \A d, o, r : Filling(t, d, o, r) <=> Filling(q, d, o, r)
      /\ \A d, o, r : LeftIs(t, L, d, o, r) <=> LeftIs(q, L, d, o, r)
  <2>1. SaysMore(t, q, m, R, L)
    BY AppendSays
  <2> QED
    BY <1>2, <1>3, <2>1 DEF SaysMore
<1>5. Ordered(t) /\ Over(t, L) /\ Told(t, M, R)
  <2>1. Ordered(t)
    BY <1>1, <1>2 DEF Orders, Ordered
  <2>2. Over(t, L)
    BY <1>1, <1>2 DEF Orders, Over
  <2>3. Told(t, M, R)
    BY <1>1 DEF Orders, Told
  <2> QED
    BY <2>1, <2>2, <2>3
<1>6. Lives(t, L, M, R)
  BY <1>4 DEF Orders, Lives, Held
<1>7. Counted(t, L, M, R)
  BY <1>4 DEF Orders, Counted
<1>8. Least(t, L)
  BY <1>4 DEF Orders, Least
<1> QED
  BY <1>5, <1>6, <1>7, <1>8 DEF Orders

(* The exchange's orders L and K are the same but for x.                   *)
Apart(L, K, x) == \A o \in OrderIds : o # x => K[o] = L[o]

(* The answer that names a new order.                                      *)
LEMMA OrdersAccept ==
  ASSUME NEW q \in Seq(Message), NEW m \in Message, NEW L, NEW K, NEW M, NEW R,
         Orders(q, L, M, R),
         NEW side \in Side, NEW x \in OrderIds, Names(m, R, side, x),
         \A d \in Side : M[d][x] = None,
         \A k \in DOMAIN q : q[k].type # "positions" => q[k].orderId # x,
         Apart(L, K, x),
         K[x] # None, K[x].direction = side, K[x].remaining = Quantity
  PROVE  Orders(Append(q, m), K, M, R)
<1> PICK t : t = Append(q, m)
  OBVIOUS
<1>1. /\ \A k \in DOMAIN q : k \in DOMAIN t /\ t[k] = q[k] /\ k < Len(q) + 1
      /\ \A k \in DOMAIN t : \/ k \in DOMAIN q /\ t[k] = q[k]
                             \/ k = Len(q) + 1 /\ t[k] = m
      /\ Len(q) + 1 \in Nat
  BY QueueAppend
<1>2. /\ m.type = "placeOrder" /\ m.isOk /\ m.orderId = x
      /\ ~Ends(m) /\ ~IsFill(m)
  BY DEF Names, Ends, IsFill
<1>3. \A d, o : Names(m, R, d, o) <=> d = side /\ o = x
  BY DEF Names
<1>4. ASSUME NEW k \in DOMAIN q
      PROVE  /\ \A d : ~Names(q[k], R, d, x) /\ ~Updates(q[k], d, x)
             /\ q[k].type = "orders" => q[k].orderId # x /\ q[k].orderId \in OrderIds
  <2>1. q[k] \in Message
    BY LenProperties
  <2> QED
    BY <2>1, MessageFields DEF Names, Updates
<1>5. /\ \A d, o : Named(t, R, d, o) <=> Named(q, R, d, o) \/ (d = side /\ o = x)
      /\ \A d, o, r : Filling(t, d, o, r) <=> Filling(q, d, o, r)
      /\ \A d, o, r : LeftIs(t, K, d, o, r) <=> LeftIs(q, K, d, o, r)
  <2>1. SaysMore(t, q, m, R, K)
    BY AppendSays
  <2> QED
    BY <1>2, <1>3, <2>1 DEF SaysMore
<1>6. \A d, r : ~Named(q, R, d, x) /\ ~Filling(q, d, x, r)
  BY <1>4 DEF Named, Filling
<1>7. ASSUME NEW d, NEW r
      PROVE  LeftIs(t, K, d, x, r) <=> d = side /\ r = Quantity
  <2>1. LeftIs(q, K, d, x, r) <=> d = side /\ r = Quantity
    BY <1>4 DEF LeftIs
  <2> QED
    BY <1>5, <2>1
<1>8. ASSUME NEW o \in OrderIds \ {x}, NEW d, NEW r
      PROVE  LeftIs(t, K, d, o, r) <=> LeftIs(q, L, d, o, r)
  <2>1. LeftIs(q, K, d, o, r) <=> LeftIs(q, L, d, o, r)
    BY DEF LeftIs, Apart
  <2> QED
    BY <1>5, <2>1
<1>9. Ordered(t)
  <2> SUFFICES ASSUME NEW j \in DOMAIN t, NEW k \in DOMAIN t, j < k,
                      t[j].type = "orders"
               PROVE  /\ t[k].type = "placeOrder" /\ t[k].isOk
                           => t[k].orderId # t[j].orderId
                      /\ t[k].type = "orders" /\ Ends(t[j])
                           => t[k].orderId # t[j].orderId
    BY DEF Ordered
  <2>1. j \in DOMAIN q /\ t[j] = q[j]
    BY <1>1, <1>2
  <2>2. CASE k \in DOMAIN q
    BY <1>1, <2>1, <2>2 DEF Orders, Ordered
  <2>3. CASE t[k] = m
    BY <1>2, <1>4, <2>1, <2>3
  <2> QED
    BY <1>1, <2>2, <2>3
<1>10. Over(t, K)
  <2> SUFFICES ASSUME NEW k \in DOMAIN q, Ends(q[k])
               PROVE  K[q[k].orderId] = None
    BY <1>1, <1>2 DEF Over
  <2>1. q[k].orderId \in OrderIds \ {x}
    BY <1>4 DEF Ends
  <2> QED
    BY <2>1 DEF Orders, Over, Apart
<1>11. Told(t, M, R)
  BY <1>1, <1>2 DEF Orders, Told
<1>12. Lives(t, K, M, R)
  <2> SUFFICES ASSUME NEW d \in Side, NEW o \in OrderIds, Held(t, M, R, d, o)
               PROVE  \E r \in 0..Quantity : LeftIs(t, K, d, o, r)
    BY DEF Lives
  <2>1. CASE o = x
    <3>1. d = side
      BY <1>5, <1>6, <2>1 DEF Held
    <3> QED
      BY <1>7, <2>1, <3>1
  <2>2. CASE o # x
    BY <1>5, <1>8, <2>2 DEF Orders, Lives, Held
  <2> QED
    BY <2>1, <2>2
<1>13. Counted(t, K, M, R)
  <2> SUFFICES ASSUME NEW d \in Side, NEW o \in OrderIds, NEW r \in 0..Quantity,
                      LeftIs(t, K, d, o, r)
               PROVE  \/ M[d][o] # None /\ M[d][o].quantity = r
                      \/ Filling(t, d, o, r)
                      \/ r = Quantity /\ Named(t, R, d, o)
    BY DEF Counted
  <2>1. CASE o = x
    BY <1>5, <1>7, <2>1
  <2>2. CASE o # x
    BY <1>5, <1>8, <2>2 DEF Orders, Counted
  <2> QED
    BY <2>1, <2>2
<1>14. Least(t, K)
  <2> SUFFICES ASSUME NEW d \in Side, NEW o \in OrderIds,
                      NEW r \in 0..Quantity, NEW s \in 0..Quantity,
                      LeftIs(t, K, d, o, r), Filling(q, d, o, s)
               PROVE  r <= s
    BY <1>5 DEF Least
  <2>1. o # x
    BY <1>6
  <2> QED
    BY <1>8, <2>1 DEF Orders, Least
<1> QED
  BY <1>9, <1>10, <1>11, <1>12, <1>13, <1>14 DEF Orders

(* An update about an order that can be executed.                          *)
LEMMA OrdersUpdate ==
  ASSUME NEW q \in Seq(Message), NEW m \in Message, NEW L, NEW K, NEW M, NEW R,
         Orders(q, L, M, R),
         NEW side \in Side, NEW x \in OrderIds, Updates(m, side, x),
         L[x] # None, L[x].direction = side, L[x].remaining \in 0..Quantity,
         Held(q, M, R, side, x),
         Apart(L, K, x),
         IF Ends(m) THEN K[x] = None
         ELSE K[x] # None /\ K[x].direction = side /\ K[x].remaining = m.remaining,
         IF IsFill(m) THEN m.remaining < L[x].remaining
         ELSE m.remaining = L[x].remaining
  PROVE  Orders(Append(q, m), K, M, R)
<1> PICK t : t = Append(q, m)
  OBVIOUS
<1>1. /\ \A k \in DOMAIN q : k \in DOMAIN t /\ t[k] = q[k] /\ k < Len(q) + 1
      /\ \A k \in DOMAIN t : \/ k \in DOMAIN q /\ t[k] = q[k]
                             \/ k = Len(q) + 1 /\ t[k] = m
      /\ Len(q) + 1 \in Nat
  BY QueueAppend
<1>2. /\ m.type = "orders" /\ m.orderId = x /\ m.direction = side
      /\ m.remaining \in 0..Quantity
      /\ IsFill(m) \/ Ends(m)
  BY MessageFields DEF Updates
<1>3. \A d, o : /\ ~Names(m, R, d, o)
                /\ Updates(m, d, o) <=> d = side /\ o = x
  BY <1>2 DEF Names, Updates
(* Its end is not on the way yet.                                          *)
<1>4. \A k \in DOMAIN q : Ends(q[k]) => q[k].orderId # x
  BY DEF Orders, Over
<1>5. /\ \A d, o : Named(t, R, d, o) <=> Named(q, R, d, o)
      /\ \A d, o, r : Filling(t, d, o, r) <=>
           \/ Filling(q, d, o, r)
           \/ d = side /\ o = x /\ IsFill(m) /\ m.remaining = r
      /\ \A d, o, r : LeftIs(t, K, d, o, r) <=>
           \/ LeftIs(q, K, d, o, r)
           \/ d = side /\ o = x /\ Ends(m) /\ m.remaining = r
  <2>1. SaysMore(t, q, m, R, K)
    BY AppendSays
  <2> QED
    BY <1>3, <2>1, ZenonT(60) DEF SaysMore
<1>6. \A d, r : LeftIs(q, L, d, x, r) <=> d = side /\ r = L[x].remaining
  BY <1>4 DEF LeftIs, Updates
<1>7. \A d, r : LeftIs(t, K, d, x, r) <=> d = side /\ r = m.remaining
  BY <1>4, <1>5 DEF LeftIs, Updates
<1>8. ASSUME NEW o \in OrderIds \ {x}, NEW d, NEW r
      PROVE  LeftIs(t, K, d, o, r) <=> LeftIs(q, L, d, o, r)
  <2>1. LeftIs(q, K, d, o, r) <=> LeftIs(q, L, d, o, r)
    BY DEF LeftIs, Apart
  <2> QED
    BY <1>5, <2>1
<1>9. Ordered(t)
  <2> SUFFICES ASSUME NEW j \in DOMAIN t, NEW k \in DOMAIN t, j < k,
                      t[j].type = "orders"
               PROVE  /\ t[k].type = "placeOrder" /\ t[k].isOk
                           => t[k].orderId # t[j].orderId
                      /\ t[k].type = "orders" /\ Ends(t[j])
                           => t[k].orderId # t[j].orderId
    BY DEF Ordered
  <2>1. CASE k \in DOMAIN q
    <3>1. j \in DOMAIN q /\ t[j] = q[j] /\ t[k] = q[k]
      BY <1>1, <2>1
    <3> QED
      BY <2>1, <3>1 DEF Orders, Ordered
  <2>2. CASE k = Len(q) + 1 /\ t[k] = m
    <3>1. j \in DOMAIN q /\ t[j] = q[j]
      BY <1>1, <2>2
    <3> QED
      BY <1>2, <1>4, <2>2, <3>1
  <2> QED
    BY <1>1, <2>1, <2>2
<1>10. Over(t, K)
  <2>1. ASSUME NEW k \in DOMAIN q, Ends(q[k])
        PROVE  K[q[k].orderId] = None
    <3>1. q[k] \in Message /\ q[k].type = "orders"
      BY <2>1, LenProperties DEF Ends
    <3>2. q[k].orderId \in OrderIds \ {x}
      BY <1>4, <2>1, <3>1, MessageFields
    <3> QED
      BY <2>1, <3>2 DEF Orders, Over, Apart
  <2>2. Ends(m) => K[m.orderId] = None
    BY <1>2
  <2> QED
    BY <1>1, <2>1, <2>2 DEF Over
<1>11. Told(t, M, R)
  <2>1. ASSUME NEW k \in DOMAIN q, q[k].type = "orders"
        PROVE  \/ M[q[k].direction][q[k].orderId] # None
               \/ \E j \in DOMAIN t :
                    j < k /\ Names(t[j], R, q[k].direction, q[k].orderId)
    BY <1>1, <2>1 DEF Orders, Told
  <2>2. \/ M[side][x] # None
        \/ \E j \in DOMAIN t : j < Len(q) + 1 /\ Names(t[j], R, side, x)
    BY <1>1 DEF Held, Named
  <2> SUFFICES ASSUME NEW k \in DOMAIN t, t[k].type = "orders"
               PROVE  \/ M[t[k].direction][t[k].orderId] # None
                      \/ \E j \in DOMAIN t :
                           j < k /\ Names(t[j], R, t[k].direction, t[k].orderId)
    BY DEF Told
  <2>3. CASE k \in DOMAIN q /\ t[k] = q[k]
    BY <2>1, <2>3
  <2>4. CASE k = Len(q) + 1 /\ t[k] = m
    BY <1>2, <2>2, <2>4
  <2> QED
    BY <1>1, <2>3, <2>4
<1>12. Lives(t, K, M, R)
  <2> SUFFICES ASSUME NEW d \in Side, NEW o \in OrderIds, Held(q, M, R, d, o)
               PROVE  \E r \in 0..Quantity : LeftIs(t, K, d, o, r)
    BY <1>5 DEF Lives, Held
  <2>1. \E r \in 0..Quantity : LeftIs(q, L, d, o, r)
    BY DEF Orders, Lives
  <2>2. CASE o = x
    BY <1>2, <1>6, <1>7, <2>1, <2>2
  <2>3. CASE o # x
    BY <1>8, <2>1, <2>3
  <2> QED
    BY <2>2, <2>3
<1>13. Counted(t, K, M, R)
  <2> SUFFICES ASSUME NEW d \in Side, NEW o \in OrderIds, NEW r \in 0..Quantity,
                      LeftIs(t, K, d, o, r)
               PROVE  \/ M[d][o] # None /\ M[d][o].quantity = r
                      \/ Filling(t, d, o, r)
                      \/ r = Quantity /\ Named(t, R, d, o)
    BY DEF Counted
  <2>1. CASE LeftIs(q, L, d, o, r)
    BY <1>5, <2>1 DEF Orders, Counted
  <2>2. CASE o = x /\ IsFill(m)
    BY <1>5, <1>7, <2>2
  <2>3. CASE o = x /\ ~IsFill(m)
    <3>1. LeftIs(q, L, d, o, r)
      BY <1>6, <1>7, <2>3
    <3> QED
      BY <2>1, <3>1
  <2> QED
    BY <1>8, <2>1, <2>2, <2>3
<1>14. Least(t, K)
  <2> SUFFICES ASSUME NEW d \in Side, NEW o \in OrderIds,
                      NEW r \in 0..Quantity, NEW s \in 0..Quantity,
                      LeftIs(t, K, d, o, r), Filling(t, d, o, s)
               PROVE  r <= s
    BY DEF Least
  <2>1. CASE o # x
    BY <1>5, <1>8, <2>1 DEF Orders, Least
  <2>2. CASE o = x
    <3>1. d = side /\ r = m.remaining
      BY <1>7, <2>2
    <3>2. CASE Filling(q, d, o, s)
      <4>1. LeftIs(q, L, d, o, L[x].remaining)
        BY <1>6, <2>2, <3>1
      <4>2. L[x].remaining <= s
        BY <3>2, <4>1 DEF Orders, Least
      <4>3. m.remaining <= L[x].remaining
        BY <1>2
      <4> QED
        BY <1>2, <3>1, <4>2, <4>3
    <3>3. CASE m.remaining = s
      BY <3>1, <3>3
    <3> QED
      BY <1>5, <3>2, <3>3
  <2> QED
    BY <2>1, <2>2
<1> QED
  BY <1>9, <1>10, <1>11, <1>12, <1>13, <1>14 DEF Orders

(* The robot may change its orders' prices and its other requests.         *)
LEMMA OrdersKept ==
  ASSUME NEW q \in Seq(Message), NEW L, NEW M, NEW N, NEW R, NEW S,
         Orders(q, L, M, R),
         \A d \in Side, o \in OrderIds :
           /\ M[d][o] = None <=> N[d][o] = None
           /\ M[d][o] # None => N[d][o].quantity = M[d][o].quantity,
         \A i \in Ids(q) : S[i] = R[i]
  PROVE  Orders(q, L, N, S)
<1>1. ASSUME NEW k \in DOMAIN q, NEW d, NEW o
      PROVE  Names(q[k], S, d, o) <=> Names(q[k], R, d, o)
  BY DEF Names, Ids, Placements
<1>2. \A d, o : Named(q, S, d, o) <=> Named(q, R, d, o)
  BY <1>1 DEF Named
<1>3. Told(q, N, S)
  <2> SUFFICES ASSUME NEW k \in DOMAIN q, q[k].type = "orders"
               PROVE  \/ N[q[k].direction][q[k].orderId] # None
                      \/ \E j \in DOMAIN q :
                           j < k /\ Names(q[j], S, q[k].direction, q[k].orderId)
    BY DEF Told
  <2>1. q[k].direction \in Side /\ q[k].orderId \in OrderIds
    BY LenProperties, MessageFields
  <2> QED
    BY <1>1, <2>1 DEF Orders, Told
<1>4. Lives(q, L, N, S)
  BY <1>2 DEF Orders, Lives, Held
<1>5. Counted(q, L, N, S)
  BY <1>2 DEF Orders, Counted
<1> QED
  BY <1>3, <1>4, <1>5 DEF Orders

-----------------------------------------------------------------------------
(* What the tail of messageHandler does to the orders and their prices.    *)

(* An order that r has revised is to be replaced, and its cancellation is  *)
(* sent.                                                                   *)
Revises(b, r) ==
  /\ \A o \in OrderIds : Cancelling(b.sent, o) => Cancelling(r.sent, o)
  /\ \A d \in Side, o \in OrderIds :
       \/ r.ordersMap[d][o] = b.ordersMap[d][o]
       \/ /\ b.ordersMap[d][o] # None
          /\ r.ordersMap[d][o] # None /\ r.ordersMap[d][o].isReplaceOrder
          /\ Cancelling(r.sent, o)

LEMMA RevisesTransitive ==
  ASSUME NEW a, NEW b, NEW c, Revises(a, b), Revises(b, c)
  PROVE  Revises(a, c)
<1>1. \A o \in OrderIds : Cancelling(a.sent, o) => Cancelling(c.sent, o)
  BY DEF Revises
<1>2. ASSUME NEW d \in Side, NEW o \in OrderIds
      PROVE  \/ c.ordersMap[d][o] = a.ordersMap[d][o]
             \/ /\ a.ordersMap[d][o] # None
                /\ c.ordersMap[d][o] # None /\ c.ordersMap[d][o].isReplaceOrder
                /\ Cancelling(c.sent, o)
  <2>1. CASE c.ordersMap[d][o] = b.ordersMap[d][o]
    BY <2>1 DEF Revises
  <2>2. CASE c.ordersMap[d][o] # b.ordersMap[d][o]
    BY <2>2 DEF Revises
  <2> QED
    BY <2>1, <2>2
<1> QED
  BY <1>1, <1>2 DEF Revises

LEMMA JoinedCancelling ==
  ASSUME NEW c, NEW q, NEW s, Joined(c, q, s), NEW o
  PROVE  Cancelling(c, o) <=> Cancelling(q, o) \/ Cancelling(s, o)
BY DEF Joined, Cancelling

LEMMA ReplaceRevises ==
  ASSUME NEW b \in BotRecord, Ready(b), NEW d \in Side,
         NEW r, r = replaceOrderIfPriceChanged(b, d)
  PROVE  Revises(b, r)
<1> PICK S : S = Stale(b, d)
  OBVIOUS
<1>1. /\ r.sent = b.sent \o Cancels(S)
      /\ \A e \in Side : r.ordersMap[e] = IF e = d THEN Repriced(b, d)
                                          ELSE b.ordersMap[e]
  BY ReplaceFields
<1>2. S \in SUBSET OrderIds
  BY DEF Stale
<1>3. /\ Cancels(S) \in Seq(Request)
      /\ \A o \in S :
           \E k \in DOMAIN Cancels(S) : Cancels(S)[k] = CancelOrderRequest(o)
  BY <1>2, CancelsFields
<1>4. Joined(r.sent, b.sent, Cancels(S))
  BY <1>1, <1>3, QueueConcat DEF BotRecord
<1>5. \A o \in S : Cancelling(Cancels(S), o)
  BY <1>3 DEF Cancelling, CancelOrderRequest
<1>6. \A o : Cancelling(r.sent, o) <=> Cancelling(b.sent, o) \/ Cancelling(Cancels(S), o)
  BY <1>4, JoinedCancelling
<1>7. ASSUME NEW e \in Side, NEW o \in OrderIds
      PROVE  \/ r.ordersMap[e][o] = b.ordersMap[e][o]
             \/ /\ b.ordersMap[e][o] # None
                /\ r.ordersMap[e][o] # None /\ r.ordersMap[e][o].isReplaceOrder
                /\ Cancelling(r.sent, o)
  <2>1. CASE e # d
    BY <1>1, <2>1
  <2>3. CASE e = d /\ o \notin S
    BY <1>1, <2>3 DEF Repriced
  <2>2. CASE e = d /\ o \in S
    <3> PICK x : x = b.ordersMap[d][o]
      OBVIOUS
    <3> PICK price : price = calculateOrderPrice(b, d)
      OBVIOUS
    <3>1. x # None /\ x \in OrderReq
      BY <2>2 DEF Stale, BotRecord
    <3>2. r.ordersMap[d][o] = [x EXCEPT !.price = price, !.isReplaceOrder = TRUE]
      BY <1>1, <2>2 DEF Repriced
    <3>3. price \in Int
      BY PriceType
    <3>4. /\ [x EXCEPT !.price = price, !.isReplaceOrder = TRUE] \in OrderReq
          /\ [x EXCEPT !.price = price, !.isReplaceOrder = TRUE].isReplaceOrder
      BY <3>1, <3>3 DEF OrderReq
    <3>5. r.ordersMap[d][o] # None /\ r.ordersMap[d][o].isReplaceOrder
      BY <3>2, <3>4, NoOrderReqAssumption
    <3> QED
      BY <1>5, <1>6, <2>2, <3>1, <3>5
  <2> QED
    BY <2>1, <2>2, <2>3
<1> QED
  BY <1>6, <1>7 DEF Revises

LEMMA PlaceIfNoneRevises ==
  ASSUME NEW b \in BotRecord, NEW d \in Side, NEW p, p = placeOrderIfNone(b, d)
  PROVE  Revises(b, p)
<1>1. CASE p = b
  BY <1>1 DEF Revises
<1>2. CASE p = placeOrder(b, d, Quantity)
  <2> PICK r : r = PlaceOrderRequest(NextReqId(b), d, calculateOrderPrice(b, d),
                                     Quantity)
    OBVIOUS
  <2>1. p.sent = Append(b.sent, r) /\ p.ordersMap = b.ordersMap
    BY <1>2, PlaceOrderFields
  <2>2. \A k \in DOMAIN b.sent : k \in DOMAIN p.sent /\ p.sent[k] = b.sent[k]
    BY <2>1, AppendProperties DEF BotRecord
  <2> QED
    BY <2>1, <2>2 DEF Revises, Cancelling
<1> QED
  BY <1>1, <1>2 DEF placeOrderIfNone

LEMMA RequoteRevises ==
  ASSUME NEW b, Good(b)
  PROVE  Revises(b, Requote(b))
<1>1. CASE ~Ready(b)
  BY <1>1 DEF Requote, Revises
<1>2. CASE Ready(b)
  <2> DEFINE buy    == placeOrderIfNone(b, "Buy")
             placed == placeOrderIfNone(buy, "Sell")
             bids   == replaceOrderIfPriceChanged(placed, "Buy")
             asks   == replaceOrderIfPriceChanged(bids, "Sell")
  <2>1. "Buy" \in Side /\ "Sell" \in Side /\ b \in BotRecord
    BY DEF Side, Good
  <2>2. Good(buy) /\ Ready(buy) /\ Revises(b, buy)
    BY <1>2, <2>1, PlaceIfNoneGood, PlaceIfNoneRevises
  <2> HIDE DEF buy
  <2>3. buy \in BotRecord
    BY <2>2 DEF Good
  <2>4. Good(placed) /\ Ready(placed) /\ Revises(buy, placed)
    BY <2>1, <2>2, <2>3, PlaceIfNoneGood, PlaceIfNoneRevises
  <2> HIDE DEF placed
  <2>5. placed \in BotRecord
    BY <2>4 DEF Good
  <2>6. Good(bids) /\ Revises(placed, bids)
    BY <2>1, <2>4, <2>5, ReplaceGood, ReplaceRevises
  <2> HIDE DEF bids
  <2>7. bids \in BotRecord /\ Ready(bids)
    BY <2>1, <2>4, <2>6, ReplaceGood DEF Good, bids
  <2>8. Revises(bids, asks)
    BY <2>1, <2>7, ReplaceRevises
  <2>9. asks = Requote(b)
    BY <1>2 DEF Requote, bids, placed, buy
  <2> HIDE DEF asks
  <2>10. Revises(b, placed)
    BY <2>2, <2>4, RevisesTransitive
  <2>11. Revises(b, bids)
    BY <2>6, <2>10, RevisesTransitive
  <2> QED
    BY <2>8, <2>9, <2>11, RevisesTransitive
<1> QED
  BY <1>1, <1>2

LEMMA FinishRevises ==
  ASSUME NEW c, Good(c), NEW R, Orderly(R, c), Finish(c)
  PROVE  \E done \in BotRecord :
           /\ Orderly(R, done) /\ Kept(c, done) /\ Revises(c, done)
           /\ toExchange' = toExchange \o done.sent
           /\ bot'.orderReqMap = done.orderReqMap
           /\ bot'.ordersMap = done.ordersMap
           /\ bot'.positionSize = c.positionSize
<1> DEFINE done == Requote(c)
<1>1. done \in BotRecord
  BY RequoteGood DEF Good
<1>2. /\ Orderly(R, done) /\ Kept(c, done) /\ Revises(c, done)
      /\ done.positionSize = c.positionSize
  BY RequoteOrderly, RequoteRevises DEF SameMarket
<1>3. bot' = [done EXCEPT !.sent = <<>>] /\ toExchange' = toExchange \o done.sent
  BY DEF Finish
<1> HIDE DEF done
<1>4. /\ bot'.orderReqMap = done.orderReqMap /\ bot'.ordersMap = done.ordersMap
      /\ bot'.positionSize = done.positionSize
  BY <1>1, <1>3 DEF BotRecord
<1> QED
  BY <1>1, <1>2, <1>3, <1>4

(* The requests whose answers are under way are kept, and so are the order *)
(* ids and quantities and the position the handler leaves, whatever the    *)
(* tail places, replaces and sends.                                        *)
LEMMA FinishBooks ==
  ASSUME RobotInv, WireTypeOK, LinkInv, UNCHANGED exchangeVars,
         toBot' = toBot \/ (toBot # <<>> /\ toBot' = Tail(toBot)),
         NEW c, Good(c), NEW R, Orderly(R, c), Finish(c), Undisturbed(R)
  PROVE  /\ \E done \in BotRecord :
              /\ Orderly(R, done) /\ Revises(c, done)
              /\ Joined(toExchange', toExchange, done.sent)
              /\ bot'.orderReqMap = done.orderReqMap
              /\ bot'.ordersMap = done.ordersMap
         /\ toBot' \in Seq(Message)
         /\ \A i \in Ids(toBot') : bot'.orderReqMap[i] = bot.orderReqMap[i]
         /\ \A d \in Side, o \in OrderIds :
              /\ c.ordersMap[d][o] = None <=> bot'.ordersMap[d][o] = None
              /\ c.ordersMap[d][o] # None
                   => bot'.ordersMap[d][o].quantity = c.ordersMap[d][o].quantity
         /\ bot'.positionSize = c.positionSize
<1>1. PICK done \in BotRecord :
        /\ Orderly(R, done) /\ Kept(c, done) /\ Revises(c, done)
        /\ toExchange' = toExchange \o done.sent
        /\ bot'.orderReqMap = done.orderReqMap
        /\ bot'.ordersMap = done.ordersMap
        /\ bot'.positionSize = c.positionSize
  BY FinishRevises
<1>2. /\ done.sent \in Seq(Request) /\ toExchange \in Seq(Request)
      /\ toBot \in Seq(Message) /\ c \in BotRecord
  BY DEF BotRecord, RobotInv, WireTypeOK, Good
<1>3. Joined(toExchange', toExchange, done.sent)
  BY <1>1, <1>2, QueueConcat
<1>4. toBot' \in Seq(Message)
  <2>1. CASE toBot' = toBot
    BY <1>2, <2>1
  <2>2. CASE toBot # <<>> /\ toBot' = Tail(toBot)
    BY <1>2, <2>2, QueueTail
  <2> QED
    BY <2>1, <2>2
<1>5. /\ Ids(toExchange) \subseteq ReqIds /\ OwedIds \subseteq ReqIds
      /\ Ids(toBot') \subseteq ReqIds
  BY <1>2, IdsType, TailIds DEF LinkInv, IdInv
<1>6. \A i \in Ids(toBot') : bot'.orderReqMap[i] = bot.orderReqMap[i]
  <2>1. UNCHANGED owed /\ IdInv
    BY DEF exchangeVars, LinkInv
  <2>2. Undisturbed(bot'.orderReqMap)
    BY <1>1, <1>2, <1>3, <1>5, <2>1, RobotIds
  <2> QED
    BY <2>2 DEF Undisturbed
<1>7. \A d \in Side, o \in OrderIds :
        /\ c.ordersMap[d][o] = None <=> bot'.ordersMap[d][o] = None
        /\ c.ordersMap[d][o] # None
             => bot'.ordersMap[d][o].quantity = c.ordersMap[d][o].quantity
  BY <1>1, <1>2, KeptNone, KeptQuantity
<1> QED
  BY <1>1, <1>3, <1>4, <1>6, <1>7

(* A handler that leaves the books of the messages still under way keeps   *)
(* the invariant.                                                          *)
LEMMA RobotOrders ==
  ASSUME RobotInv, WireTypeOK, LinkInv, UNCHANGED exchangeVars,
         toBot' = toBot \/ (toBot # <<>> /\ toBot' = Tail(toBot)),
         "orders" \in subscribed, owed = {},
         NEW c, Good(c), NEW R, Orderly(R, c), Finish(c), Undisturbed(R),
         Orders(toBot', live, c.ordersMap, bot.orderReqMap),
         Priced(live, c.ordersMap, toExchange),
         AnswerPriced(toBot', live, bot.orderReqMap),
         \A i \in ReqIds : R[i] # None => i \in Ids(toExchange) \cup Ids(toBot')
  PROVE  OrderInv'
<1>1. PICK done \in BotRecord :
        /\ Orderly(R, done) /\ Revises(c, done)
        /\ Joined(toExchange', toExchange, done.sent)
        /\ bot'.orderReqMap = done.orderReqMap
        /\ bot'.ordersMap = done.ordersMap
  BY FinishBooks
<1>3. Joined(toExchange', toExchange, done.sent)
  BY <1>1
<1>4. toBot' \in Seq(Message)
  BY FinishBooks
<1>6. \A i \in Ids(toBot') : bot'.orderReqMap[i] = bot.orderReqMap[i]
  BY FinishBooks
<1>7. \A d \in Side, o \in OrderIds :
        /\ c.ordersMap[d][o] = None <=> bot'.ordersMap[d][o] = None
        /\ c.ordersMap[d][o] # None
             => bot'.ordersMap[d][o].quantity = c.ordersMap[d][o].quantity
  BY FinishBooks
<1>8. Orders(toBot', live, bot'.ordersMap, bot'.orderReqMap)
  BY <1>4, <1>6, <1>7, OrdersKept, SMTT(60)
<1>9. \A o : Cancelling(toExchange', o) <=>
               Cancelling(toExchange, o) \/ Cancelling(done.sent, o)
  BY <1>3, JoinedCancelling
<1>10. Priced(live, bot'.ordersMap, toExchange')
  <2> SUFFICES ASSUME NEW o \in OrderIds, live[o] # None,
                      done.ordersMap[live[o].direction][o] # None
               PROVE  IF done.ordersMap[live[o].direction][o].isReplaceOrder
                      THEN Cancelling(toExchange', o)
                      ELSE done.ordersMap[live[o].direction][o].price
                             = live[o].price
    BY <1>1 DEF Priced
  <2> PICK d : d = live[o].direction
    OBVIOUS
  <2>1. d \in Side
    BY DEF WireTypeOK, ExchangeTypeOK, LiveOrder
  <2>2. CASE done.ordersMap[d][o] = c.ordersMap[d][o]
    BY <1>9, <2>2 DEF Priced
  <2>3. CASE done.ordersMap[d][o] # c.ordersMap[d][o]
    BY <1>1, <1>9, <2>1, <2>3 DEF Revises
  <2> QED
    BY <2>2, <2>3
<1>11. AnswerPriced(toBot', live, bot'.orderReqMap)
  <2> SUFFICES ASSUME NEW k \in DOMAIN toBot', NEW o \in OrderIds, live[o] # None,
                      Names(toBot'[k], bot'.orderReqMap, live[o].direction, o)
               PROVE  bot'.orderReqMap[toBot'[k].id].price = live[o].price
    BY DEF AnswerPriced
  <2>1. toBot'[k].id \in Ids(toBot')
    BY DEF Names, Ids, Placements
  <2>2. Names(toBot'[k], bot.orderReqMap, live[o].direction, o)
    BY <1>6, <2>1 DEF Names
  <2> QED
    BY <1>6, <2>1, <2>2 DEF AnswerPriced
<1>12. Waiting(toExchange', toBot', bot'.orderReqMap)
  <2>1. /\ Distinct(toExchange) /\ Distinct(done.sent)
        /\ \A i \in ReqIds : bot'.orderReqMap[i] # None
             => R[i] # None \/ i \in Ids(done.sent)
    BY <1>1 DEF Orderly, LinkInv, IdInv
  <2>2. ASSUME NEW i \in Ids(toExchange) \cup Ids(done.sent)
        PROVE  i \in Ids(toExchange')
    <3>1. CASE i \in Ids(toExchange)
      <4>1. PICK k \in Placements(toExchange) : toExchange[k].id = i
        BY <3>1 DEF Ids
      <4>2. k \in Placements(toExchange') /\ toExchange'[k] = toExchange[k]
        BY <1>3, <4>1 DEF Joined, Placements
      <4> QED
        BY <4>1, <4>2 DEF Ids
    <3>2. CASE i \in Ids(done.sent)
      <4>1. PICK k \in Placements(done.sent) : done.sent[k].id = i
        BY <3>2 DEF Ids
      <4>2. \E j \in Placements(toExchange') : toExchange'[j] = done.sent[k]
        BY <1>3, <4>1 DEF Joined, Placements
      <4> QED
        BY <4>1, <4>2 DEF Ids
    <3> QED
      BY <3>1, <3>2
  <2> QED
    BY <2>1, <2>2 DEF Waiting
<1>13. "orders" \in subscribed' /\ owed' = {} /\ live' = live
  BY DEF exchangeVars
<1> QED
  BY <1>8, <1>10, <1>11, <1>12, <1>13 DEF OrderInv

-----------------------------------------------------------------------------
(* The message at the head of the queue is read as Reads says.             *)
LEMMA HandledReads ==
  ASSUME RobotInv, QuantityInv, toBot \in Seq(Message),
         Told(toBot, bot.ordersMap, bot.orderReqMap),
         NEW m \in Message, 1 \in DOMAIN toBot, m = toBot[1],
         NEW c, Handled(c, m)
  PROVE  Reads(m, bot.orderReqMap, bot.ordersMap, c.ordersMap)
<1> PICK M : M = bot.ordersMap
  OBVIOUS
<1> PICK N : N = c.ordersMap
  OBVIOUS
<1> PICK R : R = bot.orderReqMap
  OBVIOUS
<1> PICK x : x = m.orderId
  OBVIOUS
<1>1. m.type = "orders" => M[m.direction][x] # None
  <2>1. \A j \in DOMAIN toBot : ~(j < 1)
    BY LenProperties
  <2> QED
    BY <2>1 DEF Told
<1>2. ASSUME N = M, m.type # "orders", ~(m.type = "placeOrder" /\ m.isOk)
      PROVE  Reads(m, R, M, N)
  BY <1>2 DEF Reads, Names, Updates
<1>3. CASE Adopts(bot, c, m) /\ m.type = "positions"
  BY <1>2, <1>3 DEF Adopts, News, SameOrders
<1>4. CASE Refuses(bot, c, m)
  BY <1>2, <1>4 DEF Refuses
<1>5. CASE Confirms(bot, c, m) /\ m.isOk
  <2> PICK d : d = R[m.id].direction
    OBVIOUS
  <2>1. /\ d \in Side /\ x \in OrderIds /\ m.type = "placeOrder" /\ m.id \in ReqIds
        /\ R[m.id] \in OrderReq /\ KnownIn(bot, d) = {}
        /\ \A e \in Side, o \in OrderIds : ~(e = d /\ o = x) => N[e][o] = M[e][o]
        /\ N[d][x] = R[m.id]
    BY <1>5, ZenonT(60) DEF Confirms, ElsewhereSame
  <2>2. R[m.id] # None /\ R[m.id].quantity = Quantity
    BY <2>1, NoOrderReqAssumption DEF QuantityInv, RequestInv, Whole
  <2>3. M[d][x] = None
    BY <2>1 DEF KnownIn
  <2>4. \A e, o : (Names(m, R, e, o) <=> e = d /\ o = x) /\ ~Updates(m, e, o)
    BY <1>5, <2>1 DEF Names, Updates
  <2>5. /\ M[d][x] = None /\ N[d][x] # None /\ N[d][x].quantity = Quantity
        /\ \A e \in Side, o \in OrderIds : ~(e = d /\ o = x) => N[e][o] = M[e][o]
    BY <2>1, <2>2, <2>3
  <2>6. ASSUME NEW e \in Side, NEW o \in OrderIds
        PROVE  /\ ~Names(m, R, e, o) => N[e][o] = M[e][o]
               /\ Names(m, R, e, o) => /\ M[e][o] = None
                                       /\ N[e][o] # None /\ N[e][o].quantity = Quantity
    <3>1. CASE e = d /\ o = x
      BY <2>4, <2>5, <3>1, Zenon
    <3>2. CASE ~(e = d /\ o = x)
      <4>1. ~Names(m, R, e, o)
        BY <2>4, <3>2
      <4>2. N[e][o] = M[e][o]
        BY <1>5, <3>2, ZenonT(60) DEF Confirms, ElsewhereSame
      <4> QED
        BY <4>1, <4>2
    <3> QED
      BY <3>1, <3>2
  <2> QED
    BY <2>4, <2>6 DEF Reads
<1>6. CASE Executes(bot, c, m) /\ IsFill(m)
  <2> PICK d : d = m.direction
    OBVIOUS
  <2>1. /\ d \in Side /\ x \in OrderIds /\ m.type = "orders" /\ M[d][x] # None
        /\ \A e \in Side, o \in OrderIds : ~(e = d /\ o = x) => N[e][o] = M[e][o]
        /\ Reduced(M[d][x], N[d][x], m.remaining)
        /\ m.status # "Cancelled"
    BY <1>6 DEF Executes, ElsewhereSame, IsFill
  <2>2. m.remaining < M[d][x].quantity
    BY <1>6, <2>1 DEF QuantityInv, FillInv, FillOK
  <2>3. \A e, o : (Updates(m, e, o) <=> e = d /\ o = x) /\ ~Names(m, R, e, o)
    BY <2>1 DEF Names, Updates
  <2>4. IF Ends(m) THEN N[d][x] = None
        ELSE N[d][x] # None /\ N[d][x].quantity = m.remaining
    BY <2>1 DEF Ends, Reduced
  <2> QED
    BY <2>1, <2>2, <2>3, <2>4 DEF Reads
<1>7. CASE Withdraws(bot, c, m) /\ m.type = "orders" /\ m.status = "Cancelled"
  <2> PICK d : d = m.direction
    OBVIOUS
  <2>1. /\ d \in Side /\ x \in OrderIds /\ M[d][x] # None /\ Ends(m)
        /\ \A e \in Side, o \in OrderIds : ~(e = d /\ o = x) => N[e][o] = M[e][o]
        /\ N[d][x] = None
    BY <1>7, ZenonT(60) DEF Withdraws, ElsewhereSame, Ends
  <2>2. \A e, o : (Updates(m, e, o) <=> e = d /\ o = x) /\ ~Names(m, R, e, o)
    BY <1>7 DEF Names, Updates
  <2> QED
    BY <2>1, <2>2, SMTT(60) DEF Reads
<1> QED
  BY <1>1, <1>3, <1>4, <1>5, <1>6, <1>7 DEF Handled, Knows

(* The ids a queue loses with its head.                                    *)
LEMMA IdsOfTail ==
  ASSUME NEW S, NEW q \in Seq(S), q # <<>>
  PROVE  \A i \in Ids(q) : i \in Ids(Tail(q))
                             \/ (Head(q).type = "placeOrder" /\ i = Head(q).id)
<1> SUFFICES ASSUME NEW k \in Placements(q), k # 1
             PROVE  q[k].id \in Ids(Tail(q))
  BY QueueTail DEF Ids, Placements
<1>1. k - 1 \in DOMAIN Tail(q) /\ Tail(q)[k - 1] = q[k]
  BY QueueTail DEF Placements
<1> QED
  BY <1>1 DEF Ids, Placements

(* Whatever message it handles, the robot remembers only the requests      *)
(* whose answers are still under way.                                      *)
LEMMA DeliverWaiting ==
  ASSUME RobotInv, WireTypeOK, LinkInv, OrderInv, Deliver,
         NEW m, m = Head(toBot)
  PROVE  \E c, R :
           /\ Good(c) /\ Finish(c) /\ Handled(c, m)
           /\ Orderly(R, c) /\ Undisturbed(R)
           /\ \A i \in ReqIds : R[i] # None => i \in Ids(toExchange) \cup Ids(toBot')
<1>1. toBot # <<>> /\ toBot' = Tail(toBot) /\ toBot \in Seq(Message)
  BY DeliverHandles DEF WireTypeOK
<1>2. PICK c, R : /\ Good(c) /\ Finish(c) /\ Handled(c, m)
                  /\ Orderly(R, c) /\ Undisturbed(R)
                  /\ \A i \in ReqIds : R[i] # None =>
                       /\ bot.orderReqMap[i] # None
                       /\ m.type = "placeOrder" => i # m.id
  BY DeliverTidy
<1>3. \A i \in Ids(toBot) : i \in Ids(toBot') \/ (m.type = "placeOrder" /\ i = m.id)
  BY <1>1, IdsOfTail
<1>4. \A i \in ReqIds : R[i] # None => i \in Ids(toExchange) \cup Ids(toBot')
  BY <1>2, <1>3 DEF OrderInv, Waiting
<1> QED
  BY <1>2, <1>4

LEMMA DeliverOrders ==
  ASSUME RobotInv, WireTypeOK, LinkInv, QuantityInv, OrderInv, Deliver
  PROVE  OrderInv'
<1> PICK m : m = Head(toBot)
  OBVIOUS
<1> PICK t : t = Tail(toBot)
  OBVIOUS
<1> PICK R : R = bot.orderReqMap
  OBVIOUS
<1>1. /\ toBot # <<>> /\ toBot' = t /\ toBot \in Seq(Message)
      /\ UNCHANGED exchangeVars
      /\ m \in Message /\ 1 \in DOMAIN toBot /\ m = toBot[1]
  BY DeliverHandles DEF WireTypeOK
<1>2. PICK c, S :
        /\ Good(c) /\ Finish(c) /\ Handled(c, m)
        /\ Orderly(S, c) /\ Undisturbed(S)
        /\ \A i \in ReqIds : S[i] # None => i \in Ids(toExchange) \cup Ids(toBot')
  BY DeliverWaiting
<1>3. "orders" \in subscribed /\ owed = {}
  BY <1>1 DEF OrderInv, BeforeOrders
<1>4. Reads(m, R, bot.ordersMap, c.ordersMap)
  BY <1>1, <1>2, HandledReads DEF OrderInv, Orders
<1>5. Orders(t, live, c.ordersMap, R)
  BY <1>1, <1>4, OrdersRead DEF OrderInv
<1>6. \A k \in DOMAIN t : k + 1 \in DOMAIN toBot /\ t[k] = toBot[k + 1]
  BY <1>1, QueueTail
<1>7. AnswerPriced(t, live, R)
  BY <1>6 DEF OrderInv, AnswerPriced
<1>8. Priced(live, bot.ordersMap, toExchange)
  BY DEF OrderInv
(* The orders of c stand at the prices c says.                             *)
<1>9. Priced(live, c.ordersMap, toExchange)
  <2> SUFFICES ASSUME NEW o \in OrderIds, live[o] # None,
                      c.ordersMap[live[o].direction][o] # None
               PROVE  IF c.ordersMap[live[o].direction][o].isReplaceOrder
                      THEN Cancelling(toExchange, o)
                      ELSE c.ordersMap[live[o].direction][o].price = live[o].price
    BY DEF Priced
  <2> PICK d : d = live[o].direction
    OBVIOUS
  <2> PICK x : x = c.ordersMap[d][o]
    OBVIOUS
  <2> PICK y : y = bot.ordersMap[d][o]
    OBVIOUS
  <2>1. d \in Side
    BY DEF WireTypeOK, ExchangeTypeOK, LiveOrder
  <2>2. CASE /\ y # None /\ x.price = y.price
             /\ x.isReplaceOrder = y.isReplaceOrder
    BY <1>8, <2>2 DEF Priced
  <2>3. CASE x = y
    BY <1>8, <2>3 DEF Priced
  <2>4. CASE Confirms(bot, c, m) /\ m.isOk /\ d = R[m.id].direction /\ o = m.orderId
    <3>1. x = R[m.id] /\ m.id \in ReqIds /\ R[m.id] \in OrderReq /\ Names(m, R, d, o)
      BY <2>4 DEF Confirms, Names
    <3>2. ~R[m.id].isReplaceOrder
      BY <3>1, NoOrderReqAssumption DEF QuantityInv, RequestInv, Whole
    <3>3. R[m.id].price = live[o].price
      BY <1>1, <3>1 DEF OrderInv, AnswerPriced
    <3> QED
      BY <3>1, <3>2, <3>3
  <2>5. CASE Executes(bot, c, m) /\ d = m.direction /\ o = m.orderId
    BY <2>2, <2>5 DEF Executes, Reduced
  <2>6. CASE Withdraws(bot, c, m) /\ d = m.direction /\ o = m.orderId
    BY <2>6 DEF Withdraws
  <2>7. \/ c.ordersMap = bot.ordersMap
        \/ /\ Confirms(bot, c, m) /\ m.isOk
           /\ ElsewhereSame(bot, c, R[m.id].direction, m.orderId)
        \/ /\ Executes(bot, c, m) \/ Withdraws(bot, c, m)
           /\ ElsewhereSame(bot, c, m.direction, m.orderId)
    BY <1>2 DEF Handled, Adopts, Unmoved, News, SameOrders, Refuses, Confirms,
                Executes, Withdraws
  <2> QED
    BY <2>1, <2>3, <2>4, <2>5, <2>6, <2>7 DEF ElsewhereSame
<1> QED
  BY <1>1, <1>2, <1>3, <1>5, <1>7, <1>9, RobotOrders

(* News that are about no order.                                           *)
LEMMA NewsOrders ==
  ASSUME RobotInv, WireTypeOK, LinkInv, OrderInv, "orders" \in subscribed,
         UNCHANGED exchangeVars, toBot' = toBot,
         NEW c, Good(c), Finish(c), News(bot, c)
  PROVE  OrderInv'
<1>1. Orderly(bot.orderReqMap, c) /\ c.ordersMap = bot.ordersMap
  BY SilentOrderly DEF News, SameOrders, Placements
<1>2. Undisturbed(bot.orderReqMap)
  BY DEF Undisturbed
<1>3. /\ owed = {}
      /\ Orders(toBot', live, c.ordersMap, bot.orderReqMap)
      /\ Priced(live, c.ordersMap, toExchange)
      /\ AnswerPriced(toBot', live, bot.orderReqMap)
  BY <1>1 DEF OrderInv
<1>4. \A i \in ReqIds :
        bot.orderReqMap[i] # None => i \in Ids(toExchange) \cup Ids(toBot')
  BY DEF OrderInv, Waiting
<1> QED
  BY <1>1, <1>2, <1>3, <1>4, RobotOrders

-----------------------------------------------------------------------------
(* The exchange's steps, once the orders channel is subscribed to.         *)

(* No new order: what a request that is taken away asked for is done, or   *)
(* answered.                                                               *)
LEMMA ExchangeOrders ==
  ASSUME WireTypeOK, LinkInv, OrderInv, "orders" \in subscribed,
         UNCHANGED <<bot, owed>>, subscribed \subseteq subscribed',
         NEW m \in Message, ~(m.type = "placeOrder" /\ m.isOk), Says(m),
         Orders(toBot', live', bot.ordersMap, bot.orderReqMap),
         \A o \in OrderIds : live'[o] # None =>
           /\ live[o] # None
           /\ live'[o].direction = live[o].direction
           /\ live'[o].price = live[o].price,
         NEW r, r = Head(toExchange),
         \/ toExchange' = toExchange
         \/ /\ toExchange # <<>> /\ toExchange' = Tail(toExchange)
            /\ r.type = "cancelOrder" => live'[r.orderId] = None
            /\ r.type = "placeOrder"
                 => m.type = "placeOrder" /\ m.id = r.id /\ toBot' = Append(toBot, m)
  PROVE  OrderInv'
<1>1. toExchange \in Seq(Request) /\ toBot \in Seq(Message)
  BY DEF WireTypeOK
<1> PICK R : R = bot.orderReqMap
  OBVIOUS
<1> PICK M : M = bot.ordersMap
  OBVIOUS
<1>2. /\ \A k \in DOMAIN toBot' : \/ k \in DOMAIN toBot /\ toBot'[k] = toBot[k]
                                  \/ toBot'[k] = m
      /\ \A k \in Placements(toBot) : /\ k \in Placements(toBot')
                                      /\ toBot'[k] = toBot[k]
  BY <1>1, SaysFields
<1>3. Priced(live', M, toExchange')
  <2> SUFFICES ASSUME NEW o \in OrderIds, live'[o] # None,
                      M[live'[o].direction][o] # None
               PROVE  IF M[live'[o].direction][o].isReplaceOrder
                      THEN Cancelling(toExchange', o)
                      ELSE M[live'[o].direction][o].price = live'[o].price
    BY DEF Priced
  <2>1. /\ live[o] # None /\ live'[o].direction = live[o].direction
        /\ live'[o].price = live[o].price
    OBVIOUS
  <2>2. IF M[live[o].direction][o].isReplaceOrder
        THEN Cancelling(toExchange, o)
        ELSE M[live[o].direction][o].price = live[o].price
    BY <2>1 DEF OrderInv, Priced
  <2>3. ASSUME Cancelling(toExchange, o) PROVE Cancelling(toExchange', o)
    <3>1. CASE toExchange' = toExchange
      BY <2>3, <3>1
    <3>2. CASE toExchange' # toExchange
      <4>1. PICK k \in DOMAIN toExchange :
              toExchange[k].type = "cancelOrder" /\ toExchange[k].orderId = o
        BY <2>3 DEF Cancelling
      <4>2. k # 1
        BY <1>1, <3>2, <4>1, QueueTail
      <4>3. k - 1 \in DOMAIN toExchange' /\ toExchange'[k - 1] = toExchange[k]
        BY <1>1, <3>2, <4>1, <4>2, QueueTail
      <4> QED
        BY <4>1, <4>3 DEF Cancelling
    <3> QED
      BY <3>1, <3>2
  <2> QED
    BY <2>1, <2>2, <2>3
<1>4. AnswerPriced(toBot', live', R)
  <2> SUFFICES ASSUME NEW k \in DOMAIN toBot', NEW o \in OrderIds, live'[o] # None,
                      Names(toBot'[k], R, live'[o].direction, o)
               PROVE  R[toBot'[k].id].price = live'[o].price
    BY DEF AnswerPriced
  <2>1. k \in DOMAIN toBot /\ toBot'[k] = toBot[k]
    BY <1>2 DEF Names
  <2> QED
    BY <2>1 DEF OrderInv, AnswerPriced
<1>5. Waiting(toExchange', toBot', R)
  <2>1. Ids(toBot) \subseteq Ids(toBot')
    BY <1>2 DEF Ids
  <2>2. ASSUME NEW i \in Ids(toExchange)
        PROVE  i \in Ids(toExchange') \cup Ids(toBot')
    <3>1. CASE toExchange' = toExchange
      BY <3>1
    <3>2. CASE toExchange' # toExchange
      <4>1. i \in Ids(toExchange') \/ (r.type = "placeOrder" /\ i = r.id)
        BY <1>1, <3>2, IdsOfTail
      <4>2. r.type = "placeOrder" => r.id \in Ids(toBot')
        BY <1>1, <3>2, QueueAppend DEF Ids, Placements
      <4> QED
        BY <4>1, <4>2
    <3> QED
      BY <3>1, <3>2
  <2> QED
    BY <2>1, <2>2 DEF OrderInv, Waiting
<1> QED
  BY <1>3, <1>4, <1>5 DEF OrderInv

(* An order that can be executed is held, or its name is on the way.       *)
LEMMA LiveHeld ==
  ASSUME LinkInv, owed = {}, NEW o \in OrderIds, live[o] # None
  PROVE  Held(toBot, bot.ordersMap, bot.orderReqMap, live[o].direction, o)
<1>1. \/ bot.ordersMap[live[o].direction][o] # None
      \/ Answering(o, live[o].direction)
  BY DEF LinkInv, LiveInv
<1> QED
  BY <1>1 DEF Answering, Held, Named, Names, Placements

LEMMA WithdrawOrders ==
  ASSUME RobotInv, WireTypeOK, LinkInv, OrderInv, "orders" \in subscribed,
         NEW o \in OrderIds, live[o] # None, Withdraw(o),
         UNCHANGED <<bot, subscribed, owed>>,
         \/ toExchange' = toExchange
         \/ /\ toExchange # <<>> /\ toExchange' = Tail(toExchange)
            /\ Head(toExchange).type = "cancelOrder" /\ Head(toExchange).orderId = o
  PROVE  OrderInv'
<1> PICK d : d = live[o].direction
  OBVIOUS
<1> PICK m : m = OrderUpdate(o, d, "Cancelled", live[o].remaining)
  OBVIOUS
<1>1. toBot \in Seq(Message)
  BY DEF WireTypeOK
<1>2. live[o].direction \in Side /\ live[o].remaining \in 0..Quantity
  BY DEF WireTypeOK, ExchangeTypeOK, LiveOrder
<1>3. m \in Message /\ Updates(m, d, o) /\ Ends(m) /\ ~IsFill(m)
      /\ m.remaining = live[o].remaining /\ m.type # "placeOrder"
  BY <1>2 DEF OrderUpdate, Message, Updates, Ends, IsFill
<1>4. toBot' = Append(toBot, m)
  BY DEF Withdraw, Publish
<1>5. \A x \in OrderIds : live'[x] = IF x = o THEN None ELSE live[x]
  BY DEF Withdraw, WireTypeOK, ExchangeTypeOK
<1>6. Held(toBot, bot.ordersMap, bot.orderReqMap, d, o)
  BY LiveHeld DEF OrderInv
<1>7. Apart(live, live', o) /\ live'[o] = None
  BY <1>5 DEF Apart
<1>8. Orders(toBot', live', bot.ordersMap, bot.orderReqMap)
  BY <1>1, <1>2, <1>3, <1>4, <1>6, <1>7, OrdersUpdate DEF OrderInv
<1> PICK r : r = Head(toExchange)
  OBVIOUS
<1>9. r.type = "cancelOrder" => r.type # "placeOrder"
  OBVIOUS
<1> QED
  BY <1>3, <1>4, <1>5, <1>8, <1>9, ExchangeOrders DEF Says

LEMMA FillOrders ==
  ASSUME RobotInv, WireTypeOK, LinkInv, OrderInv, "orders" \in subscribed,
         NEW o \in OrderIds, NEW n \in 1..Quantity, Fill(o, n), UNCHANGED bot
  PROVE  OrderInv'
<1> PICK d : d = live[o].direction
  OBVIOUS
<1> PICK left : left = live[o].remaining - n
  OBVIOUS
<1> PICK m : m = OrderUpdate(o, d, IF left = 0 THEN "Filled" ELSE "PartiallyFilled",
                             left)
  OBVIOUS
<1>1. toBot \in Seq(Message)
  BY DEF WireTypeOK
<1>2. /\ live[o] # None /\ live[o] \in LiveOrder /\ d \in Side
      /\ live[o].remaining \in 0..Quantity
  BY DEF WireTypeOK, ExchangeTypeOK, LiveOrder, Fill
<1>3. left \in 0..Quantity /\ left < live[o].remaining
  <2>1. n \in 1..live[o].remaining
    BY DEF Fill
  <2> QED
    BY <1>2, <2>1
<1>4. /\ m \in Message /\ Updates(m, d, o) /\ IsFill(m)
      /\ m.remaining = left /\ m.type # "placeOrder"
      /\ Ends(m) <=> left = 0
  BY <1>2, <1>3 DEF OrderUpdate, Message, Updates, Ends, IsFill
<1>5. toBot' = Append(toBot, m)
  BY DEF Fill, Publish
<1>6. live' = [live EXCEPT ![o] = IF left = 0 THEN None
                                  ELSE [live[o] EXCEPT !.remaining = left]]
  BY DEF Fill
<1>7. /\ \A x \in OrderIds : x # o => live'[x] = live[x]
      /\ IF left = 0 THEN live'[o] = None
         ELSE live'[o] = [live[o] EXCEPT !.remaining = left]
  BY <1>6 DEF WireTypeOK, ExchangeTypeOK
<1>8. left # 0 => /\ live'[o] \in LiveOrder /\ live'[o].remaining = left
                  /\ live'[o].direction = d /\ live'[o].price = live[o].price
  BY <1>2, <1>3, <1>7, SMTT(60) DEF LiveOrder
<1>9. left # 0 => live'[o] # None
  BY <1>8, NoLiveOrderAssumption
<1>10. Apart(live, live', o)
  BY <1>7 DEF Apart
<1>11. Held(toBot, bot.ordersMap, bot.orderReqMap, d, o)
  BY <1>2, LiveHeld DEF OrderInv
<1>12. IF Ends(m) THEN live'[o] = None
       ELSE live'[o] # None /\ live'[o].direction = d /\ live'[o].remaining = m.remaining
  BY <1>4, <1>7, <1>8, <1>9
<1>13. Orders(toBot', live', bot.ordersMap, bot.orderReqMap)
  BY <1>1, <1>2, <1>3, <1>4, <1>5, <1>10, <1>11, <1>12, OrdersUpdate DEF OrderInv
<1>14. \A x \in OrderIds : live'[x] # None =>
         /\ live[x] # None
         /\ live'[x].direction = live[x].direction
         /\ live'[x].price = live[x].price
  BY <1>2, <1>7, <1>8
<1>15. UNCHANGED <<toExchange, subscribed, owed>>
  BY DEF Fill
<1> QED
  BY <1>4, <1>5, <1>13, <1>14, <1>15, ExchangeOrders DEF Says

LEMMA Appended ==
  ASSUME NEW q \in Seq(Message), NEW m \in Message, NEW t, t = Append(q, m)
  PROVE  /\ \A k \in DOMAIN q : k \in DOMAIN t /\ t[k] = q[k]
         /\ \A k \in DOMAIN t : \/ k \in DOMAIN q /\ t[k] = q[k]
                                \/ t[k] = m
         /\ \E k \in DOMAIN t : t[k] = m
<1>1. /\ Len(q) + 1 \in DOMAIN t /\ t[Len(q) + 1] = m
      /\ \A k \in DOMAIN q : k \in DOMAIN t /\ t[k] = q[k]
      /\ \A k \in DOMAIN t : k \in DOMAIN q \/ k = Len(q) + 1
  BY QueueAppend
<1> QED
  BY <1>1

LEMMA AcceptOrders ==
  ASSUME RobotInv, WireTypeOK, LinkInv, QuantityInv, OrderInv,
         "orders" \in subscribed, ResponseFirst, UNCHANGED bot,
         NEW o \in OrderIds, Fresh(o), AcceptOrder(o)
  PROVE  OrderInv'
<1> PICK r : r = Head(toExchange)
  OBVIOUS
<1> PICK R : R = bot.orderReqMap
  OBVIOUS
<1> PICK M : M = bot.ordersMap
  OBVIOUS
<1>0. PICK m : m = PlaceOrderResponse(r.id, TRUE, o)
  OBVIOUS
<1>1. toExchange \in Seq(Request) /\ toBot \in Seq(Message)
  BY DEF WireTypeOK
<1>2. /\ toExchange # <<>> /\ toExchange' = Tail(toExchange)
      /\ r \in Request /\ r.type = "placeOrder"
      /\ 1 \in Placements(toExchange) /\ toExchange[1] = r
  BY <1>1, ReceivesFields DEF AcceptOrder, Receives, LinkInv, IdInv
<1>3. r.id \in ReqIds /\ r.direction \in Side
  BY <1>2 DEF Request
<1>4. R[r.id] = Record(r)
  BY <1>2 DEF LinkInv, IdInv
<1>5. /\ R[r.id].direction = r.direction /\ R[r.id].price = r.price
      /\ R[r.id].quantity = r.quantity
  BY <1>4 DEF Record
<1>6. r.quantity = Quantity
  <2>1. R[r.id] # None
    BY <1>1, <1>2, <1>4, PlacementRecord
  <2> QED
    BY <1>3, <1>5, <2>1 DEF QuantityInv, RequestInv, Whole
<1>7. /\ m \in Message /\ Names(m, R, r.direction, o)
      /\ m.type = "placeOrder" /\ m.id = r.id /\ m.orderId = o
  BY <1>0, <1>3, <1>5 DEF PlaceOrderResponse, Message, Names
<1>8. toBot' = Append(toBot, m) /\ owed' = owed /\ subscribed' = subscribed
  BY <1>0 DEF AcceptOrder
<1> PICK x : x = [direction |-> r.direction, price |-> r.price,
                  remaining |-> r.quantity]
  OBVIOUS
<1>9. /\ x.direction = r.direction /\ x.price = r.price /\ x.remaining = Quantity
      /\ x # None
  <2>1. x \in LiveOrder
    BY <1>2 DEF Request, LiveOrder
  <2> QED
    BY <1>6, <2>1, NoLiveOrderAssumption
<1>10. \A y \in OrderIds : live'[y] = IF y = o THEN x ELSE live[y]
  BY DEF AcceptOrder, WireTypeOK, ExchangeTypeOK
<1>11. Apart(live, live', o) /\ live'[o] = x
  BY <1>10 DEF Apart
<1>12. /\ \A d \in Side : M[d][o] = None
       /\ \A k \in DOMAIN toBot : toBot[k].type # "positions" => toBot[k].orderId # o
  BY DEF Fresh
<1>13. Orders(toBot', live', M, R)
  <2>1. m \in Message /\ Names(m, R, r.direction, o)
    BY <1>7
  <2>2. live'[o] # None /\ live'[o].direction = r.direction
        /\ live'[o].remaining = Quantity
    BY <1>9, <1>11
  <2>3. Orders(toBot, live, M, R)
    BY DEF OrderInv
  <2>4. Orders(Append(toBot, m), live', M, R)
    BY <1>1, <1>3, <1>11, <1>12, <2>1, <2>2, <2>3, OrdersAccept
  <2> QED
    BY <1>8, <2>4
<1>14. Priced(live', M, toExchange')
  <2> SUFFICES ASSUME NEW y \in OrderIds, live'[y] # None,
                      M[live'[y].direction][y] # None
               PROVE  IF M[live'[y].direction][y].isReplaceOrder
                      THEN Cancelling(toExchange', y)
                      ELSE M[live'[y].direction][y].price = live'[y].price
    BY DEF Priced
  <2>1. y # o /\ live'[y] = live[y]
    BY <1>3, <1>9, <1>10, <1>12
  <2>2. IF M[live[y].direction][y].isReplaceOrder
        THEN Cancelling(toExchange, y)
        ELSE M[live[y].direction][y].price = live[y].price
    BY <2>1 DEF OrderInv, Priced
  <2>3. ASSUME Cancelling(toExchange, y) PROVE Cancelling(toExchange', y)
    <3>1. PICK k \in DOMAIN toExchange :
            toExchange[k].type = "cancelOrder" /\ toExchange[k].orderId = y
      BY <2>3 DEF Cancelling
    <3>2. k # 1
      BY <1>2, <3>1
    <3>3. k - 1 \in DOMAIN toExchange' /\ toExchange'[k - 1] = toExchange[k]
      BY <1>1, <1>2, <3>1, <3>2, QueueTail
    <3> QED
      BY <3>1, <3>3 DEF Cancelling
  <2> QED
    BY <2>1, <2>2, <2>3
<1> PICK t : t = toBot'
  OBVIOUS
<1>15. /\ \A k \in DOMAIN toBot : k \in DOMAIN t /\ t[k] = toBot[k]
       /\ \A k \in DOMAIN t : \/ k \in DOMAIN toBot /\ t[k] = toBot[k]
                              \/ t[k] = m
       /\ \E k \in DOMAIN t : t[k] = m
  BY <1>1, <1>7, <1>8, Appended
<1>16. AnswerPriced(toBot', live', R)
  <2> SUFFICES ASSUME NEW k \in DOMAIN toBot', NEW y \in OrderIds, live'[y] # None,
                      Names(toBot'[k], R, live'[y].direction, y)
               PROVE  R[toBot'[k].id].price = live'[y].price
    BY DEF AnswerPriced
  <2>1. CASE toBot'[k] = m
    BY <1>5, <1>7, <1>9, <1>10, <2>1 DEF Names
  <2>2. CASE k \in DOMAIN toBot /\ toBot'[k] = toBot[k]
    <3>1. y # o
      BY <1>12, <2>2 DEF Names
    <3> QED
      BY <1>10, <2>2, <3>1 DEF OrderInv, AnswerPriced
  <2> QED
    BY <1>15, <2>1, <2>2
<1>17. Waiting(toExchange', toBot', R)
  <2>1. Ids(toBot) \subseteq Ids(t) /\ r.id \in Ids(t)
    <3>1. \A k \in Placements(toBot) : k \in Placements(t) /\ t[k] = toBot[k]
      BY <1>15 DEF Placements
    <3>2. \E k \in Placements(t) : t[k].id = r.id
      BY <1>7, <1>15 DEF Placements
    <3> QED
      BY <3>1, <3>2 DEF Ids
  <2>2. Ids(toBot) \subseteq Ids(toBot') /\ r.id \in Ids(toBot')
    BY <2>1
  <2>3. \A i \in Ids(toExchange) : i \in Ids(toExchange') \/ i = r.id
    BY <1>1, <1>2, IdsOfTail
  <2> QED
    BY <2>2, <2>3 DEF OrderInv, Waiting
<1> QED
  BY <1>8, <1>13, <1>14, <1>16, <1>17 DEF OrderInv

-----------------------------------------------------------------------------
(* Before the orders channel is subscribed to there are no orders, and     *)
(* none can come.                                                          *)
LEMMA NoBooks ==
  ASSUME RobotInv, ~Ready(bot)
  PROVE  /\ \A d \in Side, o \in OrderIds : bot.ordersMap[d][o] = None
         /\ \A i \in ReqIds : bot.orderReqMap[i] = None
<1>2. \A d \in Side : PendingIn(bot, d) = {} /\ KnownIn(bot, d) = {}
  BY DEF RobotInv, MarketKnown, SlotInv, SlotOK
<1>3. ASSUME NEW i \in ReqIds, bot.orderReqMap[i] # None
      PROVE  FALSE
  <2>1. bot.orderReqMap[i].direction \in Side
    BY <1>3 DEF RobotInv, BotTypeOK, OrderReq
  <2> QED
    BY <1>2, <1>3, <2>1 DEF PendingIn
<1>4. \A d \in Side, o \in OrderIds : bot.ordersMap[d][o] = None
  BY <1>2 DEF KnownIn
<1> QED
  BY <1>3, <1>4

LEMMA EmptyBooks ==
  ASSUME NEW q, q = <<>>, NEW L, NEW M, NEW R, NEW out,
         \A o \in OrderIds : L[o] = None,
         \A d \in Side, o \in OrderIds : M[d][o] = None,
         \A i \in ReqIds : R[i] = None
  PROVE  /\ Orders(q, L, M, R)
         /\ Priced(L, M, out) /\ AnswerPriced(q, L, R) /\ Waiting(out, q, R)
<1>1. DOMAIN q = {}
  OBVIOUS
<1>2. \A d, o : ~Named(q, R, d, o)
  BY <1>1 DEF Named
<1>3. \A d \in Side, o \in OrderIds : ~Held(q, M, R, d, o)
  BY <1>2 DEF Held
<1>4. \A d, r : \A o \in OrderIds : ~LeftIs(q, L, d, o, r)
  BY <1>1 DEF LeftIs
<1>5. Ordered(q) /\ Over(q, L) /\ Told(q, M, R)
  BY <1>1 DEF Ordered, Over, Told
<1>6. Lives(q, L, M, R) /\ Counted(q, L, M, R) /\ Least(q, L)
  <2>1. Lives(q, L, M, R)
    BY <1>3 DEF Lives
  <2>2. Counted(q, L, M, R)
    BY <1>4 DEF Counted
  <2>3. Least(q, L)
    BY <1>4 DEF Least
  <2> QED
    BY <2>1, <2>2, <2>3
<1>7. Priced(L, M, out) /\ AnswerPriced(q, L, R) /\ Waiting(out, q, R)
  BY <1>1 DEF Priced, AnswerPriced, Waiting
<1> QED
  BY <1>5, <1>6, <1>7 DEF Orders

(* A robot that does not know the market does nothing of its own.          *)
LEMMA IdleFinish ==
  ASSUME NEW c \in BotRecord, c.bestBuyPrice = None, Finish(c)
  PROVE  /\ bot'.ordersMap = c.ordersMap
         /\ bot'.orderReqMap = c.orderReqMap
         /\ bot'.bestBuyPrice = None
         /\ toExchange' = toExchange \o c.sent
<1>1. Requote(c) = c
  BY DEF Requote, Ready
<1>2. bot' = [c EXCEPT !.sent = <<>>] /\ toExchange' = toExchange \o c.sent
  BY <1>1 DEF Finish
<1> QED
  BY <1>2 DEF BotRecord

LEMMA BeforeOrdersStep ==
  ASSUME RobotInv, WireTypeOK, OrderInv, "orders" \notin subscribed, [Next]_vars
  PROVE  OrderInv'
<1> PICK q3 : q3 = << SubscribeRequest("orders"), SubscribeRequest("orderbook"),
                      SubscribeRequest("positions") >>
  OBVIOUS
<1> PICK q4 : q4 = << SubscribeRequest("instruments"), SubscribeRequest("orders"),
                      SubscribeRequest("orderbook"), SubscribeRequest("positions") >>
  OBVIOUS
<1>1. /\ bot.bestBuyPrice = None
      /\ "orderbook" \notin subscribed /\ toBot = <<>> /\ owed = {}
      /\ \A o \in OrderIds : live[o] = None
      /\ IF session = "ready" THEN toExchange \in {q4, q3} ELSE toExchange = <<>>
  BY DEF OrderInv, BeforeOrders
<1>2. /\ \A d \in Side, o \in OrderIds : bot.ordersMap[d][o] = None
      /\ \A i \in ReqIds : bot.orderReqMap[i] = None
  BY <1>1, NoBooks DEF Ready
<1>3. ASSUME bot'.ordersMap = bot.ordersMap, bot'.orderReqMap = bot.orderReqMap,
             UNCHANGED <<live, toBot, owed>>,
             \/ "orders" \in subscribed'
             \/ /\ bot'.bestBuyPrice = None
                /\ "orderbook" \notin subscribed' /\ "orders" \notin subscribed'
                /\ IF session' = "ready" THEN toExchange' \in {q4, q3}
                   ELSE toExchange' = <<>>
      PROVE  OrderInv'
  <2>1. /\ Orders(toBot', live', bot'.ordersMap, bot'.orderReqMap)
        /\ Priced(live', bot'.ordersMap, toExchange')
        /\ AnswerPriced(toBot', live', bot'.orderReqMap)
        /\ Waiting(toExchange', toBot', bot'.orderReqMap)
    <3>1. /\ toBot' = <<>> /\ \A o \in OrderIds : live'[o] = None
          /\ \A d \in Side, o \in OrderIds : bot'.ordersMap[d][o] = None
          /\ \A i \in ReqIds : bot'.orderReqMap[i] = None
      BY <1>1, <1>2, <1>3
    <3> QED
      BY <3>1, EmptyBooks
  <2>2. toBot' = <<>> /\ owed' = {} /\ \A o \in OrderIds : live'[o] = None
    BY <1>1, <1>3
  <2>3. ("orders" \in subscribed \/ BeforeOrders)'
    BY <1>3, <2>2 DEF BeforeOrders
  <2> QED
    BY <2>1, <2>2, <2>3 DEF OrderInv
<1>4. bot \in BotRecord /\ bot.sent = <<>>
  BY RobotInvGood DEF Good
<1>5. /\ SubscribeRequest("instruments") \in Request
      /\ SubscribeRequest("orders") \in Request
      /\ SubscribeRequest("orderbook") \in Request
      /\ SubscribeRequest("positions") \in Request
  BY DEF SubscribeRequest, Request, Channel
<1>6. /\ q3 \in Seq(Request) /\ q4 \in Seq(Request) /\ Tail(q4) = q3
      /\ Head(q4) = SubscribeRequest("instruments")
      /\ Head(q3) = SubscribeRequest("orders")
  BY <1>5
<1>7. toExchange # <<>> => /\ Head(toExchange).type = "subscribe"
                           /\ session = "ready"
  BY <1>1, <1>6 DEF SubscribeRequest
<1>8. CASE Connect
  <2>1. PICK isOk \in BOOLEAN :
          /\ session = "opening" /\ connectHandler(isOk)
          /\ session' = IF isOk THEN "ready" ELSE "refused"
    BY <1>8 DEF Connect
  <2>2. UNCHANGED <<toBot, exchangeVars>>
    BY <1>8 DEF Connect
  <2>3. PICK s : s = IF isOk THEN q4 ELSE <<>>
    OBVIOUS
  <2>4. s \in Seq(Request)
    BY <1>6, <2>3
  <2>5. PICK c : c = [bot EXCEPT !.sent = s]
    OBVIOUS
  <2>6. Finish(c)
    BY <2>1, <2>3, <2>5 DEF connectHandler
  <2>7. /\ c \in BotRecord /\ c.bestBuyPrice = None /\ c.sent = s
        /\ c.ordersMap = bot.ordersMap /\ c.orderReqMap = bot.orderReqMap
    BY <1>1, <1>4, <2>4, <2>5 DEF BotRecord
  <2>8. /\ bot'.ordersMap = bot.ordersMap /\ bot'.orderReqMap = bot.orderReqMap
        /\ bot'.bestBuyPrice = None /\ toExchange' = toExchange \o s
    BY <2>6, <2>7, IdleFinish
  <2>9. toExchange' = s
    <3>1. toExchange = <<>>
      BY <1>1, <2>1
    <3>2. <<>> \o s = s
      BY <2>4, ConcatEmptySeq
    <3> QED
      BY <2>8, <3>1, <3>2
  <2>10. IF session' = "ready" THEN toExchange' \in {q4, q3} ELSE toExchange' = <<>>
    BY <2>1, <2>3, <2>9
  <2> QED
    BY <1>1, <1>3, <2>2, <2>8, <2>10 DEF exchangeVars
<1>9. CASE Market
  <2>1. /\ UNCHANGED <<toBot, exchangeVars, session>> /\ session = "ready"
        /\ \/ \E increment \in Increments : InstrumentsMessage(increment)
           \/ OtherMessage
    BY <1>1, <1>9 DEF Market, RobotStep
  <2>2. PICK c \in BotRecord :
          /\ Finish(c) /\ c.bestBuyPrice = None /\ c.sent = <<>>
          /\ c.ordersMap = bot.ordersMap /\ c.orderReqMap = bot.orderReqMap
    <3>1. CASE OtherMessage
      BY <1>1, <1>4, <3>1 DEF OtherMessage
    <3>2. ASSUME NEW increment \in Increments, InstrumentsMessage(increment)
          PROVE  \E c \in BotRecord :
            /\ Finish(c) /\ c.bestBuyPrice = None /\ c.sent = <<>>
            /\ c.ordersMap = bot.ordersMap /\ c.orderReqMap = bot.orderReqMap
      <4>1. PICK c : c = [bot EXCEPT !.minPriceIncrement = increment]
        OBVIOUS
      <4>2. Finish(c)
        BY <3>2, <4>1 DEF InstrumentsMessage
      <4>3. increment \in Nat \ {0}
        OBVIOUS
      <4>4. /\ c \in BotRecord /\ c.bestBuyPrice = None /\ c.sent = <<>>
            /\ c.ordersMap = bot.ordersMap /\ c.orderReqMap = bot.orderReqMap
        BY <1>1, <1>4, <4>1, <4>3 DEF BotRecord
      <4> QED
        BY <4>2, <4>4
    <3> QED
      BY <2>1, <3>1, <3>2
  <2>3. /\ bot'.ordersMap = bot.ordersMap /\ bot'.orderReqMap = bot.orderReqMap
        /\ bot'.bestBuyPrice = None /\ toExchange' = toExchange \o <<>>
    BY <2>2, IdleFinish
  <2>4. toExchange' = toExchange
    BY <2>3, ConcatEmptySeq DEF RobotInv
  <2> QED
    BY <1>1, <1>3, <2>1, <2>3, <2>4 DEF exchangeVars
<1>10. CASE ExchangeStep(ProcessSubscribe)
  <2>1. /\ toExchange # <<>> /\ toExchange' = Tail(toExchange)
        /\ UNCHANGED <<bot, session, live, owed>>
        /\ subscribed' = subscribed \cup {Head(toExchange).channel}
        /\ Head(toExchange).channel # "positions" => toBot' = toBot
    BY <1>10 DEF ExchangeStep, ProcessSubscribe, Receives
  <2>2. CASE toExchange = q4
    <3>1. Head(toExchange).channel = "instruments" /\ toExchange' = q3
      BY <1>6, <2>1, <2>2 DEF SubscribeRequest
    <3> QED
      BY <1>1, <1>3, <1>7, <2>1, <3>1
  <2>3. CASE toExchange = q3
    <3>1. Head(toExchange).channel = "orders"
      BY <1>6, <2>3 DEF SubscribeRequest
    <3> QED
      BY <1>3, <2>1, <3>1
  <2> QED
    BY <1>1, <1>7, <2>1, <2>2, <2>3
<1>11. CASE UNCHANGED vars
  BY <1>1, <1>3, <1>11 DEF vars, exchangeVars
<1>12. \A type : Receives(type) => type = "subscribe"
  BY <1>7 DEF Receives
<1>13. ~ExchangeStep(Accept) /\ ~ExchangeStep(ProcessCancel) /\ ~Refuse
  BY <1>12 DEF ExchangeStep, Accept, AcceptOrder, ProcessCancel, Refuse, RejectOrder
<1>14. ~ExchangeStep(SendOwedResponse) /\ ~Trade /\ ~Withdrawn /\ ~Deliver
  BY <1>1 DEF ExchangeStep, SendOwedResponse, Trade, Fill, Withdrawn,
              CancelByExchange, Deliver
<1>15. Serve => \/ ExchangeStep(ProcessSubscribe) \/ ExchangeStep(Accept)
                \/ ExchangeStep(ProcessCancel) \/ ExchangeStep(SendOwedResponse)
  BY DEF Serve, ExchangeStep
<1> QED
  BY <1>8, <1>9, <1>10, <1>11, <1>13, <1>14, <1>15 DEF Next

-----------------------------------------------------------------------------
BooksInv == RefinementInv /\ OrderInv

LEMMA InitBooks == Init => BooksInv
<1> SUFFICES ASSUME Init PROVE OrderInv
  BY InitQuantities DEF BooksInv
<1>1. /\ toExchange = <<>> /\ toBot = <<>> /\ session = "opening"
      /\ subscribed = {} /\ owed = {}
      /\ \A o \in OrderIds : live[o] = None
  BY DEF Init, ExchangeInit
<1>2. /\ bot.bestBuyPrice = None
      /\ \A d \in Side, o \in OrderIds : bot.ordersMap[d][o] = None
      /\ \A i \in ReqIds : bot.orderReqMap[i] = None
  BY DEF Init, BotInit
<1>3. BeforeOrders
  BY <1>1, <1>2 DEF BeforeOrders
<1>4. /\ Orders(toBot, live, bot.ordersMap, bot.orderReqMap)
      /\ Priced(live, bot.ordersMap, toExchange)
      /\ AnswerPriced(toBot, live, bot.orderReqMap)
      /\ Waiting(toExchange, toBot, bot.orderReqMap)
  <2>1. /\ toBot = <<>> /\ \A o \in OrderIds : live[o] = None
        /\ \A d \in Side, o \in OrderIds : bot.ordersMap[d][o] = None
        /\ \A i \in ReqIds : bot.orderReqMap[i] = None
    BY <1>1, <1>2
  <2> QED
    BY <2>1, EmptyBooks
<1> QED
  BY <1>1, <1>3, <1>4 DEF OrderInv

LEMMA NextBooks ==
  ASSUME ResponseFirst
  PROVE  BooksInv /\ [Next]_vars => BooksInv'
<1> SUFFICES ASSUME BooksInv, [Next]_vars PROVE OrderInv'
  BY NextQuantities DEF BooksInv
<1>1. RobotInv /\ WireTypeOK /\ LinkInv /\ QuantityInv /\ OrderInv
  BY IInvParts DEF BooksInv, RefinementInv, LinkIInv
<1>2. CASE "orders" \notin subscribed
  BY <1>1, <1>2, BeforeOrdersStep
<1>3. CASE "orders" \in subscribed
  <2>1. toExchange \in Seq(Request) /\ toBot \in Seq(Message)
    BY <1>1 DEF WireTypeOK
  <2> PICK r : r = Head(toExchange)
    OBVIOUS
  <2>2. CASE ExchangeStep(ProcessSubscribe)
    <3> PICK m : m = PositionsSnapshot(IF position = 0 THEN None ELSE position)
      OBVIOUS
    <3>1. m \in Message /\ m.type = "positions"
      BY <1>1 DEF PositionsSnapshot, Message, WireTypeOK, ExchangeTypeOK
    <3>2. /\ UNCHANGED <<bot, owed, live>> /\ Says(m)
          /\ subscribed \subseteq subscribed'
          /\ toExchange # <<>> /\ toExchange' = Tail(toExchange)
          /\ r.type = "subscribe"
      BY <2>2 DEF ExchangeStep, ProcessSubscribe, Says, Receives
    <3>3. Orders(toBot', live', bot.ordersMap, bot.orderReqMap)
      <4>1. Orders(toBot, live, bot.ordersMap, bot.orderReqMap)
        BY <1>1 DEF OrderInv
      <4>2. Orders(Append(toBot, m), live, bot.ordersMap, bot.orderReqMap)
        BY <2>1, <3>1, <4>1, OrdersNeutral
      <4> QED
        BY <3>2, <4>1, <4>2 DEF Says
    <3> QED
      BY <1>1, <1>3, <3>1, <3>2, <3>3, ExchangeOrders
  <2>3. CASE ExchangeStep(Accept)
    BY <1>1, <1>3, <2>3, AcceptOrders DEF ExchangeStep, Accept
  <2>4. CASE ExchangeStep(ProcessCancel)
    <3> PICK o : o = r.orderId
      OBVIOUS
    <3>1. /\ UNCHANGED <<bot, owed, subscribed>>
          /\ toExchange # <<>> /\ toExchange' = Tail(toExchange)
          /\ r.type = "cancelOrder"
          /\ \/ live[o] # None /\ Withdraw(o)
             \/ live[o] = None /\ UNCHANGED <<live, toBot>>
      BY <2>4 DEF ExchangeStep, ProcessCancel, Receives
    <3>2. o \in OrderIds
      <4>1. r \in Request
        BY <2>1, <3>1, QueueTail
      <4> QED
        BY <3>1, <4>1 DEF Request
    <3>3. CASE live[o] # None /\ Withdraw(o)
      BY <1>1, <1>3, <3>1, <3>2, <3>3, WithdrawOrders
    <3>4. CASE live[o] = None /\ UNCHANGED <<live, toBot>>
      <4> PICK m : m = PositionsSnapshot(None)
        OBVIOUS
      <4>1. m \in Message /\ m.type = "positions"
        BY DEF PositionsSnapshot, Message
      <4>2. Orders(toBot', live', bot.ordersMap, bot.orderReqMap)
        BY <1>1, <3>4 DEF OrderInv
      <4> QED
        BY <1>1, <1>3, <3>1, <3>4, <4>1, <4>2, ExchangeOrders DEF Says
    <3> QED
      BY <3>1, <3>3, <3>4
  <2>5. CASE ExchangeStep(SendOwedResponse)
    BY <1>1, <2>5 DEF ExchangeStep, SendOwedResponse, OrderInv
  <2>6. CASE Trade
    BY <1>1, <1>3, <2>6, FillOrders DEF Trade, ExchangeStep
  <2>7. CASE Refuse
    <3>0. PICK m : m = PlaceOrderResponse(r.id, FALSE, None)
      OBVIOUS
    <3>1. /\ UNCHANGED <<bot, owed, live, subscribed>>
          /\ toBot' = Append(toBot, m)
          /\ toExchange # <<>> /\ toExchange' = Tail(toExchange)
          /\ r.type = "placeOrder"
      BY <2>7, <3>0 DEF Refuse, ExchangeStep, RejectOrder, Receives
    <3>2. r.id \in ReqIds
      <4>1. r \in Request
        BY <2>1, <3>1, QueueTail
      <4> QED
        BY <3>1, <4>1 DEF Request
    <3>3. /\ m \in Message /\ ~(m.type = "placeOrder" /\ m.isOk)
          /\ m.type # "orders" /\ m.type = "placeOrder" /\ m.id = r.id
      BY <3>0, <3>2 DEF PlaceOrderResponse, Message
    <3>4. Orders(toBot', live', bot.ordersMap, bot.orderReqMap)
      BY <1>1, <2>1, <3>1, <3>3, OrdersNeutral DEF OrderInv
    <3> QED
      BY <1>1, <1>3, <3>1, <3>3, <3>4, ExchangeOrders DEF Says
  <2>8. CASE Withdrawn
    BY <1>1, <1>3, <2>8, WithdrawOrders
       DEF Withdrawn, ExchangeStep, CancelByExchange
  <2>9. CASE Connect \/ Market
    BY <1>1, <1>3, <2>9, ConnectNews, MarketNews, NewsOrders DEF Unmoved
  <2>10. CASE Deliver
    BY <1>1, <2>10, DeliverOrders
  <2>11. CASE UNCHANGED vars
    <3>1. UNCHANGED <<bot, toExchange, toBot, subscribed, live, owed>>
      BY <2>11 DEF vars, exchangeVars
    <3> QED
      BY <1>1, <1>3, <3>1 DEF OrderInv
  <2>12. Serve => \/ ExchangeStep(ProcessSubscribe) \/ ExchangeStep(Accept)
                  \/ ExchangeStep(ProcessCancel) \/ ExchangeStep(SendOwedResponse)
    BY DEF Serve, ExchangeStep
  <2> QED
    BY <2>2, <2>3, <2>4, <2>5, <2>6, <2>7, <2>8, <2>9, <2>10, <2>11, <2>12 DEF Next
<1> QED
  BY <1>2, <1>3

LEMMA BooksInvariance ==
  ASSUME ResponseFirst
  PROVE  Spec => []BooksInv
BY InitBooks, NextBooks, PTL DEF Spec

-----------------------------------------------------------------------------
(* What the invariant says when nothing is under way.                      *)
LEMMA QuietBooks == BooksInv => NoGhostOrder
<1> SUFFICES ASSUME BooksInv, Quiet, NEW d \in Side
             PROVE  /\ Pending(d) = {}
                    /\ Known(d) = LiveOn(d)
                    /\ \A o \in Known(d) :
                         /\ bot.ordersMap[d][o].price = live[o].price
                         /\ bot.ordersMap[d][o].quantity = live[o].remaining
                         /\ ~bot.ordersMap[d][o].isReplaceOrder
  BY DEF NoGhostOrder
<1> PICK q : q = toBot
  OBVIOUS
<1> PICK M : M = bot.ordersMap
  OBVIOUS
<1> PICK R : R = bot.orderReqMap
  OBVIOUS
<1>1. /\ toExchange = <<>> /\ q = <<>> /\ owed = {}
      /\ LinkInv /\ OrderInv /\ ExchangeTypeOK
  BY IInvParts DEF Quiet, BooksInv, RefinementInv, LinkIInv, WireTypeOK
<1>2. DOMAIN q = {} /\ DOMAIN toExchange = {}
  BY <1>1
<1>3. /\ Waiting(toExchange, q, R) /\ Priced(live, M, toExchange)
      /\ Lives(q, live, M, R) /\ Counted(q, live, M, R)
  BY <1>1 DEF OrderInv, Orders
<1>4. Pending(d) = {}
  <2>1. Ids(q) = {} /\ Ids(toExchange) = {}
    BY <1>2 DEF Ids, Placements
  <2> QED
    BY <1>3, <2>1 DEF Waiting, Pending, PendingIn
<1>5. /\ \A o : ~Named(q, R, d, o) /\ \A r : ~Filling(q, d, o, r)
      /\ \A o : ~Cancelling(toExchange, o)
      /\ \A o, r : LeftIs(q, live, d, o, r) =>
           live[o] # None /\ live[o].direction = d /\ live[o].remaining = r
  BY <1>2 DEF Named, Filling, Cancelling, LeftIs
<1>6. ASSUME NEW o \in OrderIds, M[d][o] # None
      PROVE  /\ live[o] # None /\ live[o].direction = d
             /\ M[d][o].quantity = live[o].remaining
             /\ M[d][o].price = live[o].price
             /\ ~M[d][o].isReplaceOrder
  <2>1. PICK r \in 0..Quantity : LeftIs(q, live, d, o, r)
    BY <1>3, <1>6 DEF Lives, Held
  <2>2. live[o] # None /\ live[o].direction = d /\ live[o].remaining = r
    BY <1>5, <2>1
  <2>3. M[d][o].quantity = r
    BY <1>3, <1>5, <2>1 DEF Counted
  <2>4. IF M[d][o].isReplaceOrder THEN Cancelling(toExchange, o)
        ELSE M[d][o].price = live[o].price
    BY <1>3, <1>6, <2>2 DEF Priced
  <2> QED
    BY <1>5, <2>2, <2>3, <2>4
<1>7. ASSUME NEW o \in OrderIds, live[o] # None, live[o].direction = d
      PROVE  M[d][o] # None
  <2>1. Held(q, M, R, d, o)
    BY <1>1, <1>7, LiveHeld
  <2> QED
    BY <1>5, <2>1 DEF Held
<1>8. Known(d) = LiveOn(d)
  BY <1>6, <1>7 DEF Known, KnownIn, LiveOn
<1> QED
  BY <1>4, <1>6, <1>8 DEF Known, KnownIn

(* Whenever nothing is under way, the orders the robot believes in are the *)
(* orders that live at the exchange, each with the price and the quantity  *)
(* it has there, and none waits for a replacement (messageHandler's maps   *)
(* after any sequence of answers and updates), provided the answer to a    *)
(* placement comes before any update about its order.                      *)
THEOREM NoGhostOrderCorrect ==
  ASSUME ResponseFirst
  PROVE  Spec => []NoGhostOrder
BY BooksInvariance, QuietBooks, PTL

(* Under the same assumption, whenever nothing is under way and the robot  *)
(* knows the market, every live order stands at the price the formula      *)
(* gives for the present market and position, and each side the position   *)
(* limit allows has its order: the tail of messageHandler has nothing left *)
(* to place or to replace.                                                 *)
THEOREM QuotedCorrect ==
  ASSUME ResponseFirst
  PROVE  Spec => []Quoted
<1>1. BooksInv /\ Steady => Quoted
  <2> SUFFICES ASSUME BooksInv, Steady, Quiet, Ready(bot), NEW d \in Side
               PROVE  /\ \A o \in LiveOn(d) :
                           live[o].price = calculateOrderPrice(bot, d)
                      /\ BelowLimit(bot, d) => LiveOn(d) # {}
    BY DEF Quoted
  <2>1. RobotInv /\ Good(bot)
    BY IInvParts, RobotInvGood DEF BooksInv, RefinementInv, LinkIInv
  <2>2. Requote(bot) = bot
    BY DEF Steady, Quiet
  <2>3. /\ Pending(d) = {} /\ Known(d) = LiveOn(d)
        /\ \A o \in Known(d) : bot.ordersMap[d][o].price = live[o].price
    BY QuietBooks DEF NoGhostOrder
  <2>4. Stale(bot, d) = {}
    BY <2>1, <2>2, RequotePriced
  <2>5. ASSUME NEW o \in LiveOn(d)
        PROVE  live[o].price = calculateOrderPrice(bot, d)
    BY <2>3, <2>4 DEF Known, KnownIn, Stale
  <2>6. ASSUME BelowLimit(bot, d)
        PROVE  LiveOn(d) # {}
    <3>1. bot.isOrderPlaced[d]
      <4> SUFFICES ASSUME ~bot.isOrderPlaced[d] PROVE FALSE
        OBVIOUS
      <4>1. SlotOf(bot, d) = Promise!Empty
        BY <2>1, SlotOfValue
      <4>2. SlotOf(bot, d) = Promise!Asked
        BY <2>1, <2>2, <2>6, <4>1, RequoteSlot DEF Settled, Promise!Empty
      <4> QED
        BY <4>1, <4>2 DEF Promise!Empty, Promise!Asked
    <3>2. \E o \in OrderIds : KnownIn(bot, d) = {o}
      BY <2>1, <2>3, <3>1 DEF Good, SlotOK, Pending
    <3> QED
      BY <2>3, <3>2 DEF Known
  <2> QED
    BY <2>5, <2>6
<1> QED
  BY <1>1, BooksInvariance, SteadyCorrect, PTL

-----------------------------------------------------------------------------
(* The updates under way will take n from side d's order o.                *)
Owing(q, L, M, R, d, o, n) == \E r \in 0..Quantity :
  /\ LeftIs(q, L, d, o, r)
  /\ \/ M[d][o] # None /\ n = M[d][o].quantity - r
     \/ Named(q, R, d, o) /\ n = Quantity - r

(* They will take n from the side's order, nothing if it has none.         *)
Due(q, L, M, R, d, n) ==
  \/ n = 0 /\ \A o \in OrderIds : ~Held(q, M, R, d, o)
  \/ \E o \in OrderIds : Owing(q, L, M, R, d, o, n)

(* The position p is the account's, up to what is under way.               *)
Accounted(q, L, M, R, p, account) == \E buy, sell \in Int :
  /\ Due(q, L, M, R, "Buy", buy) /\ Due(q, L, M, R, "Sell", sell)
  /\ p + buy - sell = account

(* What the robot's position counts: the account's position, or, with a    *)
(* configured start, its changes from there.                               *)
Counting(start, p) ==
  p + IF UseConfigStartPositionSize THEN PositionSizeStart - start ELSE 0

(* A snapshot under way still says what the account's position is.         *)
Current(q, p) == \A k \in DOMAIN q :
  q[k].type = "positions" => p = IF q[k].size = None THEN 0 ELSE q[k].size

AccountInv ==
  IF bot.positionSize = None
  THEN /\ ~UseConfigStartPositionSize /\ StartPositions # {}
       /\ Current(toBot, position)
  ELSE \E start \in StartPositions :
         Accounted(toBot, live, bot.ordersMap, bot.orderReqMap, bot.positionSize,
                   Counting(start, position))

(* A side has one order, or will.                                          *)
One(q, M, R) == \A d \in Side, x, y \in OrderIds :
  Held(q, M, R, d, x) /\ Held(q, M, R, d, y) => x = y

Quantities(M) == \A d \in Side, o \in OrderIds :
  M[d][o] # None => M[d][o].quantity \in Int

LEMMA OneHeld ==
  ASSUME RobotInv, WireTypeOK, LinkInv
  PROVE  /\ One(toBot, bot.ordersMap, bot.orderReqMap)
         /\ Quantities(bot.ordersMap)
<1>1. Quantities(bot.ordersMap)
  BY DEF RobotInv, BotTypeOK, OrderReq, Quantities
<1> PICK M : M = bot.ordersMap
  OBVIOUS
<1> PICK R : R = bot.orderReqMap
  OBVIOUS
<1>2. ASSUME NEW k \in DOMAIN toBot, NEW d \in Side, NEW o, Names(toBot[k], R, d, o)
      PROVE  toBot[k].id \in PendingIn(bot, d) /\ k \in Placements(toBot)
  <2>1. k \in Placements(toBot) /\ toBot[k].id \in Ids(toBot)
    BY <1>2 DEF Names, Placements, Ids
  <2>2. R[toBot[k].id] # None
    BY <2>1 DEF LinkInv, IdInv
  <2>3. toBot[k].id \in ReqIds
    BY <1>2, MessageFields DEF WireTypeOK, Names
  <2> QED
    BY <1>2, <2>1, <2>2, <2>3 DEF PendingIn, Names
<1>3. ASSUME NEW d \in Side, NEW x \in OrderIds, NEW y \in OrderIds,
             Held(toBot, M, R, d, x), Held(toBot, M, R, d, y)
      PROVE  x = y
  <2>1. \A o \in OrderIds : M[d][o] # None <=> o \in KnownIn(bot, d)
    BY DEF KnownIn
  <2>2. SlotOK(bot, d)
    BY DEF RobotInv, SlotInv
  <2>3. CASE PendingIn(bot, d) = {}
    <3>1. \A o : ~Named(toBot, R, d, o)
      BY <1>2, <2>3 DEF Named
    <3>2. x \in KnownIn(bot, d) /\ y \in KnownIn(bot, d)
      BY <1>3, <2>1, <3>1 DEF Held
    <3> QED
      BY <2>2, <3>2 DEF SlotOK
  <2>4. CASE PendingIn(bot, d) # {}
    <3>1. KnownIn(bot, d) = {} /\ \E i \in ReqIds : PendingIn(bot, d) = {i}
      BY <2>2, <2>4 DEF SlotOK
    <3>2. PICK j \in DOMAIN toBot : Names(toBot[j], R, d, x)
      BY <1>3, <2>1, <3>1 DEF Held, Named
    <3>3. PICK k \in DOMAIN toBot : Names(toBot[k], R, d, y)
      BY <1>3, <2>1, <3>1 DEF Held, Named
    <3>4. /\ j \in Placements(toBot) /\ k \in Placements(toBot)
          /\ toBot[j].id = toBot[k].id
      BY <1>2, <3>1, <3>2, <3>3
    <3>5. j = k
      BY <3>4 DEF LinkInv, IdInv, Distinct
    <3> QED
      BY <3>2, <3>3, <3>5 DEF Names
  <2> QED
    BY <2>3, <2>4
<1> QED
  BY <1>1, <1>3 DEF One

-----------------------------------------------------------------------------
(* What is due, when the robot reads the message at the head of the queue. *)
Taken(m, M, d) == IF IsFill(m) /\ m.direction = d
                  THEN M[d][m.orderId].quantity - m.remaining ELSE 0

LEMMA DueRead ==
  ASSUME NEW q \in Seq(Message), q # <<>>, NEW L, NEW M, NEW R, NEW N,
         Orders(q, L, M, R), Reads(q[1], R, M, N), One(q, M, R), Quantities(M),
         NEW d \in Side, NEW n \in Int, Due(q, L, M, R, d, n)
  PROVE  Due(Tail(q), L, N, R, d, n - Taken(q[1], M, d))
<1> PICK m : m = q[1]
  OBVIOUS
<1> PICK t : t = Tail(q)
  OBVIOUS
<1>1. m \in Message /\ Ordered(q) /\ Over(q, L) /\ Counted(q, L, M, R)
  BY QueueTail DEF Orders
<1>2. SaysMore(q, t, m, R, L)
  BY TailSays
<1>3. ASSUME NEW o
      PROVE  /\ Named(q, R, d, o) <=> Named(t, R, d, o) \/ Names(m, R, d, o)
             /\ \A r : Filling(q, d, o, r) <=>
                  \/ Filling(t, d, o, r)
                  \/ Updates(m, d, o) /\ IsFill(m) /\ m.remaining = r
             /\ \A r : LeftIs(q, L, d, o, r) <=>
                  \/ LeftIs(t, L, d, o, r)
                  \/ Updates(m, d, o) /\ Ends(m) /\ m.remaining = r
  BY <1>2 DEF SaysMore
<1>4. ASSUME NEW o, Updates(m, d, o)
      PROVE  /\ ~Named(t, R, d, o)
             /\ Ends(m) => \A r : ~LeftIs(t, L, d, o, r) /\ ~Filling(t, d, o, r)
  BY <1>1, <1>4, ReadLast
<1>5. ASSUME NEW o \in OrderIds
      PROVE  /\ ~Names(m, R, d, o) /\ ~Updates(m, d, o) => N[d][o] = M[d][o]
             /\ Names(m, R, d, o) => /\ M[d][o] = None
                                     /\ N[d][o] # None /\ N[d][o].quantity = Quantity
             /\ Updates(m, d, o) =>
                  /\ M[d][o] # None
                  /\ IF Ends(m) THEN N[d][o] = None
                     ELSE N[d][o] # None /\ N[d][o].quantity = m.remaining
  BY DEF Reads
<1>6. ASSUME NEW o, Names(m, R, d, o) PROVE ~Updates(m, d, o)
  BY <1>6 DEF Names, Updates
(* No other order of the side is read or will be.                          *)
<1>7. ASSUME NEW x \in OrderIds, Updates(m, d, x), NEW y \in OrderIds, x # y
      PROVE  ~Held(q, M, R, d, y) /\ ~Held(t, N, R, d, y)
  <2>1. ~Held(q, M, R, d, y)
    BY <1>5, <1>7 DEF Held, One
  <2>2. ~Updates(m, d, y)
    BY <1>7 DEF Updates
  <2>3. ~Named(t, R, d, y) /\ ~Names(m, R, d, y)
    BY <1>3, <2>1 DEF Held
  <2> QED
    BY <1>5, <2>1, <2>2, <2>3 DEF Held
<1>8. (\E x \in OrderIds : Updates(m, d, x)) <=> m.type = "orders" /\ m.direction = d
  BY <1>1, MessageFields DEF Updates
<1>9. CASE \E x \in OrderIds : Updates(m, d, x)
  <2>1. PICK x \in OrderIds : Updates(m, d, x)
    BY <1>9
  <2>2. /\ m.orderId = x /\ m.direction = d /\ m.type = "orders"
        /\ m.remaining \in 0..Quantity
        /\ IsFill(m) \/ Ends(m)
    BY <1>1, <2>1, MessageFields DEF Updates
  <2>3. M[d][x] # None /\ M[d][x].quantity \in Int
    BY <1>5, <2>1 DEF Quantities
  <2>4. ~Named(q, R, d, x) /\ ~Named(t, R, d, x)
    BY <1>3, <1>4, <1>6, <2>1
  <2>5. \A y \in OrderIds : Held(q, M, R, d, y) => y = x
    BY <1>7, <2>1
  <2>6. PICK r \in 0..Quantity : LeftIs(q, L, d, x, r) /\ n = M[d][x].quantity - r
    <3>1. PICK o \in OrderIds : Owing(q, L, M, R, d, o, n)
      BY <2>3 DEF Due, Held
    <3>2. o = x
      BY <2>5, <3>1 DEF Owing, Held
    <3> QED
      BY <2>4, <3>1, <3>2 DEF Owing
  <2>7. CASE Ends(m)
    <3>1. r = m.remaining
      BY <1>3, <1>4, <2>1, <2>6, <2>7
    <3>2. \A o \in OrderIds : ~Held(t, N, R, d, o)
      BY <1>5, <1>7, <2>1, <2>4, <2>7 DEF Held
    <3>3. IsFill(m) => n - Taken(m, M, d) = 0
      BY <2>2, <2>3, <2>6, <3>1 DEF Taken
    <3>4. ASSUME ~IsFill(m) PROVE n = 0
      <4>1. ~Filling(q, d, x, r)
        BY <1>3, <1>4, <2>1, <2>7, <3>4
      <4>2. M[d][x].quantity = r
        BY <1>1, <2>4, <2>6, <4>1 DEF Counted
      <4> QED
        BY <2>6, <4>2
    <3>5. ~IsFill(m) => n - Taken(m, M, d) = 0
      BY <3>4 DEF Taken
    <3> QED
      BY <3>2, <3>3, <3>5 DEF Due
  <2>8. CASE ~Ends(m)
    <3>1. IsFill(m) /\ Taken(m, M, d) = M[d][x].quantity - m.remaining
      BY <2>2, <2>8 DEF Taken
    <3>2. LeftIs(t, L, d, x, r)
      BY <1>3, <2>6, <2>8
    <3>3. N[d][x] # None /\ N[d][x].quantity = m.remaining
      BY <1>5, <2>1, <2>8
    <3>4. n - Taken(m, M, d) = N[d][x].quantity - r
      <4> PICK held : held = M[d][x].quantity
        OBVIOUS
      <4>1. /\ held \in Int /\ m.remaining \in Int /\ n = held - r
            /\ Taken(m, M, d) = held - m.remaining
        BY <2>2, <2>3, <2>6, <3>1
      <4>2. n - (held - m.remaining) = m.remaining - r
        BY <4>1
      <4> QED
        BY <3>3, <4>1, <4>2
    <3> QED
      BY <3>2, <3>3, <3>4 DEF Due, Owing
  <2> QED
    BY <2>7, <2>8
<1>10. CASE ~(\E x \in OrderIds : Updates(m, d, x))
  <2>1. Taken(m, M, d) = 0 /\ n - Taken(m, M, d) = n
    BY <1>8, <1>10 DEF Taken, IsFill
  <2>2. CASE n = 0 /\ \A o \in OrderIds : ~Held(q, M, R, d, o)
    <3>1. \A o \in OrderIds : ~Held(t, N, R, d, o)
      BY <1>3, <1>5, <1>10, <2>2 DEF Held
    <3> QED
      BY <2>1, <2>2, <3>1 DEF Due
  <2>3. ASSUME NEW o \in OrderIds, NEW r \in 0..Quantity, LeftIs(q, L, d, o, r),
               \/ M[d][o] # None /\ n = M[d][o].quantity - r
               \/ Named(q, R, d, o) /\ n = Quantity - r
        PROVE  Owing(t, L, N, R, d, o, n)
    <3>1. LeftIs(t, L, d, o, r)
      BY <1>3, <1>10, <2>3
    <3>2. \/ N[d][o] # None /\ n = N[d][o].quantity - r
          \/ Named(t, R, d, o) /\ n = Quantity - r
      BY <1>3, <1>5, <1>10, <2>3
    <3> QED
      BY <3>1, <3>2 DEF Owing
  <2> QED
    BY <2>1, <2>2, <2>3 DEF Due, Owing
<1> QED
  BY <1>9, <1>10

-----------------------------------------------------------------------------
(* What is due, when the robot changes prices and other requests.          *)
LEMMA DueKept ==
  ASSUME NEW q, NEW L, NEW M, NEW N, NEW R, NEW S,
         \A d \in Side, o \in OrderIds :
           /\ M[d][o] = None <=> N[d][o] = None
           /\ M[d][o] # None => N[d][o].quantity = M[d][o].quantity,
         \A i \in Ids(q) : S[i] = R[i],
         NEW d \in Side, NEW n, Due(q, L, M, R, d, n)
  PROVE  Due(q, L, N, S, d, n)
<1>1. ASSUME NEW k \in DOMAIN q, NEW o
      PROVE  Names(q[k], S, d, o) <=> Names(q[k], R, d, o)
  BY DEF Names, Ids, Placements
<1>2. \A o : Named(q, S, d, o) <=> Named(q, R, d, o)
  BY <1>1 DEF Named
<1>3. \A o \in OrderIds : Held(q, N, S, d, o) <=> Held(q, M, R, d, o)
  BY <1>2 DEF Held
<1>4. \A o \in OrderIds : Owing(q, L, M, R, d, o, n) => Owing(q, L, N, S, d, o, n)
  BY <1>2 DEF Owing
<1> QED
  BY <1>3, <1>4 DEF Due

(* When the exchange sends a message that is about no order.               *)
LEMMA DueNeutral ==
  ASSUME NEW q \in Seq(Message), NEW m \in Message, NEW L, NEW M, NEW R,
         m.type # "orders", ~(m.type = "placeOrder" /\ m.isOk),
         NEW d, NEW n, Due(q, L, M, R, d, n)
  PROVE  Due(Append(q, m), L, M, R, d, n)
<1> PICK t : t = Append(q, m)
  OBVIOUS
<1>1. ~Ends(m) /\ \A o : ~Names(m, R, d, o)
  BY DEF Ends, Names
<1>2. SaysMore(t, q, m, R, L)
  BY AppendSays
<1>3. ASSUME NEW o
      PROVE  /\ Named(t, R, d, o) <=> Named(q, R, d, o)
             /\ \A r : LeftIs(t, L, d, o, r) <=> LeftIs(q, L, d, o, r)
  BY <1>1, <1>2 DEF SaysMore
<1>4. \A o : Held(t, M, R, d, o) <=> Held(q, M, R, d, o)
  BY <1>3 DEF Held
<1>5. \A o \in OrderIds : Owing(q, L, M, R, d, o, n) => Owing(t, L, M, R, d, o, n)
  BY <1>3 DEF Owing
<1> QED
  BY <1>4, <1>5 DEF Due

(* When it accepts an order, of a side that had none.                      *)
LEMMA DueAccept ==
  ASSUME NEW q \in Seq(Message), NEW m \in Message, NEW L, NEW K, NEW M, NEW R,
         NEW side \in Side, NEW x \in OrderIds, Names(m, R, side, x),
         \A o \in OrderIds : ~Held(q, M, R, side, o),
         \A d \in Side : M[d][x] = None,
         \A k \in DOMAIN q : q[k].type # "positions" => q[k].orderId # x,
         Apart(L, K, x),
         K[x] # None, K[x].direction = side, K[x].remaining = Quantity,
         NEW d \in Side, NEW n \in Int, Due(q, L, M, R, d, n)
  PROVE  Due(Append(q, m), K, M, R, d, n)
<1> PICK t : t = Append(q, m)
  OBVIOUS
<1>1. ~Ends(m) /\ \A e, o : Names(m, R, e, o) <=> e = side /\ o = x
  BY DEF Names, Ends
<1>2. SaysMore(t, q, m, R, K)
  BY AppendSays
<1>3. ASSUME NEW o
      PROVE  /\ Named(t, R, d, o) <=> Named(q, R, d, o) \/ (d = side /\ o = x)
             /\ \A r : LeftIs(t, K, d, o, r) <=> LeftIs(q, K, d, o, r)
  BY <1>1, <1>2 DEF SaysMore
<1>4. CASE d = side
  <2>1. n = 0
    BY <1>4 DEF Due, Owing, Held
  <2>2. LeftIs(t, K, d, x, Quantity)
    BY <1>3, <1>4 DEF LeftIs
  <2>3. Named(t, R, d, x) /\ n = Quantity - Quantity /\ Quantity \in 0..Quantity
    BY <1>3, <1>4, <2>1
  <2> QED
    BY <2>2, <2>3 DEF Due, Owing
<1>5. CASE d # side
  <2>1. \A o : Held(t, M, R, d, o) <=> Held(q, M, R, d, o)
    BY <1>3, <1>5 DEF Held
  <2>2. ~Named(q, R, d, x)
    BY DEF Named, Names
  <2>3. ASSUME NEW o \in OrderIds, Owing(q, L, M, R, d, o, n)
        PROVE  Owing(t, K, M, R, d, o, n)
    <3>1. o # x
      BY <2>2, <2>3 DEF Owing
    <3>2. \A r : LeftIs(q, L, d, o, r) => LeftIs(t, K, d, o, r)
      BY <1>3, <3>1 DEF LeftIs, Apart
    <3> QED
      BY <1>3, <2>3, <3>2 DEF Owing
  <2> QED
    BY <2>1, <2>3 DEF Due
<1> QED
  BY <1>4, <1>5

(* When it says what is left of a live order, if anything.                 *)
LEMMA DueUpdate ==
  ASSUME NEW q \in Seq(Message), NEW m \in Message, NEW L, NEW K, NEW M, NEW R,
         Over(q, L), One(q, M, R), Quantities(M),
         NEW side \in Side, NEW x \in OrderIds, Updates(m, side, x),
         L[x] # None, L[x].direction = side, L[x].remaining \in 0..Quantity,
         Held(q, M, R, side, x),
         Apart(L, K, x),
         IF Ends(m) THEN K[x] = None
         ELSE K[x] # None /\ K[x].direction = side /\ K[x].remaining = m.remaining,
         NEW d \in Side, NEW n \in Int, Due(q, L, M, R, d, n)
  PROVE  Due(Append(q, m), K, M, R, d,
             n + IF d = side THEN L[x].remaining - m.remaining ELSE 0)
<1> PICK t : t = Append(q, m)
  OBVIOUS
<1>1. /\ m.remaining \in 0..Quantity
      /\ \A e, o : /\ ~Names(m, R, e, o)
                   /\ Updates(m, e, o) <=> e = side /\ o = x
  BY MessageFields DEF Names, Updates
<1>2. SaysMore(t, q, m, R, K)
  BY AppendSays
<1>3. ASSUME NEW o
      PROVE  /\ Named(t, R, d, o) <=> Named(q, R, d, o)
             /\ \A r : LeftIs(t, K, d, o, r) <=>
                  \/ LeftIs(q, K, d, o, r)
                  \/ d = side /\ o = x /\ Ends(m) /\ m.remaining = r
  <2>1. Named(t, R, d, o) <=> Named(q, R, d, o)
    BY <1>1, <1>2 DEF SaysMore
  <2>2. ASSUME NEW r
        PROVE  LeftIs(t, K, d, o, r) <=>
                 \/ LeftIs(q, K, d, o, r)
                 \/ d = side /\ o = x /\ Ends(m) /\ m.remaining = r
    <3>1. LeftIs(t, K, d, o, r) <=>
            \/ LeftIs(q, K, d, o, r)
            \/ Updates(m, d, o) /\ Ends(m) /\ m.remaining = r
      BY <1>2 DEF SaysMore
    <3> QED
      BY <1>1, <3>1
  <2> QED
    BY <2>1, <2>2
<1>4. \A k \in DOMAIN q : ~(Updates(q[k], d, x) /\ Ends(q[k]))
  BY DEF Over, Updates
<1>5. \A r : LeftIs(q, L, d, x, r) => d = side /\ r = L[x].remaining
  BY <1>4 DEF LeftIs
<1>6. \A o : Held(t, M, R, d, o) <=> Held(q, M, R, d, o)
  BY <1>3 DEF Held
<1>7. CASE d = side
  <2>1. PICK o \in OrderIds : Owing(q, L, M, R, d, o, n)
    BY <1>7 DEF Due
  <2>2. o = x
    BY <1>7, <2>1 DEF Owing, Held, One
  <2>3. \/ M[d][x] # None /\ n = M[d][x].quantity - L[x].remaining
        \/ Named(q, R, d, x) /\ n = Quantity - L[x].remaining
    BY <1>5, <2>1, <2>2 DEF Owing
  <2>4. LeftIs(t, K, d, x, m.remaining)
    BY <1>3, <1>7 DEF LeftIs
  <2> PICK left : left = n + (L[x].remaining - m.remaining)
    OBVIOUS
  <2>5. \/ M[d][x] # None /\ left = M[d][x].quantity - m.remaining
        \/ Named(t, R, d, x) /\ left = Quantity - m.remaining
    BY <1>1, <1>3, <2>3 DEF Quantities
  <2>6. Due(t, K, M, R, d, left)
    BY <1>1, <2>4, <2>5 DEF Due, Owing
  <2> QED
    BY <1>7, <2>6
<1>8. CASE d # side
  <2>1. ASSUME NEW o \in OrderIds, Owing(q, L, M, R, d, o, n)
        PROVE  Owing(t, K, M, R, d, o, n)
    <3>1. o # x
      BY <1>5, <1>8, <2>1 DEF Owing
    <3>2. \A r : LeftIs(q, L, d, o, r) => LeftIs(t, K, d, o, r)
      BY <1>3, <3>1 DEF LeftIs, Apart
    <3> QED
      BY <1>3, <2>1, <3>2 DEF Owing
  <2>2. Due(t, K, M, R, d, n)
    BY <1>6, <2>1 DEF Due
  <2> QED
    BY <1>8, <2>2
<1> QED
  BY <1>7, <1>8

(* When the robot's tail has run.                                          *)
LEMMA AccountedKept ==
  ASSUME NEW q, NEW L, NEW M, NEW N, NEW R, NEW S,
         \A d \in Side, o \in OrderIds :
           /\ M[d][o] = None <=> N[d][o] = None
           /\ M[d][o] # None => N[d][o].quantity = M[d][o].quantity,
         \A i \in Ids(q) : S[i] = R[i],
         NEW p, NEW a, Accounted(q, L, M, R, p, a)
  PROVE  Accounted(q, L, N, S, p, a)
<1>1. PICK buy \in Int, sell \in Int :
        /\ Due(q, L, M, R, "Buy", buy) /\ Due(q, L, M, R, "Sell", sell)
        /\ p + buy - sell = a
  BY DEF Accounted
<1>2. "Buy" \in Side /\ "Sell" \in Side
  BY DEF Side
<1>3. Due(q, L, N, S, "Buy", buy) /\ Due(q, L, N, S, "Sell", sell)
  BY <1>1, <1>2, DueKept
<1> QED
  BY <1>1, <1>3 DEF Accounted

-----------------------------------------------------------------------------
(* The robot's steps.                                                      *)

(* Before the first snapshot of the position there are no orders.          *)
LEMMA NoOrders ==
  ASSUME RobotInv, WireTypeOK, LinkInv, owed = {}, bot.positionSize = None
  PROVE  /\ \A d \in Side, o \in OrderIds : bot.ordersMap[d][o] = None
         /\ Ids(toBot) = {} /\ Ids(toExchange) = {}
         /\ \A o \in OrderIds : live[o] = None
<1>1. /\ \A d \in Side, o \in OrderIds : bot.ordersMap[d][o] = None
      /\ \A i \in ReqIds : bot.orderReqMap[i] = None
  BY NoBooks DEF Ready
<1>2. Ids(toBot) \subseteq ReqIds
  BY IdsType DEF WireTypeOK
<1>3. Ids(toBot) = {}
  BY <1>1, <1>2 DEF LinkInv, IdInv
<1>4. Ids(toExchange) = {}
  <2> SUFFICES ASSUME NEW k \in Placements(toExchange) PROVE FALSE
    BY DEF Ids
  <2>1. toExchange[k].id \in ReqIds /\ Record(toExchange[k]) # None
    BY PlacementRecord DEF WireTypeOK
  <2> QED
    BY <1>1, <2>1 DEF LinkInv, IdInv
<1>5. ASSUME NEW o \in OrderIds, live[o] # None PROVE FALSE
  <2>1. live[o].direction \in Side
    BY <1>5 DEF WireTypeOK, ExchangeTypeOK, LiveOrder
  <2>2. Answering(o, live[o].direction)
    BY <1>1, <1>5, <2>1 DEF LinkInv, LiveInv
  <2> QED
    <3>1. \A k \in Placements(toBot) : toBot[k].id \in Ids(toBot)
      BY DEF Ids
    <3> QED
      BY <1>3, <2>2, <3>1 DEF Answering
<1> QED
  BY <1>1, <1>3, <1>4, <1>5

(* What a message does to the position.                                    *)
LEMMA HandledPosition ==
  ASSUME RobotInv, NEW m \in Message, NEW c, Handled(c, m),
         Reads(m, bot.orderReqMap, bot.ordersMap, c.ordersMap)
  PROVE  /\ Taken(m, bot.ordersMap, "Buy") \in Int
         /\ Taken(m, bot.ordersMap, "Sell") \in Int
         /\ IF bot.positionSize = None
            THEN c.positionSize = IF m.type = "positions"
                                  THEN IF m.size = None THEN 0 ELSE m.size
                                  ELSE None
            ELSE c.positionSize = bot.positionSize
                                    + Taken(m, bot.ordersMap, "Buy")
                                    - Taken(m, bot.ordersMap, "Sell")
<1> PICK M : M = bot.ordersMap
  OBVIOUS
<1> PICK p : p = bot.positionSize
  OBVIOUS
<1>1. p # None => p \in Int
  BY DEF RobotInv, BotTypeOK
<1>2. m.type = "orders" => M[m.direction][m.orderId] # None
  BY MessageFields DEF Reads, Updates
<1>3. ASSUME ~IsFill(m)
      PROVE  Taken(m, M, "Buy") = 0 /\ Taken(m, M, "Sell") = 0
  BY <1>3 DEF Taken
<1>4. ASSUME ~IsFill(m), m.type # "positions", c.positionSize = p
      PROVE  /\ Taken(m, M, "Buy") \in Int /\ Taken(m, M, "Sell") \in Int
             /\ p = None => c.positionSize = None
             /\ p # None => c.positionSize = p + Taken(m, M, "Buy")
                                               - Taken(m, M, "Sell")
  BY <1>1, <1>3, <1>4
<1>5. CASE Adopts(bot, c, m) /\ m.type = "positions"
  <2>1. ~IsFill(m)
    BY <1>5 DEF IsFill
  <2>2. /\ p = None => c.positionSize = IF m.size = None THEN 0 ELSE m.size
        /\ p # None => c.positionSize = p
    BY <1>5 DEF Adopts, News
  <2> QED
    BY <1>1, <1>3, <1>5, <2>1, <2>2
<1>6. CASE Unmoved(bot, c) /\ m.type = "orders" /\ ~Knows(m)
  BY <1>2, <1>6 DEF Knows
<1>7. CASE Refuses(bot, c, m) \/ Confirms(bot, c, m)
  <2>1. m.type = "placeOrder" /\ c.positionSize = p
    BY <1>7 DEF Refuses, Confirms, Forgets, SameMarket
  <2> QED
    BY <1>4, <2>1 DEF IsFill
<1>8. CASE Withdraws(bot, c, m) /\ m.type = "orders" /\ m.status = "Cancelled"
  <2>1. c.positionSize = p /\ ~IsFill(m)
    BY <1>8 DEF Withdraws, SameMarket, IsFill
  <2> QED
    BY <1>4, <1>8, <2>1
<1>9. CASE Executes(bot, c, m) /\ IsFill(m)
  <2> PICK d : d = m.direction
    OBVIOUS
  <2> PICK o : o = m.orderId
    OBVIOUS
  <2>1. d \in Side /\ o \in OrderIds /\ m.remaining \in 0..Quantity
    BY <1>9, MessageFields DEF IsFill
  <2>2. M[d][o] # None /\ M[d][o].quantity \in Int
    BY <1>2, <1>9, <2>1 DEF RobotInv, BotTypeOK, OrderReq, IsFill
  <2>3. p # None
    <3>1. KnownIn(bot, d) # {}
      BY <2>1, <2>2 DEF KnownIn
    <3>2. Ready(bot)
      BY <2>1, <3>1 DEF RobotInv, SlotInv, SlotOK, MarketKnown
    <3> QED
      BY <3>2 DEF Ready
  <2> PICK k : k = M[d][o].quantity - m.remaining
    OBVIOUS
  <2>4. c.positionSize = IF d = "Buy" THEN p + k ELSE p - k
    BY <1>9, <2>1 DEF Executes
  <2>5. /\ Taken(m, M, "Buy") = IF d = "Buy" THEN k ELSE 0
        /\ Taken(m, M, "Sell") = IF d = "Buy" THEN 0 ELSE k
    BY <1>9, <2>1 DEF Taken, Side
  <2>6. k \in Int
    BY <2>1, <2>2
  <2> QED
    BY <1>1, <2>3, <2>4, <2>5, <2>6
<1> QED
  BY <1>5, <1>6, <1>7, <1>8, <1>9 DEF Handled

LEMMA CountingType ==
  ASSUME NEW start \in StartPositions, NEW p \in Int
  PROVE  Counting(start, p) \in Int
BY DEF Counting

(* A handler that leaves an account for the messages still under way keeps *)
(* the invariant.                                                          *)
LEMMA RobotAccount ==
  ASSUME RobotInv, WireTypeOK, LinkInv, UNCHANGED exchangeVars,
         toBot' = toBot \/ (toBot # <<>> /\ toBot' = Tail(toBot)),
         NEW c, Good(c), NEW R, Orderly(R, c), Finish(c), Undisturbed(R),
         IF c.positionSize = None
         THEN /\ ~UseConfigStartPositionSize /\ StartPositions # {}
              /\ Current(toBot', position)
         ELSE \E start \in StartPositions :
                Accounted(toBot', live, c.ordersMap, bot.orderReqMap,
                          c.positionSize, Counting(start, position))
  PROVE  AccountInv'
<1>1. /\ \A i \in Ids(toBot') : bot'.orderReqMap[i] = bot.orderReqMap[i]
      /\ \A d \in Side, o \in OrderIds :
           /\ c.ordersMap[d][o] = None <=> bot'.ordersMap[d][o] = None
           /\ c.ordersMap[d][o] # None
                => bot'.ordersMap[d][o].quantity = c.ordersMap[d][o].quantity
      /\ bot'.positionSize = c.positionSize
  BY FinishBooks
<1>2. live' = live /\ position' = position
  BY DEF exchangeVars
<1>3. CASE c.positionSize = None
  BY <1>1, <1>2, <1>3 DEF AccountInv
<1>4. CASE c.positionSize # None
  <2>1. PICK start \in StartPositions :
          Accounted(toBot', live, c.ordersMap, bot.orderReqMap, c.positionSize,
                    Counting(start, position))
    BY <1>4
  <2>2. Accounted(toBot', live, bot'.ordersMap, bot'.orderReqMap, c.positionSize,
                  Counting(start, position))
    BY <1>1, <2>1, AccountedKept
  <2>3. Accounted(toBot', live', bot'.ordersMap, bot'.orderReqMap,
                  bot'.positionSize, Counting(start, position'))
    BY <1>1, <1>2, <2>2
  <2> QED
    BY <1>1, <1>4, <2>3 DEF AccountInv, Counting
<1> QED
  BY <1>3, <1>4

LEMMA NewsAccount ==
  ASSUME RobotInv, WireTypeOK, LinkInv, AccountInv,
         UNCHANGED exchangeVars, toBot' = toBot,
         NEW c, Good(c), Finish(c), Unmoved(bot, c)
  PROVE  AccountInv'
<1>1. /\ Orderly(bot.orderReqMap, c) /\ c.ordersMap = bot.ordersMap
      /\ c.positionSize = bot.positionSize
  BY SilentOrderly DEF Unmoved, News, SameOrders, Placements
<1>2. Undisturbed(bot.orderReqMap)
  BY DEF Undisturbed
<1>3. IF c.positionSize = None
      THEN /\ ~UseConfigStartPositionSize /\ StartPositions # {}
           /\ Current(toBot', position)
      ELSE \E start \in StartPositions :
             Accounted(toBot', live, c.ordersMap, bot.orderReqMap,
                       c.positionSize, Counting(start, position))
  BY <1>1 DEF AccountInv
<1> QED
  BY <1>1, <1>2, <1>3, RobotAccount

LEMMA DeliverAccount ==
  ASSUME RobotInv, WireTypeOK, LinkInv, QuantityInv, OrderInv, AccountInv, Deliver
  PROVE  AccountInv'
<1> PICK m : m = Head(toBot)
  OBVIOUS
<1> PICK t : t = Tail(toBot)
  OBVIOUS
<1> PICK R : R = bot.orderReqMap
  OBVIOUS
<1> PICK M : M = bot.ordersMap
  OBVIOUS
<1>1. /\ toBot # <<>> /\ toBot' = t /\ toBot \in Seq(Message)
      /\ UNCHANGED exchangeVars
      /\ m \in Message /\ 1 \in DOMAIN toBot /\ m = toBot[1]
  BY DeliverHandles DEF WireTypeOK
<1>2. PICK c, S :
        /\ Good(c) /\ Finish(c) /\ Handled(c, m)
        /\ Orderly(S, c) /\ Undisturbed(S)
  BY DeliverWaiting
<1> PICK N : N = c.ordersMap
  OBVIOUS
<1>3. Orders(toBot, live, M, R) /\ owed = {} /\ Told(toBot, M, R)
  BY DEF OrderInv, Orders
<1>4. Reads(m, R, M, N)
  BY <1>1, <1>2, <1>3, HandledReads
<1>5. /\ Taken(m, M, "Buy") \in Int /\ Taken(m, M, "Sell") \in Int
      /\ IF bot.positionSize = None
         THEN c.positionSize = IF m.type = "positions"
                               THEN IF m.size = None THEN 0 ELSE m.size
                               ELSE None
         ELSE c.positionSize = bot.positionSize
                                 + Taken(m, M, "Buy") - Taken(m, M, "Sell")
  BY <1>1, <1>2, <1>4, HandledPosition
<1>6. position \in Int
  BY DEF WireTypeOK, ExchangeTypeOK
<1>7. \A k \in DOMAIN t : k + 1 \in DOMAIN toBot /\ t[k] = toBot[k + 1]
  BY <1>1, QueueTail
(* The first snapshot is the account's position.                           *)
<1>8. CASE bot.positionSize = None /\ m.type = "positions"
  <2>1. /\ ~UseConfigStartPositionSize /\ StartPositions # {}
        /\ Current(toBot, position)
    BY <1>8 DEF AccountInv
  <2>2. c.positionSize = position
    BY <1>1, <1>5, <1>8, <2>1 DEF Current
  <2>3. /\ \A d \in Side, o \in OrderIds : M[d][o] = None
        /\ Ids(toBot) = {}
    BY <1>3, <1>8, NoOrders
  <2>4. \A d \in Side, o \in OrderIds : ~Held(t, N, R, d, o)
    <3> SUFFICES ASSUME NEW d \in Side, NEW o \in OrderIds, Held(t, N, R, d, o)
                 PROVE  FALSE
      OBVIOUS
    <3>1. N[d][o] = None
      BY <1>4, <1>8, <2>3 DEF Reads, Names, Updates
    <3>2. PICK k \in DOMAIN t : t[k].type = "placeOrder"
      BY <3>1 DEF Held, Named, Names
    <3>3. k + 1 \in Placements(toBot)
      BY <1>7, <3>2 DEF Placements
    <3>4. toBot[k + 1].id \in Ids(toBot)
      BY <3>3 DEF Ids
    <3> QED
      BY <2>3, <3>4
  <2>5. Due(t, live, N, R, "Buy", 0) /\ Due(t, live, N, R, "Sell", 0)
    BY <2>4 DEF Due, Side
  <2>6. PICK start \in StartPositions : Counting(start, position) = position
    <3>1. position + 0 = position
      BY <1>6
    <3>2. \A start \in StartPositions : Counting(start, position) = position
      BY <2>1, <3>1 DEF Counting
    <3> QED
      BY <2>1, <3>2
  <2>7. position + 0 - 0 = position /\ 0 \in Int
    BY <1>6
  <2>8. Accounted(t, live, N, R, position, position)
    BY <2>5, <2>7 DEF Accounted
  <2>9. c.positionSize # None
    BY <1>6, <2>2
  <2>10. \E x \in StartPositions :
           Accounted(toBot', live, c.ordersMap, bot.orderReqMap,
                     c.positionSize, Counting(x, position))
    BY <1>1, <2>2, <2>6, <2>8
  <2> QED
    BY <1>1, <1>2, <2>9, <2>10, RobotAccount
<1>9. CASE bot.positionSize = None /\ m.type # "positions"
  <2>1. c.positionSize = None
    BY <1>5, <1>9
  <2>2. /\ ~UseConfigStartPositionSize /\ StartPositions # {}
        /\ Current(toBot', position)
    BY <1>1, <1>7, <1>9 DEF AccountInv, Current
  <2> QED
    BY <1>1, <1>2, <2>1, <2>2, RobotAccount
<1>10. CASE bot.positionSize # None
  <2> PICK p : p = bot.positionSize
    OBVIOUS
  <2>1. PICK start \in StartPositions :
          Accounted(toBot, live, M, R, p, Counting(start, position))
    BY <1>10 DEF AccountInv
  <2> PICK a : a = Counting(start, position)
    OBVIOUS
  <2>2. a \in Int /\ p \in Int /\ Accounted(toBot, live, M, R, p, a)
    BY <1>6, <1>10, <2>1, CountingType DEF RobotInv, BotTypeOK
  <2>3. ASSUME NEW d \in Side
        PROVE  \A n \in Int : Due(toBot, live, M, R, d, n)
                                 => Due(t, live, N, R, d, n - Taken(m, M, d))
    <3>1. One(toBot, M, R) /\ Quantities(M)
      BY OneHeld
    <3> QED
      BY <1>1, <1>3, <1>4, <3>1, DueRead
  <2> PICK b : b = Taken(m, M, "Buy")
    OBVIOUS
  <2> PICK s : s = Taken(m, M, "Sell")
    OBVIOUS
  <2>4. /\ \A n \in Int :
             Due(toBot, live, M, R, "Buy", n) => Due(t, live, N, R, "Buy", n - b)
        /\ \A n \in Int :
             Due(toBot, live, M, R, "Sell", n) => Due(t, live, N, R, "Sell", n - s)
    BY <2>3 DEF Side
  <2>5. b \in Int /\ s \in Int
    BY <1>5
  <2>6. c.positionSize = p + b - s
    BY <1>5, <1>10
  <2>7. c.positionSize \in Int /\ Accounted(t, live, N, R, c.positionSize, a)
    <3>1. PICK buy \in Int, sell \in Int :
            /\ Due(toBot, live, M, R, "Buy", buy)
            /\ Due(toBot, live, M, R, "Sell", sell)
            /\ p + buy - sell = a
      BY <2>2 DEF Accounted
    <3>2. Due(t, live, N, R, "Buy", buy - b) /\ Due(t, live, N, R, "Sell", sell - s)
      BY <2>4, <3>1
    <3>3. buy - b \in Int /\ sell - s \in Int /\ p + b - s \in Int
      BY <2>2, <2>5, <3>1
    <3>4. (p + b - s) + (buy - b) - (sell - s) = a
      <4>1. p \in Int /\ b \in Int /\ s \in Int /\ buy \in Int /\ sell \in Int
        BY <2>2, <2>5
      <4>2. (p + b - s) + (buy - b) - (sell - s) = p + buy - sell
        BY <4>1, SMTT(60)
      <4> QED
        BY <3>1, <4>2
    <3> QED
      BY <2>6, <3>2, <3>3, <3>4 DEF Accounted
  <2>8. c.positionSize # None
    BY <2>7
  <2>9. \E x \in StartPositions :
          Accounted(toBot', live, c.ordersMap, bot.orderReqMap,
                    c.positionSize, Counting(x, position))
    BY <1>1, <2>7
  <2> QED
    BY <1>1, <1>2, <2>8, <2>9, RobotAccount
<1> QED
  BY <1>8, <1>9, <1>10

-----------------------------------------------------------------------------
(* The exchange's steps.                                                   *)

(* Executions move the account and what is due to the robot alike.         *)
LEMMA ExchangeAccount ==
  ASSUME RobotInv, WireTypeOK, AccountInv, UNCHANGED bot,
         NEW side \in Side, NEW k \in Int,
         position' = IF side = "Buy" THEN position + k ELSE position - k,
         \A d \in Side, n \in Int :
           Due(toBot, live, bot.ordersMap, bot.orderReqMap, d, n)
             => Due(toBot', live', bot.ordersMap, bot.orderReqMap, d,
                    n + IF d = side THEN k ELSE 0),
         bot.positionSize = None => Current(toBot', position')
  PROVE  AccountInv'
<1> PICK M : M = bot.ordersMap
  OBVIOUS
<1> PICK R : R = bot.orderReqMap
  OBVIOUS
<1>1. position \in Int
  BY DEF WireTypeOK, ExchangeTypeOK
<1>2. CASE bot.positionSize = None
  BY <1>2 DEF AccountInv
<1>3. CASE bot.positionSize # None
  <2>1. bot.positionSize \in Int
    BY <1>3 DEF RobotInv, BotTypeOK
  <2>2. PICK start \in StartPositions :
          Accounted(toBot, live, M, R, bot.positionSize, Counting(start, position))
    BY <1>3 DEF AccountInv
  <2>3. PICK buy \in Int, sell \in Int :
          /\ Due(toBot, live, M, R, "Buy", buy)
          /\ Due(toBot, live, M, R, "Sell", sell)
          /\ bot.positionSize + buy - sell = Counting(start, position)
    BY <2>2 DEF Accounted
  <2>4. CASE side = "Buy"
    <3>1. Due(toBot', live', M, R, "Buy", buy + k)
      BY <2>3, <2>4 DEF Side
    <3>2. Due(toBot', live', M, R, "Sell", sell)
      BY <2>3, <2>4 DEF Side
    <3>3. bot.positionSize + (buy + k) - sell = Counting(start, position')
      BY <1>1, <2>1, <2>3, <2>4 DEF Counting
    <3>4. Accounted(toBot', live', M, R, bot.positionSize, Counting(start, position'))
      BY <2>3, <3>1, <3>2, <3>3 DEF Accounted
    <3> QED
      BY <1>3, <3>4 DEF AccountInv, Counting
  <2>5. CASE side = "Sell"
    <3>1. Due(toBot', live', M, R, "Sell", sell + k)
      BY <2>3, <2>5 DEF Side
    <3>2. Due(toBot', live', M, R, "Buy", buy)
      BY <2>3, <2>5 DEF Side
    <3>3. position' = position - k /\ start \in Int /\ PositionSizeStart \in Int
      BY <2>5
    <3>4. Counting(start, position') = Counting(start, position) - k
      BY <1>1, <3>3 DEF Counting
    <3>5. bot.positionSize + buy - (sell + k) = Counting(start, position) - k
      <4> PICK p : p = bot.positionSize
        OBVIOUS
      <4> PICK a : a = Counting(start, position)
        OBVIOUS
      <4>1. p \in Int /\ p + buy - sell = a
        BY <2>1, <2>3
      <4>2. p + buy - (sell + k) = a - k
        BY <4>1, <2>3
      <4> QED
        BY <4>2
    <3>6. bot.positionSize + buy - (sell + k) = Counting(start, position')
      BY <3>4, <3>5
    <3>7. Accounted(toBot', live', M, R, bot.positionSize, Counting(start, position'))
      BY <2>3, <3>1, <3>2, <3>6 DEF Accounted
    <3> QED
      BY <1>3, <3>7 DEF AccountInv, Counting
  <2> QED
    BY <2>4, <2>5 DEF Side
<1> QED
  BY <1>2, <1>3

(* A step that leaves the account, and what is due, alone.                 *)
LEMMA ExchangeIdle ==
  ASSUME RobotInv, WireTypeOK, AccountInv, UNCHANGED <<bot, position>>,
         \A d \in Side, n \in Int :
           Due(toBot, live, bot.ordersMap, bot.orderReqMap, d, n)
             => Due(toBot', live', bot.ordersMap, bot.orderReqMap, d, n),
         bot.positionSize = None => Current(toBot', position)
  PROVE  AccountInv'
<1>1. "Buy" \in Side /\ 0 \in Int /\ position \in Int
  BY DEF Side, WireTypeOK, ExchangeTypeOK
<1>2. position' = IF "Buy" = "Buy" THEN position + 0 ELSE position - 0
  BY <1>1
<1>3. \A d \in Side, n \in Int : n + (IF d = "Buy" THEN 0 ELSE 0) = n
  OBVIOUS
<1>4. \A d \in Side, n \in Int :
        Due(toBot, live, bot.ordersMap, bot.orderReqMap, d, n)
          => Due(toBot', live', bot.ordersMap, bot.orderReqMap, d,
                 n + IF d = "Buy" THEN 0 ELSE 0)
  BY <1>3
<1> QED
  BY <1>1, <1>2, <1>4, ExchangeAccount

(* What it says about no order.                                            *)
LEMMA NeutralAccount ==
  ASSUME RobotInv, WireTypeOK, AccountInv, UNCHANGED <<bot, position, live>>,
         NEW m \in Message, m.type # "orders", ~(m.type = "placeOrder" /\ m.isOk),
         m.type = "positions" => position = IF m.size = None THEN 0 ELSE m.size,
         Says(m)
  PROVE  AccountInv'
<1>1. toBot \in Seq(Message)
  BY DEF WireTypeOK
<1>2. ASSUME NEW d \in Side, NEW n \in Int,
             Due(toBot, live, bot.ordersMap, bot.orderReqMap, d, n)
      PROVE  Due(toBot', live', bot.ordersMap, bot.orderReqMap, d, n)
  <2>1. Due(Append(toBot, m), live, bot.ordersMap, bot.orderReqMap, d, n)
    BY <1>1, <1>2, DueNeutral
  <2> QED
    BY <1>2, <2>1 DEF Says
<1>3. bot.positionSize = None => Current(toBot', position)
  <2>1. \A k \in DOMAIN toBot' : \/ k \in DOMAIN toBot /\ toBot'[k] = toBot[k]
                                 \/ toBot'[k] = m
    BY <1>1, SaysFields
  <2> QED
    BY <2>1 DEF AccountInv, Current
<1> QED
  BY <1>2, <1>3, ExchangeIdle

(* What it says about a live order.                                        *)
LEMMA UpdateAccount ==
  ASSUME RobotInv, WireTypeOK, LinkInv, OrderInv, AccountInv, UNCHANGED bot,
         NEW o \in OrderIds, live[o] # None,
         NEW side \in Side, side = live[o].direction,
         NEW m \in Message, Updates(m, side, o), toBot' = Append(toBot, m),
         Apart(live, live', o),
         IF Ends(m) THEN live'[o] = None
         ELSE /\ live'[o] # None /\ live'[o].direction = side
              /\ live'[o].remaining = m.remaining,
         NEW k \in Int, k = live[o].remaining - m.remaining,
         position' = IF side = "Buy" THEN position + k ELSE position - k
  PROVE  AccountInv'
<1>1. toBot \in Seq(Message) /\ live[o].remaining \in 0..Quantity
  BY DEF WireTypeOK, ExchangeTypeOK, LiveOrder
<1>2. /\ One(toBot, bot.ordersMap, bot.orderReqMap) /\ Quantities(bot.ordersMap)
      /\ Over(toBot, live)
  BY OneHeld DEF OrderInv, Orders
<1>3. Held(toBot, bot.ordersMap, bot.orderReqMap, side, o)
  BY LiveHeld DEF OrderInv
<1>4. ASSUME NEW d \in Side, NEW n \in Int,
             Due(toBot, live, bot.ordersMap, bot.orderReqMap, d, n)
      PROVE  Due(toBot', live', bot.ordersMap, bot.orderReqMap, d,
                 n + IF d = side THEN k ELSE 0)
  BY <1>1, <1>2, <1>3, <1>4, DueUpdate
<1>5. bot.positionSize # None
  BY NoOrders DEF OrderInv
<1> QED
  BY <1>4, <1>5, ExchangeAccount

(* An answer that accepts names an order of a side that had none.          *)
LEMMA AcceptAccount ==
  ASSUME RobotInv, WireTypeOK, LinkInv, QuantityInv, OrderInv, AccountInv,
         ResponseFirst, UNCHANGED bot,
         NEW o \in OrderIds, Fresh(o), AcceptOrder(o)
  PROVE  AccountInv'
<1> PICK r : r = Head(toExchange)
  OBVIOUS
<1> PICK R : R = bot.orderReqMap
  OBVIOUS
<1> PICK M : M = bot.ordersMap
  OBVIOUS
<1>0. PICK m : m = PlaceOrderResponse(r.id, TRUE, o)
  OBVIOUS
<1>1. toExchange \in Seq(Request) /\ toBot \in Seq(Message) /\ owed = {}
  BY DEF WireTypeOK, OrderInv
<1>2. /\ r \in Request /\ r.type = "placeOrder"
      /\ 1 \in Placements(toExchange) /\ toExchange[1] = r
  BY <1>1, ReceivesFields DEF AcceptOrder, Receives, LinkInv, IdInv
<1>3. r.id \in ReqIds /\ r.direction \in Side /\ r.id \in Ids(toExchange)
  BY <1>2 DEF Request, Ids
<1>4. R[r.id] # None /\ R[r.id] = Record(r)
  BY <1>1, <1>2, PlacementRecord DEF LinkInv, IdInv
<1>5. R[r.id].direction = r.direction /\ R[r.id].quantity = r.quantity
  BY <1>4 DEF Record
<1>6. r.quantity = Quantity
  BY <1>3, <1>4, <1>5 DEF QuantityInv, RequestInv, Whole
<1>7. m \in Message /\ Names(m, R, r.direction, o) /\ m.type = "placeOrder"
  BY <1>0, <1>3, <1>5 DEF PlaceOrderResponse, Message, Names
<1>8. toBot' = Append(toBot, m) /\ UNCHANGED position
  BY <1>0 DEF AcceptOrder
<1> PICK x : x = [direction |-> r.direction, price |-> r.price,
                  remaining |-> r.quantity]
  OBVIOUS
<1>9. /\ x.direction = r.direction /\ x.remaining = Quantity
      /\ x # None
  <2>1. x \in LiveOrder
    BY <1>2 DEF Request, LiveOrder
  <2> QED
    BY <1>6, <2>1, NoLiveOrderAssumption
<1>10. \A y \in OrderIds : live'[y] = IF y = o THEN x ELSE live[y]
  BY DEF AcceptOrder, WireTypeOK, ExchangeTypeOK
<1>11. Apart(live, live', o) /\ live'[o] = x
  BY <1>10 DEF Apart
<1>12. /\ \A d \in Side : M[d][o] = None
       /\ \A k \in DOMAIN toBot : toBot[k].type # "positions" => toBot[k].orderId # o
  BY DEF Fresh
<1>13. ASSUME NEW y \in OrderIds PROVE ~Held(toBot, M, R, r.direction, y)
  <2>1. r.id \in PendingIn(bot, r.direction)
    BY <1>3, <1>4, <1>5 DEF PendingIn
  <2>2. /\ KnownIn(bot, r.direction) = {}
        /\ \A i \in PendingIn(bot, r.direction) : i = r.id
    BY <1>3, <2>1 DEF RobotInv, SlotInv, SlotOK
  <2>3. M[r.direction][y] = None
    BY <2>2 DEF KnownIn
  <2>4. ASSUME NEW k \in DOMAIN toBot, Names(toBot[k], R, r.direction, y)
        PROVE  FALSE
    <3>1. toBot[k].id \in Ids(toBot) /\ toBot[k].id \in ReqIds
      BY <1>1, <2>4, MessageFields DEF Names, Placements, Ids
    <3>2. R[toBot[k].id] # None /\ R[toBot[k].id].direction = r.direction
      BY <2>4, <3>1 DEF Names, LinkInv, IdInv
    <3>3. toBot[k].id = r.id
      BY <2>2, <3>1, <3>2 DEF PendingIn
    <3> QED
      BY <1>3, <3>1, <3>3 DEF LinkInv, IdInv
  <2> QED
    BY <2>3, <2>4 DEF Held, Named
<1>14. ASSUME NEW d \in Side, NEW n \in Int,
              Due(toBot, live, M, R, d, n)
       PROVE  Due(toBot', live', M, R, d, n)
  <2>1. /\ live'[o] # None /\ live'[o].direction = r.direction
        /\ live'[o].remaining = Quantity
    BY <1>9, <1>11
  <2>2. Due(Append(toBot, m), live', M, R, d, n)
    BY <1>1, <1>3, <1>7, <1>11, <1>12, <1>13, <1>14, <2>1, DueAccept
  <2> QED
    BY <1>8, <2>2
<1>15. bot.positionSize # None
  BY <1>1, <1>3, NoOrders
<1> QED
  BY <1>8, <1>14, <1>15, ExchangeIdle

LEMMA WithdrawAccount ==
  ASSUME RobotInv, WireTypeOK, LinkInv, OrderInv, AccountInv,
         "orders" \in subscribed,
         NEW o \in OrderIds, live[o] # None, Withdraw(o),
         UNCHANGED <<bot, position>>
  PROVE  AccountInv'
<1> PICK d : d = live[o].direction
  OBVIOUS
<1> PICK m : m = OrderUpdate(o, d, "Cancelled", live[o].remaining)
  OBVIOUS
<1>1. d \in Side /\ live[o].remaining \in 0..Quantity /\ position \in Int
  BY DEF WireTypeOK, ExchangeTypeOK, LiveOrder
<1>2. m \in Message /\ Updates(m, d, o) /\ Ends(m) /\ m.remaining = live[o].remaining
  BY <1>1 DEF OrderUpdate, Message, Updates, Ends
<1>3. toBot' = Append(toBot, m)
  BY DEF Withdraw, Publish
<1>4. \A x \in OrderIds : live'[x] = IF x = o THEN None ELSE live[x]
  BY DEF Withdraw, WireTypeOK, ExchangeTypeOK
<1>5. Apart(live, live', o)
  BY <1>4 DEF Apart
<1>6. IF Ends(m) THEN live'[o] = None
      ELSE /\ live'[o] # None /\ live'[o].direction = d
           /\ live'[o].remaining = m.remaining
  BY <1>2, <1>4
<1>7. PICK k \in Int : k = live[o].remaining - m.remaining /\ k = 0
  BY <1>1, <1>2
<1>8. position' = IF d = "Buy" THEN position + k ELSE position - k
  BY <1>1, <1>7
<1> QED
  BY <1>1, <1>2, <1>3, <1>5, <1>6, <1>7, <1>8, UpdateAccount

LEMMA FillAccount ==
  ASSUME RobotInv, WireTypeOK, LinkInv, OrderInv, AccountInv,
         "orders" \in subscribed,
         NEW o \in OrderIds, NEW n \in 1..Quantity, Fill(o, n), UNCHANGED bot
  PROVE  AccountInv'
<1> PICK d : d = live[o].direction
  OBVIOUS
<1> PICK left : left = live[o].remaining - n
  OBVIOUS
<1> PICK m : m = OrderUpdate(o, d, IF left = 0 THEN "Filled" ELSE "PartiallyFilled",
                             left)
  OBVIOUS
<1>1. /\ live[o] # None /\ live[o] \in LiveOrder /\ d \in Side
      /\ live[o].remaining \in 0..Quantity
  BY DEF WireTypeOK, ExchangeTypeOK, LiveOrder, Fill
<1>2. left \in 0..Quantity /\ n \in Int /\ n = live[o].remaining - left
  <2>1. n \in 1..live[o].remaining
    BY DEF Fill
  <2> QED
    BY <1>1, <2>1
<1>3. /\ m \in Message /\ Updates(m, d, o) /\ m.remaining = left
      /\ Ends(m) <=> left = 0
  BY <1>1, <1>2 DEF OrderUpdate, Message, Updates, Ends
<1>4. toBot' = Append(toBot, m)
  BY DEF Fill, Publish
<1>5. live' = [live EXCEPT ![o] = IF left = 0 THEN None
                                  ELSE [live[o] EXCEPT !.remaining = left]]
  BY DEF Fill
<1>6. /\ \A x \in OrderIds : x # o => live'[x] = live[x]
      /\ IF left = 0 THEN live'[o] = None
         ELSE live'[o] = [live[o] EXCEPT !.remaining = left]
  BY <1>5 DEF WireTypeOK, ExchangeTypeOK
<1>7. left # 0 => /\ live'[o] \in LiveOrder /\ live'[o].remaining = left
                  /\ live'[o].direction = d
  BY <1>1, <1>2, <1>6, SMTT(60) DEF LiveOrder
<1>8. Apart(live, live', o)
  BY <1>6 DEF Apart
<1>9. IF Ends(m) THEN live'[o] = None
      ELSE /\ live'[o] # None /\ live'[o].direction = d
           /\ live'[o].remaining = m.remaining
  BY <1>3, <1>6, <1>7, NoLiveOrderAssumption
<1>10. position' = IF d = "Buy" THEN position + n ELSE position - n
  BY DEF Fill
<1>11. n = live[o].remaining - m.remaining
  BY <1>2, <1>3
<1> QED
  BY <1>1, <1>2, <1>3, <1>4, <1>8, <1>9, <1>10, <1>11, UpdateAccount

-----------------------------------------------------------------------------
(* The invariant of the system.                                            *)
PositionInv == BooksInv /\ AccountInv

LEMMA InitAccount == Init => PositionInv
<1> SUFFICES ASSUME Init PROVE AccountInv
  BY InitBooks DEF PositionInv
<1> PICK M : M = bot.ordersMap
  OBVIOUS
<1> PICK R : R = bot.orderReqMap
  OBVIOUS
<1>1. /\ toBot = <<>> /\ position \in StartPositions
      /\ bot.positionSize = IF UseConfigStartPositionSize
                            THEN PositionSizeStart ELSE None
      /\ \A d \in Side, o \in OrderIds : M[d][o] = None
  BY DEF Init, ExchangeInit, BotInit
<1>2. position \in Int /\ PositionSizeStart \in Int /\ DOMAIN toBot = {}
  BY <1>1
<1>3. CASE UseConfigStartPositionSize
  <2>1. \A d \in Side, o \in OrderIds : ~Held(toBot, M, R, d, o)
    BY <1>1, <1>2 DEF Held, Named
  <2>2. Due(toBot, live, M, R, "Buy", 0) /\ Due(toBot, live, M, R, "Sell", 0)
    BY <2>1 DEF Due, Side
  <2>3. bot.positionSize = PositionSizeStart
    BY <1>1, <1>3
  <2>4. bot.positionSize + 0 - 0 = Counting(position, position)
    BY <1>2, <1>3, <2>3 DEF Counting
  <2>5. Accounted(toBot, live, M, R, bot.positionSize, Counting(position, position))
    BY <2>2, <2>4 DEF Accounted
  <2>6. bot.positionSize # None
    BY <1>2, <2>3
  <2> QED
    BY <1>1, <2>5, <2>6 DEF AccountInv
<1>4. CASE ~UseConfigStartPositionSize
  BY <1>1, <1>2, <1>4 DEF AccountInv, Current
<1> QED
  BY <1>3, <1>4

LEMMA NextAccount ==
  ASSUME ResponseFirst
  PROVE  PositionInv /\ [Next]_vars => PositionInv'
<1> SUFFICES ASSUME PositionInv, [Next]_vars PROVE AccountInv'
  BY NextBooks DEF PositionInv
<1>1. /\ RobotInv /\ WireTypeOK /\ LinkInv /\ QuantityInv /\ OrderInv
      /\ AccountInv
  BY IInvParts DEF PositionInv, BooksInv, RefinementInv, LinkIInv
<1>2. toExchange \in Seq(Request) /\ toBot \in Seq(Message) /\ position \in Int
  BY <1>1 DEF WireTypeOK, ExchangeTypeOK
<1>3. \A o \in OrderIds : live[o] # None => "orders" \in subscribed
  BY <1>1 DEF OrderInv, BeforeOrders
<1> PICK r : r = Head(toExchange)
  OBVIOUS
<1>4. CASE ExchangeStep(ProcessSubscribe)
  <2> PICK m : m = PositionsSnapshot(IF position = 0 THEN None ELSE position)
    OBVIOUS
  <2>1. /\ m \in Message /\ m.type = "positions"
        /\ position = IF m.size = None THEN 0 ELSE m.size
    BY <1>2 DEF PositionsSnapshot, Message
  <2>2. UNCHANGED <<bot, position, live>> /\ Says(m)
    BY <1>4 DEF ExchangeStep, ProcessSubscribe, Says
  <2> QED
    BY <1>1, <2>1, <2>2, NeutralAccount
<1>5. CASE ExchangeStep(Accept)
  BY <1>1, <1>5, AcceptAccount DEF ExchangeStep, Accept
<1>6. CASE ExchangeStep(ProcessCancel)
  <2> PICK o : o = r.orderId
    OBVIOUS
  <2>1. /\ UNCHANGED <<bot, position>>
        /\ toExchange # <<>> /\ r.type = "cancelOrder"
        /\ \/ live[o] # None /\ Withdraw(o)
           \/ live[o] = None /\ UNCHANGED <<live, toBot>>
    BY <1>6 DEF ExchangeStep, ProcessCancel, Receives
  <2>2. o \in OrderIds
    <3>1. r \in Request
      BY <1>2, <2>1, QueueTail
    <3> QED
      BY <2>1, <3>1 DEF Request
  <2>3. CASE live[o] # None /\ Withdraw(o)
    BY <1>1, <1>3, <2>1, <2>2, <2>3, WithdrawAccount
  <2>4. CASE live[o] = None /\ UNCHANGED <<live, toBot>>
    BY <1>1, <2>1, <2>4 DEF AccountInv
  <2> QED
    BY <2>1, <2>3, <2>4
<1>7. CASE ExchangeStep(SendOwedResponse)
  BY <1>1, <1>7 DEF ExchangeStep, SendOwedResponse, OrderInv
<1>8. CASE Trade
  BY <1>1, <1>3, <1>8, FillAccount DEF Trade, ExchangeStep, Fill
<1>9. CASE Refuse
  <2>0. PICK m : m = PlaceOrderResponse(r.id, FALSE, None)
    OBVIOUS
  <2>1. /\ UNCHANGED <<bot, position, live>>
        /\ toBot' = Append(toBot, m)
        /\ toExchange # <<>> /\ r.type = "placeOrder"
    BY <1>9, <2>0 DEF Refuse, ExchangeStep, RejectOrder, Receives
  <2>2. r.id \in ReqIds
    <3>1. r \in Request
      BY <1>2, <2>1, QueueTail
    <3> QED
      BY <2>1, <3>1 DEF Request
  <2>3. /\ m \in Message /\ ~(m.type = "placeOrder" /\ m.isOk)
        /\ m.type = "placeOrder" /\ m.type # "orders" /\ m.type # "positions"
    BY <2>0, <2>2 DEF PlaceOrderResponse, Message
  <2> QED
    BY <1>1, <2>1, <2>3, NeutralAccount DEF Says
<1>10. CASE Withdrawn
  BY <1>1, <1>3, <1>10, WithdrawAccount DEF Withdrawn, ExchangeStep, CancelByExchange
<1>11. CASE Connect \/ Market
  BY <1>1, <1>11, ConnectNews, MarketNews, NewsAccount
<1>12. CASE Deliver
  BY <1>1, <1>12, DeliverAccount
<1>13. CASE UNCHANGED vars
  <2>1. UNCHANGED <<bot, toBot, live, position>>
    BY <1>13 DEF vars, exchangeVars
  <2> QED
    BY <1>1, <2>1 DEF AccountInv
<1>14. Serve => \/ ExchangeStep(ProcessSubscribe) \/ ExchangeStep(Accept)
                \/ ExchangeStep(ProcessCancel) \/ ExchangeStep(SendOwedResponse)
  BY DEF Serve, ExchangeStep
<1> QED
  BY <1>4, <1>5, <1>6, <1>7, <1>8, <1>9, <1>10, <1>11, <1>12, <1>13, <1>14 DEF Next

LEMMA PositionInvariance ==
  ASSUME ResponseFirst
  PROVE  Spec => []PositionInv
BY InitAccount, NextAccount, PTL DEF Spec

-----------------------------------------------------------------------------
(* Nothing under way, nothing due.                                         *)
LEMMA QuietAccount == PositionInv => PositionAccounting
<1> SUFFICES ASSUME PositionInv, Quiet, bot.positionSize # None
             PROVE  \E start \in StartPositions :
                      bot.positionSize - position =
                        IF UseConfigStartPositionSize
                        THEN PositionSizeStart - start ELSE 0
  BY DEF PositionAccounting
<1> PICK q : q = toBot
  OBVIOUS
<1> PICK M : M = bot.ordersMap
  OBVIOUS
<1> PICK R : R = bot.orderReqMap
  OBVIOUS
<1>1. /\ DOMAIN q = {} /\ Counted(q, live, M, R)
      /\ AccountInv /\ RobotInv /\ WireTypeOK
  BY IInvParts DEF PositionInv, BooksInv, RefinementInv, LinkIInv, Quiet,
                   OrderInv, Orders
<1>2. bot.positionSize \in Int /\ position \in Int
  BY <1>1 DEF RobotInv, BotTypeOK, WireTypeOK, ExchangeTypeOK
<1>3. ASSUME NEW d \in Side, NEW n \in Int, Due(q, live, M, R, d, n)
      PROVE  n = 0
  <2>1. /\ \A o : ~Named(q, R, d, o)
        /\ \A o, r : ~Filling(q, d, o, r)
    BY <1>1 DEF Named, Filling
  <2>2. ASSUME NEW o \in OrderIds, Owing(q, live, M, R, d, o, n) PROVE n = 0
    <3>1. PICK r \in 0..Quantity :
            LeftIs(q, live, d, o, r) /\ n = M[d][o].quantity - r
      BY <2>1, <2>2 DEF Owing
    <3>2. M[d][o].quantity = r
      BY <1>1, <2>1, <3>1 DEF Counted
    <3> QED
      BY <3>1, <3>2
  <2> QED
    BY <1>3, <2>2 DEF Due
<1>4. PICK start \in StartPositions :
        Accounted(q, live, M, R, bot.positionSize, Counting(start, position))
  BY <1>1 DEF AccountInv
<1>5. PICK buy \in Int, sell \in Int :
        /\ Due(q, live, M, R, "Buy", buy) /\ Due(q, live, M, R, "Sell", sell)
        /\ bot.positionSize + buy - sell = Counting(start, position)
  BY <1>4 DEF Accounted
<1>6. buy = 0 /\ sell = 0
  BY <1>3, <1>5 DEF Side
<1>7. bot.positionSize = Counting(start, position)
  BY <1>2, <1>5, <1>6
<1>8. start \in Int /\ PositionSizeStart \in Int
  OBVIOUS
<1>9. bot.positionSize - position =
        IF UseConfigStartPositionSize THEN PositionSizeStart - start ELSE 0
  BY <1>2, <1>7, <1>8 DEF Counting
<1> QED
  BY <1>9

(* Whenever nothing is under way, the position the robot has added up from *)
(* the differences between an order's quantity before and after each       *)
(* execution (orderUpdateHandler) is the account's, or, with a configured  *)
(* start, has moved from there as the account's has, provided the answer   *)
(* to a placement comes before any update about its order.                 *)
THEOREM PositionAccountingCorrect ==
  ASSUME ResponseFirst
  PROVE  Spec => []PositionAccounting
BY PositionInvariance, QuietAccount, PTL

=============================================================================
