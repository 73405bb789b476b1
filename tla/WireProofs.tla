----------------------------- MODULE WireProofs -----------------------------
(***************************************************************************)
(* What is lost between the robot's orders and the JSON objects of Wire:   *)
(* nothing, for any ids, any Numbers as prices and any quantities; nor     *)
(* between the digits of a secret and its bytes.                           *)
(***************************************************************************)
EXTENDS Wire, WellFoundedInduction, TLAPS

-----------------------------------------------------------------------------
(* The names: what the robot writes is in the exchange's vocabulary and    *)
(* means there what it means here; what the exchange writes is found again *)
(* by From...Name.                                                         *)
LEMMA NamedAs ==
  ASSUME NEW names, NEW v \in DOMAIN names, v # "_undef",
         \A w \in DOMAIN names : names[w] = names[v] => w = v
  PROVE  Named(names, names[v]) = v
BY DEF Named

LEMMA WordMeans ==
  ASSUME NEW vocabulary, NEW w \in DOMAIN vocabulary
  PROVE  /\ WordFor(vocabulary, vocabulary[w]) \in DOMAIN vocabulary
         /\ vocabulary[WordFor(vocabulary, vocabulary[w])] = vocabulary[w]
BY DEF WordFor

LEMMA DirectionUnderstood ==
  ASSUME NEW d \in {"Buy", "Sell"}
  PROVE  /\ Direction[DirectionName[d]] = d
         /\ Named(DirectionName, WordFor(Direction, d)) = d
<1>1. DirectionName[d] \in DOMAIN Direction /\ Direction[DirectionName[d]] = d
  BY DEF Direction, DirectionName
<1>2. PICK w : w = WordFor(Direction, d)
  OBVIOUS
<1>3. w \in DOMAIN Direction /\ Direction[w] = d
  BY <1>1, <1>2, WordMeans
<1>4. w = DirectionName[d]
  BY <1>3 DEF Direction, DirectionName
<1>5. /\ d \in DOMAIN DirectionName /\ d # "_undef"
      /\ \A v \in DOMAIN DirectionName : DirectionName[v] = DirectionName[d] => v = d
  BY DEF DirectionName
<1> QED
  BY <1>1, <1>2, <1>4, <1>5, NamedAs

LEMMA TypeUnderstood ==
  ASSUME NEW t \in {"Limit", "PostOnly"}
  PROVE  /\ Type[TypeName[t]] = t
         /\ Named(TypeName, WordFor(Type, t)) = t
<1>1. TypeName[t] \in DOMAIN Type /\ Type[TypeName[t]] = t
  BY DEF Type, TypeName
<1>2. PICK w : w = WordFor(Type, t)
  OBVIOUS
<1>3. w \in DOMAIN Type /\ Type[w] = t
  BY <1>1, <1>2, WordMeans
<1>4. w = TypeName[t]
  BY <1>3 DEF Type, TypeName
<1>5. /\ t \in DOMAIN TypeName /\ t # "_undef"
      /\ \A v \in DOMAIN TypeName : TypeName[v] = TypeName[t] => v = t
  BY DEF TypeName
<1> QED
  BY <1>1, <1>2, <1>4, <1>5, NamedAs

LEMMA LifetimeUnderstood ==
  ASSUME NEW l \in {"Gtc", "IoC", "FoK"}
  PROVE  /\ Lifetime[LifetimeName[l]] = l
         /\ Named(LifetimeName, WordFor(Lifetime, l)) = l
<1>1. LifetimeName[l] \in DOMAIN Lifetime /\ Lifetime[LifetimeName[l]] = l
  BY DEF Lifetime, LifetimeName
<1>2. PICK w : w = WordFor(Lifetime, l)
  OBVIOUS
<1>3. w \in DOMAIN Lifetime /\ Lifetime[w] = l
  BY <1>1, <1>2, WordMeans
<1>4. w = LifetimeName[l]
  BY <1>3 DEF Lifetime, LifetimeName
<1>5. /\ l \in DOMAIN LifetimeName /\ l # "_undef"
      /\ \A v \in DOMAIN LifetimeName : LifetimeName[v] = LifetimeName[l] => v = l
  BY DEF LifetimeName
<1> QED
  BY <1>1, <1>2, <1>4, <1>5, NamedAs

LEMMA StatusUnderstood ==
  ASSUME NEW w \in DOMAIN Status
  PROVE  Named(StatusName, w) = Status[w]
<1>1. /\ Status[w] \in DOMAIN StatusName /\ Status[w] # "_undef"
      /\ StatusName[Status[w]] = w
      /\ \A v \in DOMAIN StatusName : StatusName[v] = w => v = Status[w]
  BY DEF Status, StatusName
<1> QED
  BY <1>1, NamedAs

LEMMA OrdersChannel == Named(ChannelName, "orders") = "Orders"
<1>1. /\ "Orders" \in DOMAIN ChannelName /\ ChannelName["Orders"] = "orders"
      /\ \A v \in DOMAIN ChannelName : ChannelName[v] = "orders" => v = "Orders"
  BY DEF ChannelName
<1> QED
  BY <1>1, NamedAs

-----------------------------------------------------------------------------
(* The objects.                                                            *)
LEMMA MethodParams ==
  ASSUME NEW name, NEW params
  PROVE  Request(Method(name, params)).params.data.params = params
<1>1. Method(name, params).params = params
  BY DEF Method, Add, Object
<1> QED
  BY <1>1 DEF Request

LEMMA NumberMembers ==
  ASSUME NEW n
  PROVE  /\ SerializeNumber(n).mantissa = n.significand
         /\ SerializeNumber(n).exponent = n.exponent
BY DEF SerializeNumber, Add, Object

LEMMA NumberUnderstood ==
  ASSUME NEW n \in Prices
  PROVE  ReadPrice(SerializeNumber(n)) = n
BY NumberMembers, PricesAssumption DEF ReadPrice

LEMMA NumberRead ==
  ASSUME NEW n \in Prices, NEW old
  PROVE  DeserializeNumber(WritePrice(n), old) = n
BY PricesAssumption DEF DeserializeNumber, WritePrice, GetInt

-----------------------------------------------------------------------------
(* What the exchange keeps is what the robot meant, an order of terms the  *)
(* robot can ask for; what was read last says the same.                    *)
KeptOrders == orders \in [OrderIds -> Order \cup {None}] /\ RequestsUnderstood

WInv == KeptOrders /\ EchoUnderstood

LEMMA PlaceUnderstood ==
  ASSUME KeptOrders, Place
  PROVE  KeptOrders' /\ read' = None
<1>1. PICK o \in OrderIds, order \in Order :
        LET params == PlaceOrderRequest(order).params.data.params
        IN  /\ orders' = [orders EXCEPT ![o] =
                 [instrument |-> params.instrument, quantity |-> params.size,
                  type |-> Type[params.type], direction |-> Direction[params.side],
                  lifetime |-> Lifetime[params.timeInForce],
                  price |-> ReadPrice(params.price)]]
            /\ meant' = [meant EXCEPT ![o] = order]
            /\ read' = None
  BY DEF Place
<1> PICK params : params = PlaceOrderRequest(order).params.data.params
  OBVIOUS
<1>2. params = [instrument  |-> order.instrument,
                size        |-> order.quantity,
                type        |-> TypeName[order.type],
                side        |-> DirectionName[order.direction],
                timeInForce |-> LifetimeName[order.lifetime],
                price       |-> SerializeNumber(order.price)]
  BY MethodParams DEF PlaceOrderRequest
<1>3. /\ order.type \in {"Limit", "PostOnly"} /\ order.direction \in {"Buy", "Sell"}
      /\ order.lifetime \in {"Gtc", "IoC", "FoK"} /\ order.price \in Prices
  BY DEF Order
<1>4. /\ params.instrument = order.instrument /\ params.size = order.quantity
      /\ Type[params.type] = order.type
      /\ Direction[params.side] = order.direction
      /\ Lifetime[params.timeInForce] = order.lifetime
      /\ ReadPrice(params.price) = order.price
  BY <1>2, <1>3, TypeUnderstood, DirectionUnderstood, LifetimeUnderstood,
     NumberUnderstood
<1>5. order = [instrument |-> order.instrument, quantity |-> order.quantity,
               type |-> order.type, direction |-> order.direction,
               lifetime |-> order.lifetime, price |-> order.price]
  BY DEF Order
<1>6. orders' = [orders EXCEPT ![o] = order]
  BY <1>1, <1>4, <1>5
<1> QED
  BY <1>1, <1>6 DEF KeptOrders, RequestsUnderstood

LEMMA ReplaceUnderstood ==
  ASSUME KeptOrders, Replace
  PROVE  KeptOrders' /\ read' = None
<1>1. PICK o \in OrderIds, price \in Prices, quantity \in Quantities :
        /\ orders[o] # None
        /\ LET params == ReplaceOrderRequest(o, price, quantity).params.data.params
           IN  orders' = [orders EXCEPT
                 ![params.orderId].price = ReadPrice(params.price),
                 ![params.orderId].quantity = params.size]
        /\ meant' = [meant EXCEPT ![o].price = price, ![o].quantity = quantity]
        /\ read' = None
        /\ UNCHANGED <<secret, session, channels>>
  BY Zenon DEF Replace
<1> PICK params : params = ReplaceOrderRequest(o, price, quantity).params.data.params
  OBVIOUS
<1>2. params = [orderId |-> o, price |-> SerializeNumber(price), size |-> quantity]
  BY MethodParams DEF ReplaceOrderRequest
<1>3. params.orderId = o /\ ReadPrice(params.price) = price /\ params.size = quantity
  BY <1>2, NumberUnderstood
<1>4. orders' = [orders EXCEPT ![o].price = price, ![o].quantity = quantity]
  BY <1>1, <1>3
<1>5. orders' = meant'
  BY <1>1, <1>4 DEF KeptOrders, RequestsUnderstood
<1>6. orders[o] \in Order
  BY <1>1 DEF KeptOrders
<1>7. [[orders[o] EXCEPT !.price = price] EXCEPT !.quantity = quantity] \in Order
  BY <1>6 DEF Order
<1>8. orders' \in [OrderIds -> Order \cup {None}]
  BY <1>4, <1>7 DEF KeptOrders
<1> QED
  BY <1>1, <1>5, <1>8 DEF KeptOrders, RequestsUnderstood

LEMMA CancelUnderstood ==
  ASSUME KeptOrders, Cancel
  PROVE  KeptOrders' /\ read' = None
<1>1. PICK o \in OrderIds :
        /\ orders' = [orders EXCEPT
             ![CancelOrderRequest(o).params.data.params] = None]
        /\ meant' = [meant EXCEPT ![o] = None]
        /\ read' = None
  BY DEF Cancel
<1>2. CancelOrderRequest(o).params.data.params = o
  BY MethodParams DEF CancelOrderRequest
<1> QED
  BY <1>1, <1>2 DEF KeptOrders, RequestsUnderstood

LEMMA PublishUnderstood ==
  ASSUME KeptOrders, Publish
  PROVE  KeptOrders' /\ EchoUnderstood'
<1>1. UNCHANGED <<orders, meant>>
  BY DEF Publish
<1>2. PICK o, status, remaining :
        /\ o \in OrderIds /\ status \in DOMAIN Status /\ orders[o] # None
        /\ read' = [channel   |-> Named(ChannelName, "orders"),
                    id        |-> o,
                    status    |-> Status[status],
                    remaining |-> remaining,
                    taken     |-> DeserializeOrder(
                      [id |-> o, instrument |-> orders[o].instrument,
                       type |-> WordFor(Type, orders[o].type),
                       timeInForce |-> WordFor(Lifetime, orders[o].lifetime),
                       side |-> WordFor(Direction, orders[o].direction),
                       status |-> status, price |-> WritePrice(orders[o].price),
                       initialSize |-> orders[o].quantity,
                       remainingSize |-> remaining])]
  BY DEF Publish
<1> PICK order : order = orders[o]
  OBVIOUS
<1>3. order \in Order /\ order = meant[o]
  BY <1>2 DEF KeptOrders, RequestsUnderstood
<1>4. /\ order.type \in {"Limit", "PostOnly"} /\ order.direction \in {"Buy", "Sell"}
      /\ order.lifetime \in {"Gtc", "IoC", "FoK"} /\ order.price \in Prices
  BY <1>3 DEF Order
<1> PICK object :
      object = [id |-> o, instrument |-> order.instrument,
                type |-> WordFor(Type, order.type),
                timeInForce |-> WordFor(Lifetime, order.lifetime),
                side |-> WordFor(Direction, order.direction),
                status |-> status, price |-> WritePrice(order.price),
                initialSize |-> order.quantity,
                remainingSize |-> remaining]
  OBVIOUS
<1>5. /\ GetInt(object, "id", -1) = o
      /\ GetInt(object, "instrument", -1) = order.instrument
      /\ GetInt(object, "initialSize", -1) = order.quantity
      /\ GetInt(object, "remainingSize", -1) = remaining
      /\ GetString(object, "type") = WordFor(Type, order.type)
      /\ GetString(object, "timeInForce") = WordFor(Lifetime, order.lifetime)
      /\ GetString(object, "side") = WordFor(Direction, order.direction)
      /\ GetString(object, "status") = status
      /\ object["price"] = WritePrice(order.price)
  BY DEF GetInt, GetString
<1>6. DeserializeOrder(object) =
        [id |-> o, instrument |-> order.instrument, type |-> order.type,
         lifetime |-> order.lifetime, direction |-> order.direction,
         status |-> Status[status], price |-> order.price,
         quantity |-> order.quantity, remaining |-> remaining]
  <2>1. /\ Named(TypeName, GetString(object, "type")) = order.type
        /\ Named(LifetimeName, GetString(object, "timeInForce")) = order.lifetime
        /\ Named(DirectionName, GetString(object, "side")) = order.direction
    BY <1>4, <1>5, TypeUnderstood, LifetimeUnderstood, DirectionUnderstood
  <2>2. Named(StatusName, GetString(object, "status")) = Status[status]
    BY <1>2, <1>5, StatusUnderstood
  <2>3. DeserializeNumber(object["price"], [significand |-> None]) = order.price
    BY <1>4, <1>5, NumberRead
  <2> QED
    BY <1>5, <2>1, <2>2, <2>3 DEF DeserializeOrder
<1>7. read' = [channel |-> "Orders", id |-> o, status |-> Status[status],
               remaining |-> remaining, taken |-> DeserializeOrder(object)]
  BY <1>2, OrdersChannel
<1>8. meant'[o] = order
  BY <1>1, <1>3
<1>9. EchoUnderstood'
  BY <1>6, <1>7, <1>8 DEF EchoUnderstood
<1> QED
  BY <1>1, <1>9 DEF KeptOrders, RequestsUnderstood

LEMMA Understood == Spec => []WInv
<1>1. Init => WInv
  BY DEF Init, WInv, KeptOrders, RequestsUnderstood, EchoUnderstood
<1>2. WInv /\ [Next]_vars => WInv'
  <2> SUFFICES ASSUME KeptOrders, EchoUnderstood, [Next]_vars
               PROVE  KeptOrders' /\ EchoUnderstood'
    BY DEF WInv
  <2>1. CASE UNCHANGED <<orders, meant, read>>
    BY <2>1 DEF KeptOrders, RequestsUnderstood, EchoUnderstood
  <2>2. ASSUME KeptOrders', read' = None
        PROVE  EchoUnderstood'
    BY <2>2 DEF EchoUnderstood
  <2>3. CASE Subscribe
    BY <2>2, <2>3 DEF Subscribe, KeptOrders, RequestsUnderstood
  <2>4. CASE Place
    BY <2>2, <2>4, PlaceUnderstood
  <2>5. CASE Replace
    BY <2>2, <2>5, ReplaceUnderstood
  <2>6. CASE Cancel
    BY <2>2, <2>6, CancelUnderstood
  <2>7. CASE Publish
    BY <2>7, PublishUnderstood
  <2>8. CASE Authenticate
    BY <2>1, <2>8 DEF Authenticate
  <2> QED
    BY <2>1, <2>3, <2>4, <2>5, <2>6, <2>7, <2>8 DEF Next, vars
<1> QED
  BY <1>1, <1>2, PTL DEF Spec

(* RequestsUnderstood: the exchange's terms of every order are the ones    *)
(* the robot had in mind, through the enums of Types.hpp, their names and  *)
(* the members that Serialize of each request class writes.                *)
THEOREM RequestsUnderstoodCorrect == Spec => []RequestsUnderstood
<1>1. WInv => RequestsUnderstood
  BY DEF WInv, KeptOrders
<1> QED
  BY <1>1, Understood, PTL

(* EchoUnderstood: OrderEntry::Deserialize reads those terms back by the   *)
(* names of the members, the status and the remaining quantity being the   *)
(* ones the exchange states.                                               *)
THEOREM EchoUnderstoodCorrect == Spec => []EchoUnderstood
<1>1. WInv => EchoUnderstood
  BY DEF WInv
<1> QED
  BY <1>1, Understood, PTL


-----------------------------------------------------------------------------
(* Induction, by the least number for which it fails; a sequence may be    *)
(* defined from each element to the next.                                  *)
LEMMA Induction ==
  ASSUME NEW T, 0 \in T, \A n \in Nat : n \in T => n + 1 \in T
  PROVE  Nat \subseteq T
<1> DEFINE F == {n \in Nat : n \notin T}
<1> SUFFICES ASSUME F # {} PROVE FALSE
  OBVIOUS
<1>1. PICK n \in F : \A k \in F : ~(<<k, n>> \in OpToRel(<, Nat))
  <2>1. F \subseteq Nat
    OBVIOUS
  <2> HIDE DEF F
  <2> QED
    BY <2>1, NatLessThanWellFounded, WFMin
<1>2. \A k \in F : ~(k < n)
  BY <1>1 DEF OpToRel
<1>3. n \in Nat \ {0} /\ n - 1 \in Nat /\ n - 1 < n /\ n = (n - 1) + 1
  OBVIOUS
<1>4. n - 1 \in T
  BY <1>2, <1>3
<1> QED
  BY <1>3, <1>4

Goes(c, G, R) ==
  /\ <<0, c>> \in R
  /\ \A n \in Nat, v \in Nat : <<n, v>> \in R => <<n + 1, G[<<n, v>>]>> \in R

LEMMA Sequel ==
  ASSUME NEW c \in Nat, NEW G \in [Nat \X Nat -> Nat]
  PROVE  \E f \in [Nat -> Nat] : f[0] = c /\ \A n \in Nat : f[n + 1] = G[<<n, f[n]>>]
<1> DEFINE All == SUBSET (Nat \X Nat)
           R == {x \in Nat \X Nat : \A Q \in All : Goes(c, G, Q) => x \in Q}
           Only(n, v) == \A w \in Nat : <<n, w>> \in R <=> w = v
           T == {n \in Nat : \E v \in Nat : Only(n, v)}
<1>1. Goes(c, G, R)
  <2>1. <<0, c>> \in R
    BY DEF Goes
  <2>2. ASSUME NEW n \in Nat, NEW v \in Nat, <<n, v>> \in R
        PROVE  <<n + 1, G[<<n, v>>]>> \in R
    <3>1. <<n + 1, G[<<n, v>>]>> \in Nat \X Nat
      <4>1. n + 1 \in Nat
        OBVIOUS
      <4>2. <<n, v>> \in Nat \X Nat
        OBVIOUS
      <4> QED
        BY <4>1, <4>2
    <3>2. \A Q \in All : Goes(c, G, Q) => <<n + 1, G[<<n, v>>]>> \in Q
      BY <2>2 DEF Goes
    <3> QED
      BY <3>1, <3>2
  <2> QED
    BY <2>1, <2>2 DEF Goes
<1>2. ASSUME NEW x \in R
      PROVE  ~Goes(c, G, R \ {x})
  <2>1. R \ {x} \in All
    OBVIOUS
  <2> QED
    BY <2>1
<1>3. R \subseteq Nat \X Nat
  OBVIOUS
<1> HIDE DEF R
<1>4. Only(0, c)
  <2>1. ASSUME NEW w \in Nat, <<0, w>> \in R, w # c
        PROVE  FALSE
    <3>1. Goes(c, G, R \ {<<0, w>>})
      <4>1. <<0, c>> \in R /\ <<0, c>> # <<0, w>>
        BY <1>1, <2>1 DEF Goes
      <4>2. ASSUME NEW n \in Nat, NEW v \in Nat, <<n, v>> \in R
            PROVE  <<n + 1, G[<<n, v>>]>> \in R \ {<<0, w>>}
        <5>1. <<n + 1, G[<<n, v>>]>> \in R
          BY <1>1, <4>2 DEF Goes
        <5>2. n + 1 # 0
          OBVIOUS
        <5> QED
          BY <5>1, <5>2
      <4> QED
        BY <4>1, <4>2 DEF Goes
    <3> QED
      BY <1>2, <2>1, <3>1
  <2> QED
    BY <1>1, <2>1 DEF Goes
<1>5. ASSUME NEW n \in Nat, NEW v \in Nat, Only(n, v)
      PROVE  Only(n + 1, G[<<n, v>>])
  <2>v. PICK u \in Nat : u = G[<<n, v>>]
    OBVIOUS
  <2>1. <<n + 1, u>> \in R
    BY <1>1, <1>5, <2>v DEF Goes
  <2>2. ASSUME NEW w \in Nat, <<n + 1, w>> \in R, w # u
        PROVE  FALSE
    <3>1. Goes(c, G, R \ {<<n + 1, w>>})
      <4>1. <<0, c>> \in R /\ <<0, c>> # <<n + 1, w>>
        <5>1. 0 # n + 1
          OBVIOUS
        <5> QED
          BY <1>1, <5>1 DEF Goes
      <4>2. ASSUME NEW k \in Nat, NEW x \in Nat, <<k, x>> \in R
            PROVE  <<k + 1, G[<<k, x>>]>> \in R \ {<<n + 1, w>>}
        <5>1. <<k + 1, G[<<k, x>>]>> \in R
          BY <1>1, <4>2 DEF Goes
        <5>2. k + 1 = n + 1 => k = n /\ x = v
          BY <1>5, <4>2
        <5> QED
          BY <2>2, <2>v, <5>1, <5>2
      <4> QED
        BY <4>1, <4>2 DEF Goes
    <3> QED
      BY <1>2, <2>2, <3>1
  <2> QED
    BY <2>1, <2>2, <2>v
<1>6. Nat \subseteq T
  <2>1. 0 \in T
    BY <1>4
  <2>2. ASSUME NEW n \in Nat, n \in T
        PROVE  n + 1 \in T
    <3>1. PICK v \in Nat : Only(n, v)
      BY <2>2
    <3>2. <<n, v>> \in Nat \X Nat /\ n + 1 \in Nat
      OBVIOUS
    <3>3. G[<<n, v>>] \in Nat
      BY <3>2
    <3> QED
      BY <1>5, <3>1, <3>2, <3>3
  <2> HIDE DEF T
  <2> QED
    BY <2>1, <2>2, Induction
<1> DEFINE f == [n \in Nat |-> CHOOSE v \in Nat : Only(n, v)]
<1>7. \A n \in Nat : f[n] \in Nat /\ Only(n, f[n])
  BY <1>6
<1>8. f \in [Nat -> Nat]
  BY <1>7
<1> HIDE DEF f
<1>9. f[0] = c
  BY <1>4, <1>7
<1>10. ASSUME NEW n \in Nat
       PROVE  f[n + 1] = G[<<n, f[n]>>]
  <2>1. n + 1 \in Nat /\ f[n] \in Nat
    BY <1>8
  <2>3. G[<<n, f[n]>>] \in Nat
    <3>1. <<n, f[n]>> \in Nat \X Nat
      BY <2>1
    <3> QED
      BY <3>1
  <2>2. Only(n + 1, G[<<n, f[n]>>]) /\ Only(n + 1, f[n + 1])
    BY <1>5, <1>7, <2>1
  <2> QED
    BY <2>1, <2>2, <2>3
<1> QED
  BY <1>8, <1>9, <1>10

-----------------------------------------------------------------------------
(* Positional notation.                                                    *)
LEMMA Multiplied == \A a, b, d \in Nat : a * b + d \in Nat
OBVIOUS

LEMMA ElementOf ==
  ASSUME NEW S, NEW s \in Seq(S), NEW i \in 1..Len(s)
  PROVE  s[i] \in S
OBVIOUS

ValueOf(digits, base, f) ==
  f = [i \in 0..Len(digits) |->
         IF i = 0 THEN 0 ELSE base * f[i - 1] + digits[i]]

(* The numbers that the first 0, 1, ... n of the digits denote.            *)
Running(f, n, digits, base, number) ==
  /\ \A i \in 0..n : f[i] \in Nat
  /\ f[0] = 0 /\ f[n] = number
  /\ \A i \in 1..n : f[i] = base * f[i - 1] + digits[i]

LEMMA NumberOfDigits ==
  ASSUME NEW base \in Nat, NEW digits \in Seq(Nat)
  PROVE  \E f : Running(f, Len(digits), digits, base, NumberOf(digits, base))
<1>n. PICK n \in Nat : n = Len(digits)
  OBVIOUS
<1> DEFINE G == [x \in Nat \X Nat |->
                   IF x[1] < n THEN base * x[2] + digits[x[1] + 1] ELSE 0]
<1>1. G \in [Nat \X Nat -> Nat]
  <2>1. ASSUME NEW k \in Nat, NEW v \in Nat, k < n
        PROVE  base * v + digits[k + 1] \in Nat
    <3>1. base * v \in Nat
      OBVIOUS
    <3>2. k + 1 \in 1..Len(digits)
      BY <1>n, <2>1
    <3>3. digits[k + 1] \in Nat
      BY <3>2
    <3> QED
      BY <3>1, <3>3
  <2>2. \A x \in Nat \X Nat : x[1] \in Nat /\ x[2] \in Nat
    OBVIOUS
  <2>3. \A x \in Nat \X Nat :
          (IF x[1] < n THEN base * x[2] + digits[x[1] + 1] ELSE 0) \in Nat
    BY <2>1, <2>2
  <2> QED
    BY <2>3
<1>2. \A k, v \in Nat : k < n => G[<<k, v>>] = base * v + digits[k + 1]
  OBVIOUS
<1> HIDE DEF G
<1>3. PICK g \in [Nat -> Nat] : g[0] = 0 /\ \A k \in Nat : g[k + 1] = G[<<k, g[k]>>]
  <2>1. 0 \in Nat
    OBVIOUS
  <2> QED
    BY <1>1, <2>1, Sequel
<1>4. ASSUME NEW i \in 1..n
      PROVE  g[i] = base * g[i - 1] + digits[i]
  <2>k. PICK k \in Nat : k = i - 1
    OBVIOUS
  <2>1. k < n /\ k + 1 = i /\ g[k] \in Nat
    BY <2>k
  <2> QED
    BY <1>2, <1>3, <2>1, <2>k
<1> DEFINE h == [i \in 0..n |-> g[i]]
<1>5. /\ h \in [0..n -> Nat] /\ h[0] = 0
      /\ \A i \in 1..n : i - 1 \in 0..n /\ h[i] = base * h[i - 1] + digits[i]
  <2>1. \A i \in 0..n : h[i] = g[i]
    OBVIOUS
  <2>2. \A i \in 1..n : i \in 0..n /\ i - 1 \in 0..n
    BY <1>n
  <2>3. h \in [0..n -> Nat] /\ 0 \in 0..n
    <3>1. \A i \in 0..n : i \in Nat
      BY <1>n
    <3>2. \A i \in 0..n : g[i] \in Nat
      BY <1>3, <3>1
    <3>3. 0 \in 0..n
      BY <1>n
    <3> QED
      BY <3>2, <3>3
  <2> HIDE DEF h
  <2> QED
    BY <1>3, <1>4, <2>1, <2>2, <2>3
<1> HIDE DEF h
<1>6. ValueOf(digits, base, h)
  BY <1>5, <1>n DEF ValueOf
<1>f. PICK f : f = CHOOSE x : ValueOf(digits, base, x)
  OBVIOUS
<1>7. ValueOf(digits, base, f)
  BY <1>6, <1>f
<1>8. NumberOf(digits, base) = f[n]
  BY <1>f, <1>n, Zenon DEF NumberOf, ValueOf
<1>9. f[0] = 0 /\ \A i \in 1..n : f[i] = base * f[i - 1] + digits[i]
  <2>1. \A i \in 0..n : f[i] = IF i = 0 THEN 0 ELSE base * f[i - 1] + digits[i]
    BY <1>7, <1>n DEF ValueOf
  <2>2. 0 \in 0..n /\ \A i \in 1..n : i \in 0..n /\ i # 0
    BY <1>n
  <2> QED
    BY <2>1, <2>2, Zenon
<1>10. \A i \in 0..n : f[i] \in Nat
  <2> DEFINE T == {i \in Nat : i <= n => f[i] \in Nat}
  <2>1. 0 \in T
    BY <1>9
  <2>2. ASSUME NEW i \in Nat, i \in T
        PROVE  i + 1 \in T
    <3>k. PICK k : k = i + 1
      OBVIOUS
    <3>1. ASSUME k <= n
          PROVE  f[k] \in Nat
      <4>1. k \in 1..n /\ k - 1 = i /\ i <= n
        BY <1>n, <3>1, <3>k
      <4>0. digits[k] \in Nat
        BY <1>n, <4>1, ElementOf
      <4>2. f[i] \in Nat
        BY <2>2, <4>1
      <4>4. f[k] = base * f[i] + digits[k]
        BY <1>9, <4>1
      <4> QED
        BY <4>0, <4>2, <4>4, Multiplied
    <3> QED
      BY <3>1, <3>k
  <2>3. Nat \subseteq T
    <3> HIDE DEF T
    <3> QED
      BY <2>1, <2>2, Induction
  <2> QED
    BY <2>3
<1>11. Running(f, n, digits, base, NumberOf(digits, base))
  BY <1>8, <1>9, <1>10 DEF Running
<1> QED
  BY <1>11, <1>n

LeftOf(number, base, f) ==
  f = [k \in Nat |-> IF k = 0 THEN number ELSE f[k - 1] \div base]

(* What is left of a number after 0, 1, ... divisions.                     *)
Dividing(f, number, base) ==
  /\ f[0] = number
  /\ \A k \in Nat : f[k] \in Nat /\ f[k + 1] = f[k] \div base
  /\ \A n : DigitsOf(number, n, base) = [i \in 1..n |-> f[n - i] % base]

LEMMA DigitsOfNumber ==
  ASSUME NEW base \in Nat \ {0}, NEW number \in Nat
  PROVE  \E f : Dividing(f, number, base)
<1> DEFINE G == [x \in Nat \X Nat |-> x[2] \div base]
<1>1. G \in [Nat \X Nat -> Nat] /\ \A k, v \in Nat : G[<<k, v>>] = v \div base
  <2>1. \A v \in Nat : v \div base \in Nat
    OBVIOUS
  <2> QED
    BY <2>1
<1> HIDE DEF G
<1>2. PICK h \in [Nat -> Nat] : h[0] = number /\ \A k \in Nat : h[k + 1] = G[<<k, h[k]>>]
  BY <1>1, Sequel
<1>3. LeftOf(number, base, h)
  <2>1. ASSUME NEW k \in Nat, k # 0
        PROVE  h[k] = h[k - 1] \div base
    <3>j. PICK j \in Nat : j = k - 1
      BY <2>1
    <3>1. j + 1 = k /\ h[j] \in Nat
      BY <3>j
    <3> QED
      BY <1>1, <1>2, <3>1, <3>j
  <2> QED
    BY <1>2, <2>1 DEF LeftOf
<1> DEFINE f == CHOOSE x :
             x = [k \in Nat |-> IF k = 0 THEN number ELSE x[k - 1] \div base]
<1>4. LeftOf(number, base, f)
  <2>1. \E x : x = [k \in Nat |-> IF k = 0 THEN number ELSE x[k - 1] \div base]
    BY <1>3 DEF LeftOf
  <2>2. f = [k \in Nat |-> IF k = 0 THEN number ELSE f[k - 1] \div base]
    BY <2>1, Zenon
  <2> HIDE DEF f
  <2> QED
    BY <2>2 DEF LeftOf
<1>5. \A n : DigitsOf(number, n, base) = [i \in 1..n |-> f[n - i] % base]
  BY Zenon DEF DigitsOf
<1> HIDE DEF f
<1>6. f[0] = number /\ \A k \in Nat : f[k + 1] = f[k] \div base
  <2>1. f[0] = number
    BY <1>4 DEF LeftOf
  <2>2. ASSUME NEW k \in Nat
        PROVE  f[k + 1] = f[k] \div base
    <3>j. PICK j \in Nat : j = k + 1
      OBVIOUS
    <3>1. j # 0 /\ j - 1 = k
      BY <3>j
    <3>2. f[j] = IF j = 0 THEN number ELSE f[j - 1] \div base
      BY <1>4 DEF LeftOf
    <3> QED
      BY <3>1, <3>2, <3>j
  <2> QED
    BY <2>1, <2>2
<1>7. \A k \in Nat : f[k] \in Nat
  <2> DEFINE T == {k \in Nat : f[k] \in Nat}
  <2>1. 0 \in T /\ \A k \in Nat : k \in T => k + 1 \in T
    <3>1. \A v \in Nat : v \div base \in Nat
      OBVIOUS
    <3> QED
      BY <1>6, <3>1
  <2> HIDE DEF T
  <2>2. Nat \subseteq T
    BY <2>1, Induction
  <2> QED
    BY <2>2 DEF T
<1>8. Dividing(f, number, base)
  BY <1>5, <1>6, <1>7 DEF Dividing
<1> QED
  BY <1>8

-----------------------------------------------------------------------------
(* The conversions of Digest.cpp are positional notation.                  *)
(* A number whose last byte is b, or whose last two digits are a and b.    *)
EndsInByte(c, v, b) == v \in Nat /\ b \in 0..255 /\ c = 256 * v + b
EndsInDigits(c, v, a, b) ==
  v \in Nat /\ a \in 0..15 /\ b \in 0..15 /\ c = 16 * (16 * v + a) + b

LEMMA TwoDigits ==
  ASSUME NEW c, NEW v, NEW a, NEW b, EndsInDigits(c, v, a, b)
  PROVE  c \div 256 = v /\ c % 256 = 16 * a + b
BY DEF EndsInDigits

LEMMA Halves ==
  ASSUME NEW i \in Nat
  PROVE  /\ (i + 1) \div 2 \in Nat
         /\ i % 2 = 1 => 2 * ((i + 1) \div 2) = i + 1
         /\ i % 2 # 1 => 2 * ((i + 1) \div 2) = i
OBVIOUS

LEMMA OneByte ==
  ASSUME NEW c, NEW v, NEW b, EndsInByte(c, v, b)
  PROVE  c % 16 = b % 16 /\ (c \div 16) % 16 = b \div 16 /\ (c \div 16) \div 16 = v
BY DEF EndsInByte

(* The characters of the bytes: the digits, after a zero if they are odd.  *)
Even(hex) == IF Len(hex) % 2 = 1 THEN <<0>> \o hex ELSE hex

LEMMA EvenDigits ==
  ASSUME NEW hex \in Seq(0..15), NEW n, n = (Len(hex) + 1) \div 2
  PROVE  /\ n \in Nat
         /\ Even(hex) \in Seq(0..15) /\ Len(Even(hex)) = 2 * n
         /\ \E u : Running(u, 2 * n, Even(hex), 16, NumberOf(hex, 16))
<1>m. PICK m \in Nat : m = Len(hex)
  OBVIOUS
<1>1. hex \in Seq(Nat)
  <2>1. 0..15 \subseteq Nat
    OBVIOUS
  <2>2. \A i \in 1..m : hex[i] \in Nat
    BY <1>m
  <2> QED
    BY <2>2, <1>m
<1>2. PICK v : Running(v, m, hex, 16, NumberOf(hex, 16))
  <2>1. 16 \in Nat
    OBVIOUS
  <2> QED
    BY <1>1, <1>m, <2>1, NumberOfDigits
<1>v. /\ \A i \in 0..m : v[i] \in Nat
      /\ v[0] = 0 /\ v[m] = NumberOf(hex, 16)
      /\ \A i \in 1..m : v[i] = 16 * v[i - 1] + hex[i]
  BY <1>2 DEF Running
<1>3. CASE m % 2 = 1
  <2>1. n \in Nat /\ 2 * n = m + 1
    BY <1>3, <1>m
  <2>2. /\ Even(hex) \in Seq(0..15) /\ Len(Even(hex)) = m + 1
        /\ Even(hex)[1] = 0 /\ \A j \in 2..m + 1 : Even(hex)[j] = hex[j - 1]
    <3>1. Even(hex) = <<0>> \o hex
      BY <1>3, <1>m DEF Even
    <3>2. <<0>> \in Seq(0..15) /\ Len(<<0>>) = 1 /\ <<0>>[1] = 0
      OBVIOUS
    <3> QED
      BY <1>m, <3>1, <3>2
  <2> DEFINE u == [j \in 0..m + 1 |-> IF j = 0 THEN 0 ELSE v[j - 1]]
  <2>3. \A j \in 0..m + 1 : u[j] \in Nat
    <3>1. \A j \in 0..m + 1 : j # 0 => j - 1 \in 0..m
      OBVIOUS
    <3> QED
      BY <1>v, <3>1
  <2>4. u[0] = 0 /\ u[m + 1] = v[m]
    OBVIOUS
  <2>5. ASSUME NEW j \in 1..m + 1
        PROVE  u[j] = 16 * u[j - 1] + Even(hex)[j]
    <3>1. j \in 0..m + 1 /\ j - 1 \in 0..m + 1 /\ j # 0
      OBVIOUS
    <3>2. u[j] = v[j - 1] /\ u[j - 1] = IF j - 1 = 0 THEN 0 ELSE v[j - 1 - 1]
      BY <3>1
    <3> HIDE DEF u
    <3>3. CASE j = 1
      BY <1>v, <2>2, <3>2, <3>3
    <3>4. CASE j # 1
      <4>i. PICK i : i = j - 1
        OBVIOUS
      <4>1. i \in 1..m /\ j \in 2..m + 1 /\ i # 0
        BY <3>4, <4>i
      <4>2. v[i] = 16 * v[i - 1] + hex[i]
        BY <1>v, <4>1
      <4>3. u[j] = v[i] /\ u[j - 1] = v[i - 1] /\ Even(hex)[j] = hex[i]
        BY <2>2, <3>2, <4>1, <4>i
      <4> QED
        BY <4>2, <4>3
    <3> QED
      BY <3>3, <3>4
  <2> HIDE DEF u
  <2>6. Running(u, m + 1, Even(hex), 16, NumberOf(hex, 16))
    BY <1>v, <2>3, <2>4, <2>5 DEF Running
  <2> QED
    BY <2>1, <2>2, <2>6
<1>4. CASE m % 2 # 1
  <2>1. n \in Nat /\ 2 * n = m
    BY <1>4, <1>m
  <2>2. Even(hex) = hex
    BY <1>4, <1>m DEF Even
  <2> QED
    BY <1>2, <1>m, <2>1, <2>2
<1> QED
  BY <1>3, <1>4

Digits(s, base) == s \in Seq(0..base - 1)

LEMMA FromHexIsBytes ==
  ASSUME NEW hex, Digits(hex, 16)
  PROVE  FromHex(hex) = SecretBytes(hex) /\ ~FromHexThrows(hex)
<1>h. hex \in Seq(0..15)
  BY DEF Digits
<1>n. PICK n : n = (Len(hex) + 1) \div 2
  OBVIOUS
<1>e. PICK even : even = Even(hex)
  OBVIOUS
<1>1. n \in Nat /\ even \in Seq(0..15) /\ Len(even) = 2 * n
  BY <1>e, <1>h, <1>n, EvenDigits
<1>u. PICK u : Running(u, 2 * n, even, 16, NumberOf(hex, 16))
  BY <1>e, <1>h, <1>n, EvenDigits
<1>2. /\ \A j \in 0..2 * n : u[j] \in Nat
      /\ u[0] = 0 /\ u[2 * n] = NumberOf(hex, 16)
      /\ \A j \in 1..2 * n : u[j] = 16 * u[j - 1] + even[j]
  BY <1>u DEF Running
<1>3. Tokens(hex) = [i \in 1..n |-> <<even[2 * i - 1], even[2 * i]>>]
  <2>1. Len(even) \div 2 = n
    BY <1>1
  <2> QED
    BY <1>e, <2>1 DEF Tokens, Even
<1>4. ASSUME NEW i \in 1..n
      PROVE  /\ 2 * i \in 1..2 * n /\ 2 * i - 1 \in 1..2 * n /\ 2 * i - 2 \in 0..2 * n
             /\ even[2 * i - 1] \in 0..15 /\ even[2 * i] \in 0..15
             /\ u[2 * i - 2] \in Nat
             /\ u[2 * i] = 16 * (16 * u[2 * i - 2] + even[2 * i - 1]) + even[2 * i]
  <2>1. 2 * i \in 1..2 * n /\ 2 * i - 1 \in 1..2 * n /\ 2 * i - 2 \in 0..2 * n
    BY <1>1
  <2>2. even[2 * i - 1] \in 0..15 /\ even[2 * i] \in 0..15
    BY <1>1, <2>1, ElementOf
  <2>3. u[2 * i] = 16 * u[2 * i - 1] + even[2 * i]
    BY <1>2, <2>1
  <2>4. u[2 * i - 1] = 16 * u[2 * i - 2] + even[2 * i - 1]
    <3>1. \A j \in 1..2 * n : u[j] = 16 * u[j - 1] + even[j]
      BY <1>2
    <3>2. (2 * i - 1) - 1 = 2 * i - 2
      BY <1>1
    <3> QED
      BY <2>1, <3>1, <3>2
  <2> QED
    BY <1>2, <2>1, <2>2, <2>3, <2>4
<1>5. FromHex(hex) = [i \in 1..n |-> 16 * even[2 * i - 1] + even[2 * i]]
  <2>1. ASSUME NEW i \in 1..n
        PROVE  /\ IsDigit(even[2 * i]) /\ even[2 * i - 1] # Blank
               /\ even[2 * i - 1] # Minus
    <3>1. even[2 * i] \in 0..15 /\ even[2 * i - 1] \in 0..15
      BY <1>4
    <3> QED
      BY <3>1 DEF IsDigit, Blank, Minus
  <2> QED
    BY <1>3, <2>1 DEF FromHex
<1>6. ~FromHexThrows(hex)
  <2>1. ASSUME NEW i \in 1..n
        PROVE  IsDigit(even[2 * i - 1])
    <3>1. even[2 * i - 1] \in 0..15
      BY <1>4
    <3> QED
      BY <3>1 DEF IsDigit
  <2> QED
    BY <1>3, <2>1 DEF FromHexThrows
<1>x. PICK x \in Nat : x = u[2 * n]
  BY <1>1, <1>2
<1>l. PICK left : Dividing(left, x, 256)
  <2>1. 256 \in Nat \ {0}
    OBVIOUS
  <2> QED
    BY <2>1, DigitsOfNumber
<1>7. /\ left[0] = x
      /\ \A k \in Nat : left[k + 1] = left[k] \div 256
      /\ \A k : DigitsOf(x, k, 256) = [i \in 1..k |-> left[k - i] % 256]
  BY <1>l DEF Dividing
<1>11. ASSUME NEW i \in 1..n
       PROVE  /\ u[2 * i] \div 256 = u[2 * i - 2]
              /\ u[2 * i] % 256 = 16 * even[2 * i - 1] + even[2 * i]
  <2>v. PICK v \in Nat : v = u[2 * i - 2]
    BY <1>4
  <2>a. PICK a \in 0..15 : a = even[2 * i - 1]
    BY <1>4
  <2>b. PICK b \in 0..15 : b = even[2 * i]
    BY <1>4
  <2>c. PICK c : c = 16 * (16 * v + a) + b
    OBVIOUS
  <2>1. u[2 * i] = c
    BY <1>4, <2>a, <2>b, <2>c, <2>v
  <2>2. c \div 256 = v /\ c % 256 = 16 * a + b
    <3>1. EndsInDigits(c, v, a, b)
      BY <2>c DEF EndsInDigits
    <3> QED
      BY <3>1, TwoDigits, Zenon
  <2> QED
    BY <2>1, <2>2, <2>a, <2>b, <2>v, Zenon
<1>8. ASSUME NEW k \in Nat, k <= n
      PROVE  left[k] = u[2 * (n - k)]
  <2> DEFINE T == {j \in Nat : j <= n => left[j] = u[2 * (n - j)]}
  <2>1. 0 \in T
    BY <1>1, <1>7, <1>x
  <2>2. ASSUME NEW j \in Nat, j \in T
        PROVE  j + 1 \in T
    <3> SUFFICES ASSUME j + 1 <= n
                 PROVE  left[j + 1] = u[2 * (n - (j + 1))]
      OBVIOUS
    <3>i. PICK i : i = n - j
      OBVIOUS
    <3>1. i \in 1..n /\ 2 * (n - j) = 2 * i /\ 2 * (n - (j + 1)) = 2 * i - 2 /\ j <= n
      BY <1>1, <3>i
    <3>2. left[j] = u[2 * i]
      BY <2>2, <3>1
    <3> HIDE DEF T
    <3>3. left[j + 1] = u[2 * i] \div 256
      BY <1>7, <3>2
    <3>4. u[2 * i] \div 256 = u[2 * i - 2]
      BY <1>11, <3>1
    <3> QED
      BY <3>1, <3>3, <3>4
  <2>3. Nat \subseteq T
    <3> HIDE DEF T
    <3> QED
      BY <2>1, <2>2, Induction
  <2> QED
    BY <1>8, <2>3
<1>9. ASSUME NEW i \in 1..n
      PROVE  left[n - i] % 256 = 16 * even[2 * i - 1] + even[2 * i]
  <2>1. n - i \in Nat /\ n - i <= n /\ 2 * (n - (n - i)) = 2 * i
    BY <1>1
  <2>2. left[n - i] = u[2 * i]
    BY <1>8, <2>1
  <2> QED
    BY <1>11, <2>2
<1>10. SecretBytes(hex) = [i \in 1..n |-> left[n - i] % 256]
  <2>1. SecretBytes(hex) = DigitsOf(x, n, 256)
    BY <1>2, <1>n, <1>x DEF SecretBytes
  <2> QED
    BY <1>1, <1>7, <2>1
<1> QED
  BY <1>5, <1>6, <1>9, <1>10

LEMMA ToHexIsDigits ==
  ASSUME NEW bytes, Digits(bytes, 256)
  PROVE  ToHex(bytes) = DigitsOf(NumberOf(bytes, 256), 2 * Len(bytes), 16)
<1>d. bytes \in Seq(0..255)
  BY DEF Digits
<1>m. PICK m \in Nat : m = Len(bytes)
  BY <1>d
<1>1. bytes \in Seq(Nat)
  <2>1. 0..255 \subseteq Nat
    OBVIOUS
  <2>2. \A i \in 1..m : bytes[i] \in 0..255
    BY <1>d, <1>m, ElementOf
  <2>3. \A i \in 1..m : bytes[i] \in Nat
    BY <2>1, <2>2
  <2>4. bytes = [i \in 1..m |-> bytes[i]]
    BY <1>d, <1>m
  <2> QED
    BY <2>3, <2>4
<1>v. PICK v : Running(v, m, bytes, 256, NumberOf(bytes, 256))
  <2>1. 256 \in Nat
    OBVIOUS
  <2> QED
    BY <1>1, <1>m, <2>1, NumberOfDigits
<1>2. /\ \A i \in 0..m : v[i] \in Nat
      /\ v[0] = 0 /\ v[m] = NumberOf(bytes, 256)
      /\ \A i \in 1..m : v[i] = 256 * v[i - 1] + bytes[i]
  BY <1>v DEF Running
<1>l. PICK left : Dividing(left, v[m], 16)
  <2>1. v[m] \in Nat
    BY <1>2
  <2>2. 16 \in Nat \ {0}
    OBVIOUS
  <2> QED
    BY <2>1, <2>2, DigitsOfNumber
<1>3. /\ left[0] = v[m]
      /\ \A k \in Nat : left[k + 1] = left[k] \div 16
      /\ \A k : DigitsOf(v[m], k, 16) = [i \in 1..k |-> left[k - i] % 16]
  BY <1>l DEF Dividing
<1>4. ASSUME NEW p \in 1..m
      PROVE  /\ v[p] % 16 = bytes[p] % 16
             /\ (v[p] \div 16) % 16 = bytes[p] \div 16
             /\ (v[p] \div 16) \div 16 = v[p - 1]
  <2>1. p - 1 \in 0..m
    OBVIOUS
  <2>2. v[p - 1] \in Nat
    BY <1>2, <2>1
  <2>3. bytes[p] \in 0..255
    BY <1>d, <1>m, ElementOf
  <2>w. PICK w \in Nat : w = v[p - 1]
    BY <2>2
  <2>b. PICK b \in 0..255 : b = bytes[p]
    BY <2>3
  <2>c. PICK c : c = 256 * w + b
    OBVIOUS
  <2>4. v[p] = c
    BY <1>2, <2>b, <2>c, <2>w
  <2>5. c % 16 = b % 16 /\ (c \div 16) % 16 = b \div 16 /\ (c \div 16) \div 16 = w
    <3>1. EndsInByte(c, w, b)
      BY <2>c DEF EndsInByte
    <3> QED
      BY <3>1, OneByte, Zenon
  <2> QED
    BY <2>4, <2>5, <2>b, <2>w, Zenon
<1>5. ASSUME NEW k \in Nat, k <= m
      PROVE  left[2 * k] = v[m - k]
  <2> DEFINE T == {j \in Nat : j <= m => left[2 * j] = v[m - j]}
  <2>1. 0 \in T
    BY <1>3
  <2>2. ASSUME NEW j \in Nat, j \in T
        PROVE  j + 1 \in T
    <3> SUFFICES ASSUME j + 1 <= m
                 PROVE  left[2 * (j + 1)] = v[m - (j + 1)]
      OBVIOUS
    <3>p. PICK p : p = m - j
      OBVIOUS
    <3>a. PICK a \in Nat : a = 2 * j
      OBVIOUS
    <3>1. p \in 1..m /\ m - (j + 1) = p - 1 /\ j <= m /\ 2 * (j + 1) = (a + 1) + 1
      BY <3>a, <3>p
    <3>2. left[a] = v[p]
      BY <2>2, <3>1, <3>a, <3>p
    <3> HIDE DEF T
    <3>3. a + 1 \in Nat
      OBVIOUS
    <3>4. left[a + 1] = v[p] \div 16 /\ left[(a + 1) + 1] = left[a + 1] \div 16
      BY <1>3, <3>2, <3>3
    <3>5. (v[p] \div 16) \div 16 = v[p - 1]
      BY <1>4, <3>1
    <3> QED
      BY <3>1, <3>4, <3>5
  <2>3. Nat \subseteq T
    <3> HIDE DEF T
    <3> QED
      BY <2>1, <2>2, Induction
  <2> QED
    BY <1>5, <2>3
<1>6. ASSUME NEW i \in 1..2 * m
      PROVE  left[2 * m - i] % 16 = IF i % 2 = 1 THEN bytes[(i + 1) \div 2] \div 16
                                                  ELSE bytes[(i + 1) \div 2] % 16
  <2>p. PICK p : p = (i + 1) \div 2
    OBVIOUS
  <2>0. /\ p \in Int /\ i \in Int /\ 1 <= i /\ i <= 2 * m
        /\ i % 2 = 1 => 2 * p = i + 1
        /\ i % 2 # 1 => 2 * p = i
    <3>1. i \in Nat /\ 1 <= i /\ i <= 2 * m
      OBVIOUS
    <3> QED
      BY <2>p, <3>1, Halves
  <2>1. p \in 1..m /\ m - p \in Nat /\ m - p <= m /\ m - (m - p) = p
    BY <2>0
  <2>2. left[2 * (m - p)] = v[p]
    BY <1>5, <2>1
  <2>3. CASE i % 2 = 1
    <3>a. PICK a \in Nat : a = 2 * (m - p)
      BY <2>1
    <3>1. 2 * m - i = a + 1
      BY <2>0, <2>1, <2>3, <3>a
    <3>2. left[a + 1] = v[p] \div 16
      BY <1>3, <2>2, <3>a
    <3> QED
      BY <1>4, <2>1, <2>3, <2>p, <3>1, <3>2
  <2>4. CASE i % 2 # 1
    <3>1. 2 * m - i = 2 * (m - p)
      BY <2>0, <2>1, <2>4
    <3> QED
      BY <1>4, <2>1, <2>2, <2>4, <2>p, <3>1
  <2> QED
    BY <2>3, <2>4
<1>7. ToHex(bytes) = [i \in 1..2 * m |-> left[2 * m - i] % 16]
  <2>1. ToHex(bytes) = [i \in 1..2 * m |-> IF i % 2 = 1 THEN bytes[(i + 1) \div 2] \div 16
                                                        ELSE bytes[(i + 1) \div 2] % 16]
    BY <1>m DEF ToHex
  <2> QED
    BY <1>6, <2>1
<1>8. DigitsOf(NumberOf(bytes, 256), 2 * m, 16)
        = [i \in 1..2 * m |-> left[2 * m - i] % 16]
  <2>1. DigitsOf(v[m], 2 * m, 16) = [i \in 1..2 * m |-> left[2 * m - i] % 16]
    BY <1>3, Zenon
  <2> QED
    BY <1>2, <2>1, Zenon
<1> QED
  BY <1>7, <1>8, <1>m, Zenon

DigestInv == secret \in Secrets /\ DigestAccepted

LEMMA AuthenticateAccepted ==
  ASSUME DigestInv, Authenticate
  PROVE  DigestInv'
<1>1. PICK now \in Times :
        session' = IF FromHexThrows(secret) THEN "aborted"
                   ELSE LET params == AuthRequest(secret, now).params.data.params
                            own    == Hmac(SecretBytes(secret),
                                           <<params.apiKey, params.time.seconds>>)
                        IN  IF /\ Hexadecimal(secret)
                               /\ params.hmacDigest
                                    = DigitsOf(NumberOf(own, 256), 2 * Len(own), 16)
                            THEN "accepted" ELSE "refused"
  BY DEF Authenticate
<1>2. secret \in Secrets /\ secret' = secret
  BY DEF DigestInv, Authenticate
<1>3. ASSUME Hexadecimal(secret)
      PROVE  session' = "accepted"
  <2>1. secret \in Seq(0..NoDigit)
    BY <1>2, SecretsAssumption
  <2>2. secret \in Seq(0..15)
    <3>1. \A i \in 1..Len(secret) : secret[i] \in 0..15
      BY <1>3, <2>1 DEF Hexadecimal, IsDigit
    <3> QED
      BY <2>1, <3>1
  <2>3. FromHex(secret) = SecretBytes(secret) /\ ~FromHexThrows(secret)
    BY <2>2, FromHexIsBytes DEF Digits
  <2>b. PICK own : own = Hmac(SecretBytes(secret), <<KeyId, now>>)
    OBVIOUS
  <2>4. own \in Seq(0..255)
    BY <1>2, <2>b, SecretsAssumption
  <2>p. PICK params : params = AuthRequest(secret, now).params.data.params
    OBVIOUS
  <2>5. /\ params.apiKey = KeyId /\ params.time.seconds = now
        /\ params.hmacDigest = Calculate(KeyId, secret, now)
    BY <2>p, MethodParams DEF AuthRequest
  <2>6. Calculate(KeyId, secret, now) = DigitsOf(NumberOf(own, 256), 2 * Len(own), 16)
    <3>1. Digits(own, 256)
      BY <2>4 DEF Digits
    <3>2. ToHex(own) = DigitsOf(NumberOf(own, 256), 2 * Len(own), 16)
      BY <3>1, ToHexIsDigits, Zenon
    <3>3. Calculate(KeyId, secret, now) = ToHex(own)
      BY <2>3, <2>b, Zenon DEF Calculate
    <3> QED
      BY <3>2, <3>3, Zenon
  <2> QED
    BY <1>1, <1>3, <2>3, <2>5, <2>6, <2>b, <2>p
<1> QED
  BY <1>2, <1>3 DEF DigestInv, DigestAccepted, Hexadecimal

(* DigestAccepted: for any secrets, of any number of digits and any        *)
(* leading zeros, any times and any HMAC of any number of bytes, Digest    *)
(* gives the digest the exchange computes by positional notation.          *)
THEOREM DigestAcceptedCorrect == Spec => []DigestAccepted
<1>1. Init => DigestInv
  BY DEF Init, DigestInv, DigestAccepted
<1>2. DigestInv /\ [Next]_vars => DigestInv'
  <2> SUFFICES ASSUME DigestInv, [Next]_vars
               PROVE  DigestInv'
    OBVIOUS
  <2>1. CASE Authenticate
    BY <2>1, AuthenticateAccepted
  <2>2. CASE UNCHANGED <<secret, session>>
    BY <2>2 DEF DigestInv, DigestAccepted, Hexadecimal
  <2>3. Authenticate \/ UNCHANGED <<secret, session>>
    BY DEF Next, vars, Subscribe, Place, Replace, Cancel, Publish
  <2> QED
    BY <2>1, <2>2, <2>3
<1>3. DigestInv => DigestAccepted
  BY DEF DigestInv
<1> QED
  BY <1>1, <1>2, <1>3, PTL DEF Spec

=============================================================================
