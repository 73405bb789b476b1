------------------------------- MODULE Market -------------------------------
(***************************************************************************)
(* The robot's view of the market: the order book the exchange publishes,  *)
(* the sets m_orderBookBid and m_orderBookAsk the robot keeps of it, its   *)
(* best prices, and the prices it computes from them.  A price travels as  *)
(* a Number at any exponent that can express it, and the robot compares    *)
(* and computes with Numbers; the exchange's own book is in plain units.   *)
(* Module Trading has the orders; here every price is what the code makes  *)
(* of it.                                                                  *)
(***************************************************************************)
EXTENDS Numbers, FiniteSetsExt, SequencesExt

CONSTANTS
  None,             (* no best price yet                                   *)
  BidPrices,        (* prices levels may have, in units of 10^MinExponent  *)
  AskPrices,
  Exponents,        (* exponents the exchange writes prices with           *)
  MinExponent,
  Increments,       (* minimal price increments, Numbers                   *)
  Positions,        (* positions the robot may have                        *)
  Interest, Shift,  (* conf: decimals, in units of 10^MinExponent          *)
  MaxInFlight       (* bound: order book messages on the wire              *)

VARIABLES
  book,             (* the exchange's book: the prices of each side        *)
  subscribed,       (* the robot receives the order book                   *)
  wire,             (* order book messages not yet handled                 *)
  orderBookBid, orderBookAsk,   (* std::set<Number>                        *)
  bestBuyPrice, bestSellPrice

robotVars == <<orderBookBid, orderBookAsk, bestBuyPrice, bestSellPrice>>

vars == <<book, subscribed, wire, robotVars>>

-----------------------------------------------------------------------------
(* Numbers and units.                                                      *)

UnitsPer(x) == Ten[x - MinExponent]

Units(n) == n.significand * UnitsPer(n.exponent)

(* How the exchange may write a price.                                     *)
Writings(p) ==
  {Number(p \div UnitsPer(x), x) :
     x \in {y \in Exponents : p % UnitsPer(y) = 0}}

ASSUME MarketAssumption ==
  /\ BidPrices \cup AskPrices \subseteq Nat \ {0}
  /\ IsFiniteSet(BidPrices) /\ IsFiniteSet(AskPrices)
  /\ MinExponent \in Int
  /\ \A x \in Exponents : x \in Int /\ x >= MinExponent
  /\ \A p \in BidPrices \cup AskPrices : Writings(p) # {}
  /\ Interest \in Nat /\ Shift \in Nat
  /\ MaxInFlight \in Nat \ {0}

(* A decimal read from the configuration or, the position, an integer.     *)
FromUnits(n) == Double(n, Ten[Abs(MinExponent)], 0)

(* Mutant: the interest has the wrong sign.                                *)
calculateOrderPriceMutant(buy, sell, increment, position, d) ==
  LET mid  == Div(AddNumber(buy, sell), FromInt(2))
      edge == IF d = "Buy" THEN Add(mid, FromUnits(Interest))
                           ELSE Sub(mid, FromUnits(Interest))
  IN  ModRing(Sub(edge, Times(FromUnits(Shift), FromInt(position))), increment)

(* bot::calculateOrderPrice.                                               *)
calculateOrderPrice(buy, sell, increment, position, d) ==
  LET mid  == Div(AddNumber(buy, sell), FromInt(2))
      edge == IF d = "Buy" THEN Sub(mid, FromUnits(Interest))
                           ELSE Add(mid, FromUnits(Interest))
  IN  ModRing(Sub(edge, Times(FromUnits(Shift), FromInt(position))), increment)

(* The price for every market the instance can get into.                   *)
WritingsOf(prices) == UNION {Writings(p) : p \in prices}

Price == [buy \in WritingsOf(BidPrices), sell \in WritingsOf(AskPrices),
          increment \in Increments, position \in Positions,
          d \in {"Buy", "Sell"} |->
            calculateOrderPrice(buy, sell, increment, position, d)]

-----------------------------------------------------------------------------
(* std::set<Number>, ordered by operator<.                                 *)

Equivalent(a, b) == ~Less(a, b) /\ ~Less(b, a)

(* Mutant: the exponent is lost.                                           *)
InsertSignificand(set, n) == set \cup {Number(n.significand, MinExponent)}

Insert(set, n) ==
  IF \E m \in set : Equivalent(m, n) THEN set ELSE set \cup {n}

(* Mutant: only the very same significand and exponent is erased.          *)
EraseIdentical(set, n) == set \ {n}

Erase(set, n) == {m \in set : ~Equivalent(m, n)}

Least(set) == CHOOSE n \in set : \A m \in set : ~Less(m, n)

Greatest(set) == CHOOSE n \in set : \A m \in set : ~Less(n, m)

-----------------------------------------------------------------------------
(* The exchange.                                                           *)

Init ==
  /\ book \in [bid : SUBSET BidPrices, ask : SUBSET AskPrices]
  /\ subscribed = FALSE
  /\ wire = <<>>
  /\ orderBookBid = {} /\ orderBookAsk = {}
  /\ bestBuyPrice = None /\ bestSellPrice = None

Item(n, quantity) == [price |-> n, quantity |-> quantity]

(* One of the ways to list the levels of a set of prices.                  *)
Listings(prices) ==
  {SetToSeq({Item(f[p], 1) : p \in prices}) :
     f \in {g \in [prices -> UNION {Writings(p) : p \in prices}] :
              \A p \in prices : g[p] \in Writings(p)}}

Subscribe ==
  /\ ~subscribed
  /\ subscribed' = TRUE
  /\ \E bids \in Listings(book.bid), asks \in Listings(book.ask) :
       wire' = Append(wire, [bids |-> bids, asks |-> asks])
  /\ UNCHANGED <<book, robotVars>>

(* A level comes or goes; subscribers are told.                            *)
Change(side, p) ==
  /\ Len(wire) < MaxInFlight
  /\ LET gone == p \in book[side]
     IN  /\ book' = [book EXCEPT ![side] = IF gone THEN @ \ {p} ELSE @ \cup {p}]
         /\ \E n \in Writings(p) :
              LET items == <<Item(n, IF gone THEN 0 ELSE 1)>>
              IN  wire' = IF ~subscribed THEN wire
                          ELSE Append(wire,
                            [bids |-> IF side = "bid" THEN items ELSE <<>>,
                             asks |-> IF side = "ask" THEN items ELSE <<>>])
  /\ UNCHANGED <<subscribed, robotVars>>

-----------------------------------------------------------------------------
(* The robot.                                                              *)

Apply(set, items) ==
  LET after[i \in 0..Len(items)] ==
        IF i = 0 THEN set
        ELSE IF items[i].quantity > 0 THEN Insert(after[i - 1], items[i].price)
                                      ELSE Erase(after[i - 1], items[i].price)
  IN  after[Len(items)]

(* case ResponseType::ChannelOrderBook.                                    *)
ReadOrderBook ==
  /\ wire # <<>>
  /\ LET bid == Apply(orderBookBid, Head(wire).bids)
         ask == Apply(orderBookAsk, Head(wire).asks)
     IN  /\ orderBookBid' = bid
         /\ orderBookAsk' = ask
         /\ bestBuyPrice' = IF bid = {} THEN bestBuyPrice ELSE Greatest(bid)
         /\ bestSellPrice' = IF ask = {} THEN bestSellPrice ELSE Least(ask)
  /\ wire' = Tail(wire)
  /\ UNCHANGED <<book, subscribed>>

Next ==
  \/ Subscribe
  \/ \E p \in BidPrices : Change("bid", p)
  \/ \E p \in AskPrices : Change("ask", p)
  \/ ReadOrderBook

Spec == Init /\ [][Next]_vars

-----------------------------------------------------------------------------
TypeOK ==
  /\ book \in [bid : SUBSET BidPrices, ask : SUBSET AskPrices]
  /\ subscribed \in BOOLEAN
  /\ Len(wire) <= MaxInFlight
  /\ orderBookBid \subseteq WritingsOf(BidPrices)
  /\ orderBookAsk \subseteq WritingsOf(AskPrices)
  /\ bestBuyPrice \in WritingsOf(BidPrices) \cup {None}
  /\ bestSellPrice \in WritingsOf(AskPrices) \cup {None}

(* BookInSync: with nothing on the wire the robot's two sets are the       *)
(* exchange's book, price for price, whatever exponents a level was        *)
(* entered and removed with, and the snapshot, which is applied like an    *)
(* update, adds nothing to it; no price is there twice.                    *)
SameLevels(set, prices) ==
  /\ {Units(n) : n \in set} = prices
  /\ Cardinality(set) = Cardinality(prices)

BookInSync ==
  subscribed /\ wire = <<>> =>
    SameLevels(orderBookBid, book.bid) /\ SameLevels(orderBookAsk, book.ask)

(* BestInSync: with nothing on the wire the best prices are the extremes   *)
(* of the exchange's book, of a side that has any; they are found at the   *)
(* ends of the sets, which operator< has to order by value.                *)
BestInSync ==
  subscribed /\ wire = <<>> =>
    /\ book.bid # {} => Units(bestBuyPrice) = Max(book.bid)
    /\ book.ask # {} => Units(bestSellPrice) = Min(book.ask)

Known == None \notin {bestBuyPrice, bestSellPrice}

Quote(increment, position, d) ==
  Price[bestBuyPrice, bestSellPrice, increment, position, d]

(* QuotesDontCross: in no market and at no position is the robot's price   *)
(* to buy above its price to sell, though each is rounded six times.       *)
QuotesDontCross ==
  Known => \A increment \in Increments, position \in Positions :
    Units(Quote(increment, position, "Buy"))
      <= Units(Quote(increment, position, "Sell"))

(* The formula of README.md, doubled so that it is an integer.             *)
TwiceFormula(position, d) ==
  Units(bestBuyPrice) + Units(bestSellPrice)
    + 2 * (IF d = "Buy" THEN -Interest ELSE Interest) - 2 * Shift * position

(* NearFormula: a price is off the formula by less than half an increment  *)
(* and three and a half units of the bid's significand: half a unit that   *)
(* the middle loses, and one each for interest, position and ModRing.      *)
NearFormula ==
  Known => \A increment \in Increments, position \in Positions,
              d \in {"Buy", "Sell"} :
    Abs(2 * Units(Quote(increment, position, d)) - TwiceFormula(position, d))
      < Units(increment) + 7 * UnitsPer(bestBuyPrice.exponent)

(* FollowsFormula: where the formula gives a price the instrument can      *)
(* have, and the bid's exponent can express it, that is the price.         *)
FollowsFormula ==
  Known => \A increment \in Increments, position \in Positions,
              d \in {"Buy", "Sell"} :
    LET twice == TwiceFormula(position, d)
    IN  /\ twice % (2 * Units(increment)) = 0
        /\ twice % (2 * UnitsPer(bestBuyPrice.exponent)) = 0
        => 2 * Units(Quote(increment, position, d)) = twice

=============================================================================
