# A model of zubrobot-ws

zubrobot-ws is a market-making robot: over one websocket session with the ZUBR
exchange it keeps a bid and an ask for one instrument, at prices computed from
the best prices and its position (`src/README.md:5-8`), and moves them as the
market moves. This directory holds TLA+ modules that model it, TLC
configurations that check them on small instances, and TLAPS proofs.

## 1. Inventory

| component | source | state | operations |
|---|---|---|---|
| robot | `src/src/bot.{hpp,cpp}` | best prices, increment, position, a flag per side, requests waiting for their answer, orders by id per side, order book | `connectHandler`, `messageHandler` (five kinds of message, and the tail every message runs), `orderUpdateHandler`, `placeOrder`, `replaceOrderIfPriceChanged`, `calculateOrderPrice` |
| market data and price arithmetic | `bot.cpp:38-58`, `bot.cpp:218-257`, `lib/zubr-core/.../Types.hpp:47-167` | two `std::set<Number>`, the best prices | `Add`, `Sub`, `Div`, `ModRing`, `<` on a decimal significand and exponent |
| connector | `lib/zubr-connector-ws/.../ConnectorWs.{hpp,cpp}` | running flag, send mutex, session pointer, request counter, request map; two threads | `Start`, `Wait`, `Send`, `OnWsOpen`, `OnWsMessage`, `OnWsFail`, destructor, ping loop |
| requests, responses | `Request.*`, `Response.*`, `Types.hpp` of the connector | none | to and from JSON; the class of a response by channel or by request id |
| JSON serializer | `JsonSerializer.*`, `Serializer.hpp` | none of its own | adapters over RapidJSON |
| digest | `Digest.*` | none | HMAC of key, time and secret |
| configuration | `conf.*`, `conf/zubrobot.conf` | values read once | `LoadFile` |
| instruments, positions | `Types.hpp:452-519` | none | copied from JSON, one member of each is used |
| logging, exceptions | `Logger.hpp`, `Exception.hpp` | none the program reads | |
| entry point | `zubrobot-ws.cpp` | none | load, start, wait |
| exchange | external | the account's orders and position, the session's subscriptions | answers requests, publishes updates |

How they interact. `main` builds the robot, which owns the connector, starts it
and waits. The client thread runs the event loop: every callback, hence every
robot handler, runs there, one at a time. A handler sends through
`ConnectorWs::Send`, which takes `m_sendSync`; the ping thread takes the same
mutex every 14 seconds; the client thread takes it once more to renew
`m_connection`. `m_reqMap` lets `OnWsMessage` tell what an answer answers;
`m_orderReqMap` lets the robot tell which order an accepted placement became.

What is hard: an order's life is spread over five handlers and two maps while
executions, cancellations and refusals cross on the wire; a replacement is a
cancellation now and a placement when it is confirmed, with the price changed in
between; the position is added up from differences; three threads share a flag
whose test also sets it; a session that fails is not renewed.

What makes each correct: *robot* - one order per side, no order forgotten or
imagined, the right position, the right prices, the limit, no endless traffic;
*connector* - no torn pointer, no handler that never returns, a stop that is
heeded, no process that lives on deaf; *request ids* - every answer found, none
mistaken, no two alike; *market data* - the sets and best prices are the
exchange's, bid and ask never cross, prices as near the formula as the arithmetic
allows; *wire* - an order means the same on both sides, the session opens.
`PROJECT.json` lists the hazards one by one, with lines.

## 2. Modules

| module | models | as |
|---|---|---|
| `Protocol` | requests and responses, two FIFO queues | records of the data the handlers read |
| `Bot` | `class bot` | one record `bot` with its members; each method an operator from the record before to the record after; each case of `messageHandler` an action ending in `Finish`, the tail at `bot.cpp:280-301` |
| `Exchange` | the exchange (external) | accepts, refuses, executes whole or in parts, withdraws, refuses late cancellations |
| `Trading` | robot and exchange together | `Connect`, `Deliver`, `Market` are the robot's steps, `Serve`, `Refuse`, `Trade`, `Withdrawn` the exchange's |
| `Quoting` | the promise: each side a slot that is empty, asked for, quoted or being replaced, the position, whether the market is known | no maps, ids, prices or messages; `Trading` implements it |
| `CalmMarket` | `Trading` with a market that may fall silent for good | liveness |
| `MCTrading`, `MCCalmMarket`, `MCMarket`, `MCWire` | instances for TLC | market data, start positions, symmetry; exponents and increments; secrets, prices, a toy HMAC |
| `Numbers` | `class Number` | doubles of `Precision` bits with rounding to nearest, ties to even; conversion to `int64_t` cuts; powers and digits are recursive functions, so that they can be reasoned about |
| `Market` | the order book messages, the robot's two sets, its best prices and the prices it computes | the exchange's book in plain units, levels written at any exponent that can express them; `ReadOrderBook` is the case of `messageHandler`, `Insert` and `Erase` are `std::set`'s under `operator<` |
| `Digest` | `Digest.cpp` | strings as sequences of digits, HMAC as a constant operator |
| `Wire` | `Serialize` and `Deserialize` of requests and orders, the enumerations' names, the authentication | the robot's side translates enum to name to JSON, the exchange's reads the vocabulary of `Request.hpp:146-152`; `meant` and `orders` are the two ends |
| `Connector` | main and the two threads, from loading the configuration to the end of the process | one action per step between two points where another thread can interfere; handlers send `0..MaxSends` requests, one locked step each |
| `RequestIds` | `Send`, the resolver of `OnWsMessage` | widths of counter and id as constants |
| `Responses` | `ResponseWs::Deserialize` and the serializer's lookups, on top of `RequestIds` | a JSON object is a function from member names; what a message meant is kept beside what it was taken for |
| `TradingProofs`, `TradingRefinement`, `TradingOrders` | theorems about `Trading`, each module on top of the one before | TLAPS, see section 6 |
| `QuotingProofs`, `ConnectorProofs`, `ResponsesProofs`, `WireProofs`, `MarketProofs` | theorems about `Quoting`, `Connector`, `Responses`, `Wire` and `Market` | TLAPS |

The operators carry the source's names. The two members of each side
(`m_isBuyOrderPlaced`, `m_buyOrdersMap`, ...) are functions of the side. Definitions
called a mutant are not part of the model: each is a plausible
error, kept beside the definition it would replace, that shows a property can fail.

Abstractions, and why they lose nothing the properties speak of:

* One message is one step. All robot code runs on the client thread, and a
  handler never waits for anything but the send mutex (`Connector`,
  `HandlersFinish`).
* Order book and instrument messages are drawn when they are handled rather than
  queued: nothing the exchange does depends on when it sent them. The order book
  ones are applied item by item as in the code.
* In `Bot` a price is the integer significand of a `Number` at the one exponent the
  instrument uses, and `Half` and `ModRing` work on integers: what the orders'
  life depends on is whether two prices differ. What doubles and different
  exponents make of prices is the subject of `Numbers` and `Market`.
* `Market` has no orders, and takes interest, shift and position as given: nothing
  in the book depends on them.
* `Wire` has one order at a time and one update on the wire: the translation of an
  object depends on no other object.
* Answers to subscriptions and cancellations have no handler; receiving one is
  `OtherMessage`.
* An orders message carries one entry, as `Response.cpp:158-163` fills in one.
* The account has no orders but the robot's, and positions messages after the
  first are ignored by the code (`bot.cpp:262`), so the exchange sends one.
* An order id may be reused when nobody can still mention it (`Fresh`), which
  keeps the set finite and is harder on the robot than ids that are never reused.
* `NextReqId` picks an id no waiting request has; that the connector's
  counter does so is `IdsDistinct` of `RequestIds`, which is proved.
* A robot whose session is over does nothing more (`Connector`,
  `LostSessionEndsProcess`), so `Trading` has one session.
* websocketpp: `ping` throws unless the session is open; messages that arrive
  while it closes are dropped; the closing handshake ends; an event loop that ran
  out of work stays stopped until somebody resets it, and nobody does.

## 3. Runs

| run | bounds | shows |
|---|---|---|
| `trading` | 3 order ids, 2 request ids, orders of 2, limit 1, account within 2, two asks and one bid that come and go | type invariant; `SlotInv`, `MarketKnown`, `OneOrderPerSide`, `ResponsesKnown`, `Steady`, `PositionAccounting`, `NoGhostOrder`, `Quoted`, with orders executed in parts; `Implemented`: every step is one `Quoting` allows |
| `whole_fills` | as above, account within 4, two increments, whole executions, answers may come after updates | `OneOrderPerSide`, `ResponsesKnown`, `PositionLimit`, `OnlyBelowLimit`, `Implemented` |
| `position_limit` | as `trading`, account within 3 | `PositionLimit` **fails** |
| `config_start` | start position 1 configured, account at 0 | `PositionAccounting` |
| `calm` | 2 order ids, whole executions, increment 2 | `SettlesWhenCalm`, `ReplacementCompletes` |
| `connector` | handlers send up to 4 requests | type invariant, thread safety, `StopIsHeeded`, `HandlersFinish`, `LostSessionEndsProcess` |
| `connector_wait` | same | `WaitWaits` **fails** |
| `responses` | counter of 4 values, 3 unanswered; six publications with any id or none, accepted and refused, with and without a `data` object | type invariant, `AnswersResolved`, `AnsweredForgotten`, `IdsDistinct`, `Understood` |
| `request_ids_width` | counter of 7, int of 3 | `IdsAgree` **fails** |
| `market` | two prices a side, three exponents, three increments, positions -4 to 4, two messages on the wire, doubles of 12 bits | type invariant, `BookInSync`, `BestInSync`, `QuotesDontCross`, `NearFormula` |
| `price_formula` | bid 10, ask 11, interest one half, position 0 | `FollowsFormula` **fails** |
| `wire` | one order, all 72 combinations of its terms; eight secrets, two times | `RequestsUnderstood`, `EchoUnderstood`, `DigestAccepted` |

Why the bounds are enough. A side has one order (`SlotInv`), so two live orders,
and one old id still mentioned on the wire, need three ids; a request waits for
its answer at most once per side, so two request ids. Orders of two can be
executed in part; limit 1 makes both sides allowed at 0, and each forbidden in
turn within the account's bound. Three book messages move the middle up and
down by whole increments, repeat, and empty both sides. `MaxUnsent` lets
market data arrive while two requests are under way; four requests (the
subscriptions) go out at once regardless. Four sends is what `connectHandler`
does. The order ids are symmetric: the one `CHOOSE` over them in `Bot`
(`SetToSeq` of the cancellations of one side), like the one in `SlotOf`, has at
most one element to choose from, by `SlotInv`. The liveness run uses no symmetry.

`Market`: two prices a side let a level vanish from under the best price and a
side empty; 110 and 200 can be written with two or three exponents, 109 with one,
so a level is entered and removed in different writings and sums have operands of
different exponents and odd halves. `Precision` is 12 instead of 53 so that TLC's
integers hold the intermediate products and so that rounding happens at prices
this small; the bound of `NearFormula` does not mention it, as long as a
significand fits. `Interest` 7 and `Shift` 2 hundredths are not multiples of most
increments.

`Wire`: the secrets have even and odd length, a zero in front, a bad character in
either place of a byte, and the characters `std::stoul` skips (a blank, a sign) before a
digit and before none; the toy HMAC depends on every byte, its place, and the
number of bytes.

Deadlock is not checked where the system really may stop: a refused
authentication ends the session, an aborted process takes no step. The runs of
`Responses` and `Market` do check it.

`responses` gives the counter and the id one width, so that the counter
coming round can be looked at by itself; `request_ids_width` is about the widths the
program has (63 and 31 bits, scaled down).

### The refinement

`Trading!Promise` is `Quoting` with `ready` for the readiness tests at
`bot.cpp:280-281`, `position` for the robot's position and, for each side, a slot
read off the flag and the side's map (`SlotOf`). `Implemented == Promise!Spec` says
that a message moves one slot at most apart from what the tail does to both, that
the position moves by exactly what an order loses, that an empty slot is filled
whenever the limit allows and only then, and that a slot never goes from quoted to
asked for but through a cancellation that was confirmed. Steps of the exchange
stutter. `OnlyBelowLimit` is `Quoting`'s invariant: with whole executions even the
successor placed without a look at the limit is below it.

## 4. What the failing runs show

* `position_limit`: the limit `"positionSizeMax"` (`src/conf/zubrobot.conf:9`)
  is compared with the position before every placement at `bot.cpp:283-291` but
  not before the placement of a successor at `bot.cpp:146`, which also ignores
  the remaining quantity it is given (`bot.cpp:70`). Executed in part, cancelled,
  replaced at full size, again: each round takes the position further.
* `connector_wait`: `Wait` ("wait for client termination", `ConnectorWs.hpp:153`)
  joins one of the two threads; the destructor then terminates the process.
* `request_ids_width`: `Send` ("@return request ID", `ConnectorWs.hpp:124`)
  returns a 64-bit number, the request carries an `int`. After `INT_MAX` requests
  the robot waits under an id that is never answered.
* `price_formula`: `README.md:7` divides the sum of the best prices by two;
  `Number::Div` cuts the half unit off before the interest is subtracted
  (`bot.cpp:41`). Between 10 and 11, with an interest of one half, the robot offers
  9, not 10. `NearFormula` says how far off a price can be.

## 5. Fairness

`CalmMarket`: the exchange works through its requests, and the client thread
reads the socket (`WF_toBot(Receive)`: some step takes the head of the queue;
`ResponsesKnown` is what makes every head acceptable to some handler). Nothing
is assumed of executions, refusals, withdrawals, market data or the moment of
silence. While the
market moves a placement may be served by refusing it; once silent, it is accepted.

`Connector`: every thread takes its steps while it can, since threads are scheduled.
A client thread that waits for the mutex gets it if it is free again and again
(strong fairness): the only other owner sleeps 14 seconds after each use.
Nothing is assumed of the network, nor of the ping thread's sleep: the one property
that needs its end, `LostSessionEndsProcess`, has it as a hypothesis
(`PingWakesUp`: the sleep ends, and the thread gets a mutex that is free again and
again). An exception out of a handler may happen and need not. A closing handshake ends, by websocketpp's own
timeout.

## 6. Proofs

Those about the robot hold for every quantity, limit, interest, shift, increment, order book message
and id set that the assumptions of `Protocol`, `Bot`, `Exchange` and `Trading`
admit: at least two request ids, finitely many order ids, positive quantity,
increments and limit, and `None` neither a number nor a record. The bounds of the
runs (`PositionBound`, `MaxUnsent`) are constants like any other.

| module | theorem | of `Trading` |
|---|---|---|
| `TradingProofs` | `TypeCorrect`, `SlotCorrect`, `MarketKnownCorrect` | `TypeOK`, `SlotInv`, `MarketKnown` |
| `TradingProofs` | `ResponsesKnownCorrect`, `OneOrderPerSideCorrect` | `ResponsesKnown`, `OneOrderPerSide` |
| `TradingRefinement` | `ImplementedCorrect`, `OnlyBelowLimitCorrect`, `SteadyCorrect` | `Implemented`, `OnlyBelowLimit`, `Steady` |
| `TradingRefinement` | `PositionLimitCorrect` | `PositionLimit`, if not `PartialFills`, for an account that starts within it |
| `TradingOrders` | `NoGhostOrderCorrect`, `QuotedCorrect` | `NoGhostOrder`, `Quoted`, if `ResponseFirst` |
| `TradingOrders` | `PositionAccountingCorrect` | `PositionAccounting`, if `ResponseFirst` |
| `QuotingProofs` | `OutstandingBelowCorrect` | `Quoting`'s `OutstandingBelow` |
| `ConnectorProofs` | `ConnectorTypeCorrect`, `ConnectionSafe`, `FlagClearAtRest` | `Connector`'s `TypeOK`, `ConnectionNotTorn`, `FlagAtRest` |
| `ResponsesProofs` | `ResponsesTypeCorrect`, `IdsDistinctCorrect` | `RequestIds`' `TypeOK`, `IdsDistinct` |
| `ResponsesProofs` | `IdsAgreeCorrect`, `AnswersResolvedCorrect`, `AnsweredForgottenCorrect`, `UnderstoodCorrect` | `IdsAgree`, `AnswersResolved`, `AnsweredForgotten`, `Understood`, while `IdsFit` |
| `WireProofs` | `RequestsUnderstoodCorrect`, `EchoUnderstoodCorrect`, `DigestAcceptedCorrect` | `Wire`'s `RequestsUnderstood`, `EchoUnderstood`, `DigestAccepted` |
| `MarketProofs` | `MarketTypeCorrect`, `BookInSyncCorrect`, `BestInSyncCorrect` | `Market`'s `TypeOK`, `BookInSync`, `BestInSync`, if `PricesFit` |

Each part of `Trading`'s chain adds a layer to one inductive invariant. The proofs
follow the code: what `placeOrder`, `placeOrderIfNone`,
`replaceOrderIfPriceChanged` and `Requote` keep is one lemma each, every handler is
shown to leave a state `Requote` may be applied to, and one lemma joins the two.

**The robot alone.** `IInv == TypeOK /\ SlotInv /\ MarketKnown`. None of the three
is inductive alone. A placement is typed only if the request id is free and
the price computable: the first needs `SlotInv` (two ids, one at most waiting per
side), the second `MarketKnown`. `SlotInv` after a cancellation needs that the
order removed was the only one of its side. `MarketKnown` after a placement in the
tail follows from the tail's guard, after one in `AfterCancel` from the order
that was there.

**The links.** `LinkInv` says where a placement can be: as a request, owed an
answer, or as an answer, in one of the three and under an id the robot remembers
with the same terms (`IdInv`); that an executable order is in the map of its
side or will be put there by such an answer (`LiveInv`); and that the update that
ends an order is under way only once the order is gone (`EndedInv`), which is
what lets the robot drop it from its map. `ResponsesKnown` is part of `IdInv`;
`OneOrderPerSide` follows with `SlotInv`: what lives and what is on the wire each
claim the one slot of their side.

**The refinement.** The exchange's steps do not touch a slot. Of the robot's,
`Executed` needs more than the robot knows: that an update takes something off the
remembered quantity. `QuantityInv` says that requests are for whole orders
(`RequestInv`), that each execution under way says less than the one before and than
the robot remembers, but no less than the exchange has (`FillInv`), and that
the exchange never has more of an order than the robot remembers (`LeftInv`).
Then initial states map to initial states and each handler, with its tail, to one
action of `Quoting`; the tail's effect on a slot is `Settled`, whatever came
before. `OnlyBelowLimit` is `QuotingProofs`' theorem, instantiated under the
mapping. In `QuotingProofs` the inductive invariant `QInv` adds the types and that a
side has an order only while the position is known: an execution of the whole order
empties its own side and moves the position away from the other side's limit, and
what the tail then asks for it compares with the limit itself.
`Steady` is that the tail is idempotent: where it has placed an order the flag is
set, and an order it has marked for replacement already has the new price.

**The limit.** The robot compares its own position with the limit, and the account's may
be ahead of it. `LimitInv` explains by how much: on each side by nothing or by
one whole order that was executed (`Explains`), whose execution the robot is still
to read, or has read before the answer that names the order, and ignored
(`bot.cpp:119-121`). Either way the side's slot still holds that order (`Claimed`), so
that there is one at most, and by `OnlyBelowLimit` the robot's position is below the
side's limit. So the account passes it by less than one order, even where the
robot's position is wrong for good. This needs that executions are whole
(`WholeInv`; for others the run `position_limit` refutes it), and that an order's
end is told once, to a robot whose slot still holds it (`EndInv`). An account that starts
beyond the limit is not brought back, so the theorem assumes it does not; and the
configured start must not stand in for the account's (`bot.cpp:262`).
`LimitIInv`, the conjunction with `RefinementInv`, is inductive relative to
`OnlyBelowLimit`.

**The books.** `OrderInv` is about what is under way, for any queue to the
robot, orders at the exchange, orders and requests of the robot. `Orders`: updates
about an order come after its name and up to its end (`Ordered`, `Over`), find it
in the robot's map once the messages before them are read (`Told`), an order
known or named can be executed or has its end on the way (`Lives`), and what is left
of it is what the robot remembers or what an execution on the way says
(`Counted`, `Least`). `Priced`, `AnswerPriced`: it stands at the remembered price
or its cancellation is on the way. `Waiting`: a request waiting is under way.
`BeforeOrders` is the stage in which updates would be lost because the orders channel
is not subscribed to: the order in which `connectHandler` subscribes, and the
exchange serves, keeps orders from existing in it. The exchange changes these by
adding a message at the end, the robot by reading the one at the head: one lemma each
(`OrdersAccept`, `OrdersUpdate`, `OrdersNeutral`; `OrdersRead`). When nothing is under
way, `NoGhostOrder` is what is left; with `Steady`, so is `Quoted`.

**The position.** `AccountInv` says how far the robot's position is behind the
account's: by what the updates under way will take from the one order each side can
have (`Due`). An execution moves the account and what is due alike, an update read
moves the robot's position by what it takes off what is due, and when nothing is
under way nothing is due. Before the snapshot there are no orders and the
snapshot under way is right.

`TradingOrders` assumes `ResponseFirst`: that the exchange answers a
placement before it sends an update about the order placed. It is an assumption on
the exchange, and the code needs it: `orderUpdateHandler` looks the order up in
the map that only the answer fills, and ignores what it does not find
(`bot.cpp:119-121`). The theorems of the first two modules do not assume it. `OrderInv` and
`AccountInv` were model-checked on the instances of `trading` and `config_start`, `LimitInv` on
that of `whole_fills`, before they were proved.

**The connector.** `ConnectorProofs` proves `[]ConnectionNotTorn` from `LockInv`, which ties the owner of
the mutex to the program counters, and `[]FlagAtRest`, which is inductive as it
stands: the last step of either thread clears the flag, and a thread that is done
no longer tests it. Its type invariant is proved in parts, because the provers do
not mix the flags, which are values and formulas, with the arithmetic of the
requests a handler has to send.

**The ids.** `WindowInv` says that the requests not answered are the last the
counter was used for. With fewer of them than the counter has values, what `Send`
returned for them is distinct, and so is the next. `IdsDistinct` is about the ints
they carry: two that are equal come from values that differ by a multiple of
`IntMax + 1`, and in a window that short, also across the counter's turn, there
are none, if `IntMax + 1` divides `LongMax + 1` and `MaxUnanswered <= IntMax`. In the
build these are 2^31 and 2^63 (`Types.hpp:43`, `Request.hpp:77-89`), and the robot has a
handful of requests unanswered; so the theorem is about the program however long it
runs. The other theorems cannot be: past `INT_MAX` requests the id a request carries
is not the one `Send` returned, which is the finding of `request_ids_width`. They assume
`[]IdsFit`, that the counter stays below `INT_MAX`: in the build that is a
session's first 2^31 - 1 requests, and the lemma `FitsForGood` shows it is no
assumption at all where the two widths are the same, as in the run `responses`.
While it holds, `FitInv` says that the map is right about each unanswered
request and holds no other method's entry for long; an answer is then resolved
by its own entry, and forgetting it takes no other request's. `Understood` is
the case analysis over every shape of a message, for which `NullAssumption` says
that the JSON null is no object.

**The wire.** `RequestsUnderstood` is inductive with the types of the exchange's orders
(`KeptOrders`); what has to be shown is the way of one object. The names a table
gives to enumerators are in the exchange's vocabulary and mean the same there
(`DirectionUnderstood`, ...), `From...Name` finds them again since no two enumerators
share a name, and each member that `Serialize` adds is the one that is read. The
theorems hold for any ids, any set of Numbers as prices and any quantities.

**The digest.** `DigestAccepted` compares the pairs of characters of `Digest.cpp:42-71` with
positional notation, where a number is computed from its digits and the digits by
repeated division. `FromHexIsBytes`: what is left of the secret's number after `k`
divisions by 256 is the number of the characters before the last `k` pairs, of the
string with its leading zero if it has one. `ToHexIsDigits`: the number of the first `i` bytes is what `2 * (n - i)`
divisions by 16 leave. Both are inductions over the length, so the secret
and the HMAC may have any. `SecretsAssumption` says that a secret is a string and an
HMAC is bytes; of a secret with another character nothing is claimed.

**The order book.** `PricesFit` says that every price, in units of the smallest exponent,
is below `2^Precision`: 53 bits in the build, 12 in the run, whose prices are at most 200. Then
`operator<` (`Types.hpp:148-166`), which multiplies the significand of the larger exponent by a
power of ten in doubles and cuts the product off, orders Numbers by value: operands and
product fit, so nothing is rounded (`DoubleExact`, `ProductExact`, `LessByValue`). Beyond
`PricesFit` two prices may round to one double, and a level may be lost; so the
hypothesis is what the code needs. With it `std::set`'s equivalence is equality of
value, and applying a message to a set changes exactly the levels its items speak of
(`Applied`). `BookInSync` is not inductive, as messages are under way; `InSync` says, price by
price, that the last message under way that speaks of it is right about it, and where none
does the robot's set is. A message added or read keeps that (`SyncChanged`,
`SyncRead`), and a snapshot listed in any order and any writing begins it (`SyncSubscribed`).
`BestAtEnds` ties the best prices to the sets, except that the best price of a side that emptied
stays (`bot.cpp:246-252`). Induction over the powers, the digits
of an integer and the items of a message is done by least counterexample (`LeastNatural`);
that the recursive functions exist at all is `Recursion`.

Only model-checked:

* `SettlesWhenCalm`, `ReplacementCompletes`, `StopIsHeeded`, `HandlersFinish`,
  `LostSessionEndsProcess`: liveness under fairness is out of the prover's reach.
* `QuotesDontCross` and `NearFormula`: six roundings in a row of products and quotients
  of variables, which Z3 does not decide.

## 7. Not modelled, and the plan

Not modelled:

* A second process. Nothing is persisted, orders are good till cancelled
  (`bot.cpp:72`) and the robot ignores updates of orders it does not know: what a
  restart finds at the exchange is outside every property here. Nor is there a
  second session: the connector never gets one (`LostSessionEndsProcess`).
* Messages the exchange is assumed not to send: an empty frame, text that is not
  JSON, a member of another JSON type (RapidJSON asserts), a message without a
  `result`, an accepted placement without a value, a positions message that leaves
  the instrument out although the account has some. Where they end the process, that is
  `HandlerThrows` in `Connector`; an accepted placement without a value would enter the
  order under an id nobody initialised.

Modelled, and excluded by no property, since the repository does not say what should
happen:

* An update that overtakes the answer naming its order leaves the side occupied for
  good (`bot.cpp:119`, `bot.cpp:199`). What holds all the same is in `whole_fills`.
* The best price of a side that empties stays, and the robot quotes from it
  (`bot.cpp:245-251`); `BestInSync` is about sides that have levels.
* A refused order is placed again at once, as long as the exchange refuses
  (`bot.cpp:188`).
* A secret that is not hexadecimal: `std::stoul` throws or reads another byte.

By construction a second snapshot of the book in one session does not occur.
* Overflow: the significand of a `Number` is taken to fit, as prices of the
  exchange do.
* The members of `Position` and `Instrument` that are copied and never read; TLS,
  HMAC itself, reading the configuration file, logging.
* `Number::Integer` and `Number::Fraction`, which nobody calls.

Left for later: a bound of `NearFormula` in terms of `Precision`, for prices that do
not fit it.
