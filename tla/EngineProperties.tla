-------------------------- MODULE EngineProperties --------------------------
(***************************************************************************)
(* What the trading engine must guarantee, as formulas over the state of   *)
(* TradingEngine.  The event log serves as the history of the calls.       *)
(***************************************************************************)
EXTENDS TradingEngine

-----------------------------------------------------------------------------
(***************************************************************************)
(* Vocabulary.                                                             *)
(***************************************************************************)
Booked(s) == DOMAIN books[s].lookup

Executable(order) ==
  order.state \in {"New", "PartiallyFilled"} /\ order.remaining > 0

Logged(i, type, id) ==
  eventLog[i].payload.type = type /\ eventLog[i].payload.order_id = id

\* The place in the log of the Add event that created order id.
Arrival(id) == Min({i \in DOMAIN eventLog : Logged(i, "Add", id)})

Home(id) == eventLog[Arrival(id)].symbol

\* The log holds an event that changes order id behind its book's back: an
\* Execute event, or a Cancel event that names another symbol.
TouchedOutOfBand(id, symbol) ==
  \E i \in DOMAIN eventLog :
     \/ Logged(i, "Execute", id)
     \/ Logged(i, "Cancel", id) /\ eventLog[i].symbol # symbol

\* The id of the order whose Add event is being matched, if there is one.
BeingMatched == IF pc = "matching" THEN {incomingId} ELSE {}

LevelsOf(b, side) == IF side = "Buy" THEN b.bids ELSE b.asks

-----------------------------------------------------------------------------
(***************************************************************************)
(* Types.                                                                  *)
(***************************************************************************)
OrderId == Nat \ {0}
Location == [side : Side, price : Int]
TradeRecord == [incoming : OrderId, resting : OrderId, price : Int,
                quantity : Int]
ExecutionRecord ==
  [event_id : Nat, timestamp : Int, symbol : Symbols, incoming : OrderId,
   resting : OrderId, price : Int, quantity : Int]

IsMap(m, keys, values) ==
  /\ DOMAIN m \subseteq keys
  /\ m \in [DOMAIN m -> values]

IsBook(b) ==
  /\ b = [bids |-> b.bids, asks |-> b.asks, lookup |-> b.lookup]
  /\ IsMap(b.bids, Int, Seq(OrderId))
  /\ IsMap(b.asks, Int, Seq(OrderId))
  /\ IsMap(b.lookup, OrderId, Location)

\* Every variable holds a value of its C++ type, and while match runs the
\* event under way is an Add of a known order in an existing market.
TypeOK ==
  /\ nextExpected \in Nat
  /\ eventLog \in Seq(MarketEvent)
  /\ IsMap(orders, OrderId, Order)
  /\ DOMAIN books \subseteq Symbols
  /\ books = [s \in DOMAIN books |-> books[s]]
  /\ \A s \in DOMAIN books : IsBook(books[s])
  /\ executions \in Seq(ExecutionRecord)
  /\ pc \in {"idle", "matching"}
  /\ trades \in Seq(TradeRecord)
  /\ returned \in BOOLEAN

-----------------------------------------------------------------------------
(***************************************************************************)
(* The log and the sequence numbers.                                       *)
(***************************************************************************)

\* The log is exactly the accepted prefix of the feed: valid events numbered
\* 1, 2, 3 ... with no gap, whatever each event then did (trading_engine.cpp
\* consumes the number and logs the event before it is known to succeed).
LogIsDense ==
  /\ nextExpected = Len(eventLog) + 1
  /\ \A i \in DOMAIN eventLog :
        eventLog[i].sequence_number = i /\ IsValid(eventLog[i])

-----------------------------------------------------------------------------
(***************************************************************************)
(* Orders.                                                                 *)
(***************************************************************************)
Consistent(order) ==
  /\ order.quantity > 0 /\ order.price > 0
  /\ order.filled >= 0 /\ order.remaining >= 0
  /\ order.filled + order.remaining = order.quantity
  /\ order.state \in {"New", "PartiallyFilled", "Filled", "CancelPending"}
  /\ order.state = "New" => order.filled = 0
  /\ order.state = "PartiallyFilled" => order.filled > 0
  /\ order.state = "Filled" <=> order.remaining = 0

\* Whatever mix of matches, Execute events and cancels an order has seen, its
\* quantities add up and its state says the same as its quantities.
OrdersConsistent == \A id \in DOMAIN orders : Consistent(orders[id])

\* An order that is cancelled or filled never changes again: in particular no
\* match and no Execute event fills an order after its cancel was taken
\* (apply_fill's state test is all that stops it, for the order may still be
\* in a book).
ClosedOrdersAreFinal ==
  [][\A id \in DOMAIN orders :
        orders[id].state \in {"CancelPending", "Filled"}
          => orders'[id] = orders[id]]_vars

-----------------------------------------------------------------------------
(***************************************************************************)
(* Books.                                                                  *)
(***************************************************************************)

\* The queues of one side of a book hold exactly the ids that the lookup table
\* has there, each once and at its price, and no level is empty.
SideAgrees(levels, side, lookup) ==
  /\ \A p \in DOMAIN levels :
       /\ levels[p] # <<>>
       /\ \A i \in DOMAIN levels[p] :
            /\ levels[p][i] \in DOMAIN lookup
            /\ lookup[levels[p][i]] = [side |-> side, price |-> p]
            /\ \A j \in DOMAIN levels[p] : levels[p][i] = levels[p][j] => i = j
  /\ \A id \in DOMAIN lookup : lookup[id].side = side =>
       /\ lookup[id].price \in DOMAIN levels
       /\ \E i \in DOMAIN levels[lookup[id].price] :
            levels[lookup[id].price][i] = id

\* Both sides, and every id stands at its own order's side and price.  (The
\* list iterators that the code saves are valid only while this holds.)
BookAgrees(b, ords) ==
  /\ SideAgrees(b.bids, "Buy", b.lookup)
  /\ SideAgrees(b.asks, "Sell", b.lookup)
  /\ \A id \in DOMAIN b.lookup :
       /\ id \in DOMAIN ords
       /\ b.lookup[id] = [side |-> ords[id].side, price |-> ords[id].price]

\* Every book is well formed, no order is in two books, and the order being
\* matched is in none: after any mix of matches, cancels and Execute events.
BooksWellFormed ==
  /\ \A s \in DOMAIN books :
       BookAgrees(books[s], orders) /\ BeingMatched \cap Booked(s) = {}
  /\ \A s, t \in DOMAIN books : s # t => Booked(s) \cap Booked(t) = {}

Uncrossed(b) ==
  \A bid \in DOMAIN b.bids : \A ask \in DOMAIN b.asks : bid < ask

\* No book is ever locked or crossed, between calls and inside match, however
\* match ends and whatever stale orders a book may hold.
BooksNeverCrossed == \A s \in DOMAIN books : Uncrossed(books[s])

\* An order in a book that no match can fill any more was put in that state by
\* an Execute event or by a Cancel that named another symbol: matching and
\* proper cancels alone never leave a stale order behind.
StaleOnlyOutOfBand ==
  \A s \in DOMAIN books : \A id \in Booked(s) :
    Executable(orders[id]) \/ TouchedOutOfBand(id, s)

\* The queue of every level is in the order in which its orders arrived.
QueuesInArrivalOrder ==
  \A s \in DOMAIN books : \A side \in Side :
    \A p \in DOMAIN LevelsOf(books[s], side) :
      LET queue == LevelsOf(books[s], side)[p]
      IN  \A i, j \in DOMAIN queue :
            i < j => Arrival(queue[i]) < Arrival(queue[j])

\* An order with quantity left to trade rests in its own symbol's book, unless
\* it is being matched or a match that should have rested it met an order of
\* that book touched out of band.
LiveOrdersRest ==
  \A id \in DOMAIN orders \ BeingMatched :
    Executable(orders[id]) =>
      \/ Home(id) \in DOMAIN books /\ id \in Booked(Home(id))
      \/ \E other \in DOMAIN orders : /\ other # id
                                      /\ Home(other) = Home(id)
                                      /\ TouchedOutOfBand(other, Home(id))

-----------------------------------------------------------------------------
(***************************************************************************)
(* Matching and executions.                                                *)
(***************************************************************************)
Ahead(first, second) ==
  LET a == orders[first]
      b == orders[second]
  IN  \/ a.price # b.price /\ (IF a.side = "Buy" THEN a.price > b.price
                                                ELSE a.price < b.price)
      \/ a.price = b.price /\ Arrival(first) < Arrival(second)

\* Every trade takes, of all the orders in the book on the other side, the one
\* with the best price and, at that price, the earliest arrival.
PriceTimePriority ==
  [][Len(trades') > Len(trades) =>
       \A id \in Booked(Event.symbol) :
         orders[id].side # incoming.side =>
           \/ id = Last(trades').resting
           \/ Ahead(Last(trades').resting, id)]_vars

\* An execution names the event that caused it and two orders of that event's
\* symbol, of opposite sides, the resting one there first; its price is the
\* resting order's limit and within the incoming order's; executions are in
\* the order of their events.
ExecutionsTraceable ==
  \A i \in DOMAIN executions :
    LET x == executions[i]
        cause == eventLog[Arrival(x.incoming)]
        rest == eventLog[Arrival(x.resting)]
    IN  /\ x.event_id = cause.event_id
        /\ x.timestamp = cause.timestamp
        /\ x.symbol = cause.symbol
        /\ x.symbol = rest.symbol
        /\ cause.payload.side # rest.payload.side
        /\ Arrival(x.resting) < Arrival(x.incoming)
        /\ x.price = rest.payload.price
        /\ Crosses(cause.payload, rest.payload)
        /\ x.quantity > 0
        /\ \A j \in 1 .. i - 1 :
             Arrival(executions[j].incoming) <= Arrival(x.incoming)

\* What a trade moves of order id.
Moved(record, id) ==
  IF id \in {record.incoming, record.resting} THEN record.quantity ELSE 0

TradedIn(records, id) ==
  LET upTo[n \in 0 .. Len(records)] ==
        IF n = 0 THEN 0 ELSE upTo[n - 1] + Moved(records[n], id)
  IN  upTo[Len(records)]

Traded(id) == TradedIn(executions, id) + TradedIn(trades, id)

\* What an order has filled is what it traded.  It is more only when an
\* Execute event named it, or when another order of its book was cancelled
\* under another symbol (the match that met it filled one side alone).
FillsAreTrades ==
  \A id \in DOMAIN orders :
    /\ orders[id].filled >= Traded(id)
    /\ orders[id].filled > Traded(id) =>
         \/ \E i \in DOMAIN eventLog : Logged(i, "Execute", id)
         \/ \E other \in DOMAIN orders :
              /\ other # id
              /\ Home(other) = Home(id)
              /\ \E i \in DOMAIN eventLog :
                   Logged(i, "Cancel", other) /\ eventLog[i].symbol # Home(id)

-----------------------------------------------------------------------------
(***************************************************************************)
(* What docs/market_core_plan.md and follow-ups.md ask of the engine and   *)
(* the code does not give.                                                 *)
(***************************************************************************)

\* "Every booked order is executable" (docs/market_core_plan.md).
BookedOrdersExecutable ==
  \A s \in DOMAIN books : \A id \in Booked(s) : Executable(orders[id])

\* "Quantities/states remain unchanged when a match cannot complete": a turn
\* of the matching loop that produces no trade fills no order.
MatchIsAtomic ==
  [][pc = "matching" /\ Len(trades') <= Len(trades) => orders' = orders]_vars

\* "Incoming remainder rests exactly once": when process is done with an
\* order that has quantity left to trade, its book holds it.
RemainderRests ==
  \A id \in DOMAIN orders \ BeingMatched :
    Executable(orders[id]) => \E s \in DOMAIN books : id \in Booked(s)
=============================================================================
