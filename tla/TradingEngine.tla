--------------------------- MODULE TradingEngine ----------------------------
(***************************************************************************)
(* TradingEngine::process(event) (core/engine/trading_engine.cpp) with the *)
(* components it owns: the sequence validator, the event log, the order    *)
(* table, one order book and matching engine per symbol, and the execution *)
(* recorder.                                                               *)
(*                                                                         *)
(* The program is single-threaded, and process runs to its end before the  *)
(* next call.  Its only loop is MatchingEngine::match, so a call is one    *)
(* action, except that an accepted Add takes one action to enter the       *)
(* engine and one for each turn of the matching loop.                      *)
(***************************************************************************)
EXTENDS OrderBook

CONSTANTS
  Symbols,    \* the symbols an event may name
  NoSymbol,   \* the empty symbol, which is_valid refuses
  Feed        \* Feed[n] is the set of events a caller may present as number n

-----------------------------------------------------------------------------
(***************************************************************************)
(* Events (include/events/market_event.hpp, market_event_payload.hpp).     *)
(***************************************************************************)

\* A value outside the enumeration Side, which is_valid_side refuses.
NoSide == "None"

TradeEvent == [type : {"Trade"}, price : Int, quantity : Int]
QuoteEvent == [type : {"Quote"}, bid_price : Int, bid_quantity : Int,
               asking_price : Int, asking_quantity : Int]
AddOrderEvent == [type : {"Add"}, order_id : Nat, side : Side \cup {NoSide},
                  price : Int, quantity : Int]
CancelOrderEvent == [type : {"Cancel"}, order_id : Nat, quantity : Int]
ExecuteOrderEvent == [type : {"Execute"}, order_id : Nat, price : Int,
                      quantity : Int]

MarketEvent ==
  [event_id : Nat, sequence_number : Nat, timestamp : Int,
   symbol : Symbols \cup {NoSymbol},
   payload : TradeEvent \cup QuoteEvent \cup AddOrderEvent
             \cup CancelOrderEvent \cup ExecuteOrderEvent]

ASSUME SymbolsAssumption == NoSymbol \notin Symbols

ASSUME FeedAssumption ==
  /\ DOMAIN Feed \subseteq Nat
  /\ \A n \in DOMAIN Feed : \A e \in Feed[n] :
        e \in MarketEvent /\ e.sequence_number = n

IsValidPayload(p) ==
  CASE p.type = "Trade"   -> p.price > 0 /\ p.quantity > 0
    [] p.type = "Quote"   -> /\ p.bid_price > 0 /\ p.bid_quantity > 0
                             /\ p.asking_price > 0 /\ p.asking_quantity > 0
                             /\ p.bid_price < p.asking_price
    [] p.type = "Add"     -> /\ p.order_id > 0 /\ p.side \in Side
                             /\ p.price > 0 /\ p.quantity > 0
    [] p.type = "Cancel"  -> p.order_id > 0 /\ p.quantity > 0
    [] p.type = "Execute" -> p.order_id > 0 /\ p.price > 0 /\ p.quantity > 0

IsValid(e) ==
  /\ e.event_id # 0
  /\ e.sequence_number # 0
  /\ e.timestamp >= 0
  /\ e.symbol # NoSymbol
  /\ IsValidPayload(e.payload)

-----------------------------------------------------------------------------
VARIABLES
  nextExpected,   \* EventSequenceValidator::next_expected_
  eventLog,       \* EventLog::events_
  orders,         \* OrderManager::orders_: order id -> order
  books,          \* MarketStateManager::states_: symbol -> its order book
  executions,     \* ExecutionRecorder::executions_; the id is the index
  pc,             \* "idle", or "matching" while process is inside match
  trades,         \* MatchResult::trades of the match under way
  returned        \* what the last call returned; FALSE while one is in match

vars == <<nextExpected, eventLog, orders, books, executions, pc, trades,
          returned>>

Init ==
  /\ nextExpected = 1
  /\ eventLog = <<>>
  /\ orders = NoEntries
  /\ books = NoEntries
  /\ executions = <<>>
  /\ pc = "idle"
  /\ trades = <<>>
  /\ returned = TRUE

-----------------------------------------------------------------------------
(***************************************************************************)
(* process, up to the branch on the event's type.                          *)
(***************************************************************************)

\* The event fails is_valid or is not the next in sequence.
Refuses(e) == ~IsValid(e) \/ e.sequence_number # nextExpected

\* What process then does: nothing changes.
Refuse ==
  /\ pc = "idle"
  /\ returned' = FALSE
  /\ UNCHANGED <<nextExpected, eventLog, orders, books, executions, pc, trades>>

\* Mutant of Accept: Execute events are not logged.
AcceptUnlogged(e) ==
  /\ pc = "idle" /\ ~Refuses(e)
  /\ nextExpected' = nextExpected + 1
  /\ eventLog' = IF e.payload.type = "Execute" THEN eventLog
                 ELSE Append(eventLog, e)

\* Mutant of Accept: an event ahead of its turn is accepted, too.
AcceptAhead(e) ==
  /\ pc = "idle" /\ IsValid(e) /\ e.sequence_number >= nextExpected
  /\ nextExpected' = nextExpected + 1
  /\ eventLog' = Append(eventLog, e)

\* accept, then append: both happen before the event is known to succeed.
Accept(e) ==
  /\ pc = "idle" /\ ~Refuses(e)
  /\ nextExpected' = nextExpected + 1
  /\ eventLog' = Append(eventLog, e)

Return(result) == pc' = "idle" /\ returned' = result

-----------------------------------------------------------------------------
(***************************************************************************)
(* The Add branch, up to the call of match.  The new order is in state New *)
(* with a positive quantity, so match's own checks of it pass.             *)
(***************************************************************************)
RejectDuplicateAdd(e) ==
  /\ e.payload.type = "Add"
  /\ Accept(e)
  /\ e.payload.order_id \in DOMAIN orders
  /\ Return(FALSE)
  /\ UNCHANGED <<orders, books, executions, trades>>

GetOrCreate(symbol) ==
  IF symbol \in DOMAIN books THEN books ELSE Put(books, symbol, EmptyBook)

BeginMatch(e) ==
  LET p == e.payload
  IN  /\ e.payload.type = "Add"
      /\ Accept(e)
      /\ p.order_id \notin DOMAIN orders
      /\ orders' = Put(orders, p.order_id,
                       NewOrder(p.side, p.price, p.quantity))
      /\ books' = GetOrCreate(e.symbol)
      /\ pc' = "matching"
      /\ trades' = <<>>
      /\ returned' = FALSE
      /\ UNCHANGED executions

-----------------------------------------------------------------------------
(***************************************************************************)
(* MatchingEngine::match, one action for each turn of its loop and way out *)
(* of it.  The event under way is the last one logged.                     *)
(***************************************************************************)
Event == Last(eventLog)
incomingId == Event.payload.order_id
incoming == orders[incomingId]
book == books[Event.symbol]

restingId == IF incoming.side = "Buy" THEN BestAsk(book) ELSE BestBid(book)
resting == orders[restingId]

\* Mutant of Crosses: prices that are equal do not cross.
CrossesStrictly(order, other) ==
  IF order.side = "Buy" THEN order.price > other.price
                        ELSE order.price < other.price

Crosses(order, other) ==
  IF order.side = "Buy" THEN order.price >= other.price
                        ELSE order.price <= other.price

\* The loop goes on to execute_match: no break was taken.
MayMatch ==
  /\ incoming.remaining > 0
  /\ restingId # NoOrder
  /\ Crosses(incoming, resting)

matchQuantity ==
  IF incoming.remaining < resting.remaining THEN incoming.remaining
                                            ELSE resting.remaining

\* Mutant of Recorded: the event's time is not copied.
RecordedWithoutTime(matched) ==
  [i \in DOMAIN matched |->
     [event_id |-> Event.event_id, symbol |-> Event.symbol,
      incoming |-> matched[i].incoming, resting |-> matched[i].resting,
      price |-> matched[i].price, quantity |-> matched[i].quantity]]

\* Mutant of Recorded: the last trade of a match is not recorded.
RecordedButLast(matched) ==
  [i \in 1 .. Len(matched) - 1 |->
     [event_id |-> Event.event_id, timestamp |-> Event.timestamp,
      symbol |-> Event.symbol, incoming |-> matched[i].incoming,
      resting |-> matched[i].resting, price |-> matched[i].price,
      quantity |-> matched[i].quantity]]

\* The executions process records from a match's trades when it is over.
Recorded(matched) ==
  [i \in DOMAIN matched |->
     [event_id |-> Event.event_id, timestamp |-> Event.timestamp,
      symbol |-> Event.symbol, incoming |-> matched[i].incoming,
      resting |-> matched[i].resting, price |-> matched[i].price,
      quantity |-> matched[i].quantity]]

FinishMatch ==
  /\ executions' = executions \o Recorded(trades)
  /\ trades' = <<>>
  /\ Return(TRUE)

\* Mutant of TradePrice: the trade is made at the incoming order's price.
IncomingPrice == incoming.price

TradePrice == resting.price

MatchTrade ==
  /\ pc = "matching"
  /\ MayMatch
  /\ CanFill(resting, matchQuantity)
  /\ orders' = Execute(Execute(orders, incomingId, matchQuantity),
                       restingId, matchQuantity)
  /\ books' = IF orders'[restingId].state = "Filled"
              THEN [books EXCEPT ![Event.symbol] = BookRemove(@, restingId)]
              ELSE books
  /\ trades' = Append(trades,
                      [incoming |-> incomingId, resting |-> restingId,
                       price |-> TradePrice, quantity |-> matchQuantity])
  /\ UNCHANGED <<nextExpected, eventLog, executions, pc, returned>>

\* Mutant of AbandonOnExhausted: the loop goes on instead of returning.
RetryOnExhausted ==
  /\ pc = "matching"
  /\ MayMatch
  /\ resting.remaining <= 0
  /\ UNCHANGED vars

\* execute_match finds nothing left of the resting order: match returns
\* without resting the incoming one.
AbandonOnExhausted ==
  /\ pc = "matching"
  /\ MayMatch
  /\ resting.remaining <= 0
  /\ FinishMatch
  /\ UNCHANGED <<nextExpected, eventLog, orders, books>>

\* execute_match has filled the incoming order when the resting one refuses
\* its fill: there is no trade, and match returns.
AbandonHalfDone ==
  /\ pc = "matching"
  /\ MayMatch
  /\ resting.remaining > 0
  /\ ~CanFill(resting, matchQuantity)
  /\ orders' = Execute(orders, incomingId, matchQuantity)
  /\ FinishMatch
  /\ UNCHANGED <<nextExpected, eventLog, books>>

\* break, then rest_if_needed.
RestIfNeeded ==
  /\ pc = "matching"
  /\ ~MayMatch
  /\ books' = IF incoming.remaining > 0 /\ CanAdd(book, incomingId, incoming)
              THEN [books EXCEPT ![Event.symbol] =
                                   BookAdd(@, incomingId, incoming)]
              ELSE books
  /\ FinishMatch
  /\ UNCHANGED <<nextExpected, eventLog, orders>>

Match == MatchTrade \/ AbandonOnExhausted \/ AbandonHalfDone \/ RestIfNeeded

-----------------------------------------------------------------------------
(***************************************************************************)
(* The Cancel branch.  The quantity of the event is not used.  The order   *)
(* is moved to CancelPending before the book of the event's symbol is      *)
(* asked for it, and nothing undoes that when the book does not hold it.   *)
(***************************************************************************)
RejectCancel(e) ==
  /\ e.payload.type = "Cancel"
  /\ Accept(e)
  /\ \/ e.symbol \notin DOMAIN books
     \/ ~CanCancel(orders, e.payload.order_id)
  /\ Return(FALSE)
  /\ UNCHANGED <<orders, books, executions, trades>>

CancelNotInBook(e) ==
  LET id == e.payload.order_id
  IN  /\ e.payload.type = "Cancel"
      /\ Accept(e)
      /\ e.symbol \in DOMAIN books
      /\ CanCancel(orders, id)
      /\ ~CanRemove(books[e.symbol], id)
      /\ orders' = Cancel(orders, id)
      /\ Return(FALSE)
      /\ UNCHANGED <<books, executions, trades>>

CancelBooked(e) ==
  LET id == e.payload.order_id
  IN  /\ e.payload.type = "Cancel"
      /\ Accept(e)
      /\ e.symbol \in DOMAIN books
      /\ CanCancel(orders, id)
      /\ CanRemove(books[e.symbol], id)
      /\ orders' = Cancel(orders, id)
      /\ books' = [books EXCEPT ![e.symbol] = BookRemove(@, id)]
      /\ Return(TRUE)
      /\ UNCHANGED <<executions, trades>>

-----------------------------------------------------------------------------
(***************************************************************************)
(* The rest: OrderManager::process alone.  An Execute event fills an order *)
(* and leaves the book as it is; Trade and Quote events change nothing.    *)
(***************************************************************************)
RejectExecute(e) ==
  /\ e.payload.type = "Execute"
  /\ Accept(e)
  /\ ~CanExecute(orders, e.payload.order_id, e.payload.quantity)
  /\ Return(FALSE)
  /\ UNCHANGED <<orders, books, executions, trades>>

ExecuteOrder(e) ==
  /\ e.payload.type = "Execute"
  /\ Accept(e)
  /\ CanExecute(orders, e.payload.order_id, e.payload.quantity)
  /\ orders' = Execute(orders, e.payload.order_id, e.payload.quantity)
  /\ Return(TRUE)
  /\ UNCHANGED <<books, executions, trades>>

MarketData(e) ==
  /\ e.payload.type \in {"Trade", "Quote"}
  /\ Accept(e)
  /\ Return(TRUE)
  /\ UNCHANGED <<orders, books, executions, trades>>

-----------------------------------------------------------------------------
\* What process does with an event that it accepts, up to match.
Take(e) ==
  \/ RejectDuplicateAdd(e) \/ BeginMatch(e)
  \/ RejectCancel(e) \/ CancelNotInBook(e) \/ CancelBooked(e)
  \/ RejectExecute(e) \/ ExecuteOrder(e)
  \/ MarketData(e)

\* process(event), up to its return or to match.
Process(e) == (Refuses(e) /\ Refuse) \/ Take(e)

\* The events of the feed that are not refused for their number.
Due == IF nextExpected \in DOMAIN Feed THEN Feed[nextExpected] ELSE {}

\* The events of the feed that are refused.
Refused == {e \in UNION {Feed[n] : n \in DOMAIN Feed} : Refuses(e)}

\* The caller presents any event of the feed, or the match under way goes on.
Next ==
  \/ Refused # {} /\ Refuse
  \/ \E e \in Due : Take(e)
  \/ Match

\* A call of process that has entered match goes on running; whether another
\* call follows is up to the caller.
Spec == Init /\ [][Next]_vars /\ WF_vars(Match)
=============================================================================
