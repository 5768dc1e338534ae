---------------------------- MODULE PriorityMarket ----------------------------
(***************************************************************************)
(* What the trading engine promises, without levels, queues, lookup        *)
(* tables or events: markets, one for each symbol, in which a new order    *)
(* takes the best orders of the other side one after the other, by price   *)
(* and then by age, and rests with what is left of it.                     *)
(*                                                                         *)
(* It also says what the engine does not promise.  An order may be filled  *)
(* or cancelled by its id alone, which leaves it in its market as it was;  *)
(* and a new order that then meets it gives up.                            *)
(***************************************************************************)
EXTENDS Orders, Sequences

CONSTANT Symbols

NoTaker == [id |-> 0]

VARIABLES
  orders,    \* order id -> order
  age,       \* order id -> a number that is greater for every later order
  resting,   \* symbol -> the ids of the orders in its market
  taker,     \* the new order that is trading, with its symbol, or NoTaker
  tape       \* every trade made, in order

vars == <<orders, age, resting, taker, tape>>

Init ==
  /\ orders = NoEntries
  /\ age = NoEntries
  /\ resting = [s \in Symbols |-> {}]
  /\ taker = NoTaker
  /\ tape = <<>>

-----------------------------------------------------------------------------
\* Order x trades before order y of the same side.
Better(x, y) ==
  \/ IF orders[x].side = "Buy" THEN orders[x].price > orders[y].price
                               ELSE orders[x].price < orders[y].price
  \/ orders[x].price = orders[y].price /\ age[x] < age[y]

Opposite == {id \in resting[taker.symbol] : orders[id].side # orders[taker.id].side}

\* The one order that the taker may trade with, if there is one.
Best == {id \in Opposite : \A other \in Opposite : other = id \/ Better(id, other)}

Agree(x, y) ==
  IF orders[x].side = "Buy" THEN orders[x].price >= orders[y].price
                            ELSE orders[x].price <= orders[y].price

\* What the two can trade.
Quantity(x, y) ==
  IF orders[x].remaining < orders[y].remaining THEN orders[x].remaining
                                               ELSE orders[y].remaining

\* The orders that the taker is to trade with now.
Counterparty ==
  {id \in Best : orders[taker.id].remaining > 0 /\ Agree(taker.id, id)}

-----------------------------------------------------------------------------
Arrive(id, symbol, side, price, quantity, n) ==
  /\ taker = NoTaker
  /\ id \notin DOMAIN orders
  /\ orders' = Put(orders, id, NewOrder(side, price, quantity))
  /\ \A other \in DOMAIN orders : age[other] < n
  /\ age' = Put(age, id, n)
  /\ taker' = [id |-> id, symbol |-> symbol]
  /\ UNCHANGED <<resting, tape>>

\* A trade, at the price of the order that was there first.
Trade ==
  /\ taker # NoTaker
  /\ \E id \in Counterparty :
       LET q == Quantity(taker.id, id)
       IN  /\ CanFill(orders[id], q)
           /\ orders' = Execute(Execute(orders, taker.id, q), id, q)
           /\ resting' = IF q < orders[id].remaining THEN resting
                         ELSE [resting EXCEPT ![taker.symbol] = @ \ {id}]
           /\ tape' = Append(tape, [symbol |-> taker.symbol,
                                    incoming |-> taker.id, resting |-> id,
                                    price |-> orders[id].price, quantity |-> q])
  /\ UNCHANGED <<age, taker>>

\* The taker has traded all that it can, and what is left of it rests.
Rest ==
  /\ taker # NoTaker
  /\ Counterparty = {}
  /\ resting' = IF orders[taker.id].remaining = 0 THEN resting
                ELSE [resting EXCEPT ![taker.symbol] = @ \cup {taker.id}]
  /\ taker' = NoTaker
  /\ UNCHANGED <<orders, age, tape>>

\* The order to trade with can no more be filled: the taker gives up, and may
\* be filled as if it had traded.
GiveUp ==
  /\ taker # NoTaker
  /\ \E id \in Counterparty :
       LET q == Quantity(taker.id, id)
       IN  /\ ~CanFill(orders[id], q)
           /\ orders' = IF q > 0 THEN Execute(orders, taker.id, q) ELSE orders
  /\ taker' = NoTaker
  /\ UNCHANGED <<age, resting, tape>>

Withdraw(id, symbol) ==
  /\ taker = NoTaker
  /\ CanCancel(orders, id) /\ id \in resting[symbol]
  /\ orders' = Cancel(orders, id)
  /\ resting' = [resting EXCEPT ![symbol] = @ \ {id}]
  /\ UNCHANGED <<age, taker, tape>>

\* By its id alone.
CancelById(id) ==
  /\ taker = NoTaker
  /\ CanCancel(orders, id)
  /\ orders' = Cancel(orders, id)
  /\ UNCHANGED <<age, resting, taker, tape>>

FillById(id) ==
  /\ taker = NoTaker
  /\ \E q \in 1 .. orders[id].remaining :
       CanExecute(orders, id, q) /\ orders' = Execute(orders, id, q)
  /\ UNCHANGED <<age, resting, taker, tape>>

Turn == Trade \/ Rest \/ GiveUp

\* An order that is new has a positive price and quantity.
ArriveAny ==
  \E id \in DOMAIN orders' \ DOMAIN orders : \E symbol \in Symbols :
    LET order == orders'[id]
    IN  /\ order.side \in Side /\ order.price > 0 /\ order.quantity > 0
        /\ Arrive(id, symbol, order.side, order.price, order.quantity,
                  age'[id])

Next ==
  \/ ArriveAny
  \/ Turn
  \/ \E id \in DOMAIN orders : \/ \E symbol \in Symbols : Withdraw(id, symbol)
                               \/ CancelById(id) \/ FillById(id)

\* A taker does not trade for ever.
Spec == Init /\ [][Next]_vars /\ WF_vars(Turn)
=============================================================================
