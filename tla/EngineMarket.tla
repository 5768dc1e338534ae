----------------------------- MODULE EngineMarket -----------------------------
(***************************************************************************)
(* The trading engine implements PriorityMarket.                           *)
(***************************************************************************)
EXTENDS EngineProperties

Age == [id \in DOMAIN orders |-> Arrival(id)]

Resting == [s \in Symbols |-> IF s \in DOMAIN books THEN Booked(s) ELSE {}]

NoTaker == [id |-> 0]
Taker ==
  IF pc = "matching" THEN [id |-> incomingId, symbol |-> Event.symbol] ELSE NoTaker

\* The trades recorded so far, and those of the match under way.
Tape ==
  LET entry(symbol, t) ==
        [symbol |-> symbol, incoming |-> t.incoming, resting |-> t.resting,
         price |-> t.price, quantity |-> t.quantity]
  IN  [i \in DOMAIN executions |-> entry(executions[i].symbol, executions[i])]
      \o [i \in DOMAIN trades |-> entry(Event.symbol, trades[i])]

Market == INSTANCE PriorityMarket WITH
            age <- Age, resting <- Resting, taker <- Taker, tape <- Tape

\* Every behaviour of the engine is one of the markets of PriorityMarket: the
\* levels, queues and lookup tables amount to price-time priority, each trade is
\* recorded once and in order, and an order rests in its own symbol's market or
\* not at all.
ImplementsMarket == Market!Spec
=============================================================================
