------------------------------ MODULE MCEngine ------------------------------
(***************************************************************************)
(* Finite feeds for TLC.  The Add event numbered n uses order id n, or id  *)
(* 1, a duplicate if event 1 was an Add; Cancel and Execute events name    *)
(* any id up to n, known or unknown.  Ids differ in nothing but when they  *)
(* occur, so naming a new order after its event only leaves out renamings. *)
(* The event ids (10 + n) and times (n) let properties tell events apart.  *)
(***************************************************************************)
EXTENDS EngineMarket

CONSTANTS
  MaxEvents,       \* bound: the numbers the feed uses
  MCPrices,        \* bound: the limit prices of Add events
  MCQuantities,    \* bound: the quantities of Add events
  MCFills,         \* bound: the quantities of Execute events
  MCTypes          \* the types of events that the feed presents

OrderPayloads(n) ==
  [type : {"Add"} \cap MCTypes, order_id : {1, n}, side : Side,
   price : MCPrices, quantity : MCQuantities]
  \cup [type : {"Cancel"} \cap MCTypes, order_id : 1 .. n, quantity : {1}]
  \cup [type : {"Execute"} \cap MCTypes, order_id : 1 .. n, price : {1},
        quantity : MCFills]

MarketDataPayloads ==
  [type : {"Trade"} \cap MCTypes, price : {1}, quantity : {1}]
  \cup [type : {"Quote"} \cap MCTypes, bid_price : {1}, bid_quantity : {1},
        asking_price : {1, 2}, asking_quantity : {1}]

Header(n, symbol, payload) ==
  [event_id |-> 10 + n, sequence_number |-> n, timestamp |-> n,
   symbol |-> symbol, payload |-> payload]

AnySymbol == CHOOSE s \in Symbols : TRUE

\* The first event names one fixed symbol: symbols differ in nothing but when
\* they occur.
SymbolsAt(n) == IF n = 1 THEN {AnySymbol} ELSE Symbols

MCFeed ==
  [n \in 1 .. MaxEvents |->
     {Header(n, s, p) : s \in SymbolsAt(n), p \in OrderPayloads(n)}
     \cup {Header(n, AnySymbol, p) : p \in MarketDataPayloads}]
=============================================================================
