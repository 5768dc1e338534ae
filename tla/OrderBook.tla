----------------------------- MODULE OrderBook ------------------------------
(***************************************************************************)
(* core/orders/order_book.cpp as operators on a book value.  bids and asks *)
(* map each existing price level to its queue of order ids; lookup maps an *)
(* id to its side and price.  The list iterator that the code keeps beside *)
(* them is the id's place in that queue.                                   *)
(***************************************************************************)
EXTENDS Orders, SequencesExt

EmptyBook == [bids |-> NoEntries, asks |-> NoEntries, lookup |-> NoEntries]

\* std::nullopt: no order has id 0 (is_valid refuses it).
NoOrder == 0

BookContains(book, id) == id \in DOMAIN book.lookup

-----------------------------------------------------------------------------
(***************************************************************************)
(* add.                                                                    *)
(***************************************************************************)
\* Mutant of CanAdd: an order that has begun to fill is not accepted.
CanAddNew(book, id, order) ==
  /\ ~BookContains(book, id)
  /\ order.remaining > 0
  /\ order.state = "New"

CanAdd(book, id, order) ==
  /\ ~BookContains(book, id)
  /\ order.remaining > 0
  /\ order.state \in {"New", "PartiallyFilled"}

\* The queue at price p; operator[] creates an empty one when there is none.
QueueAt(levels, p) == IF p \in DOMAIN levels THEN levels[p] ELSE <<>>

\* Mutant of PushBack: the new order jumps the queue.
PushFront(levels, p, id) == Put(levels, p, <<id>> \o QueueAt(levels, p))

PushBack(levels, p, id) == Put(levels, p, Append(QueueAt(levels, p), id))

BookAdd(book, id, order) ==
  [bids |-> IF order.side = "Buy" THEN PushBack(book.bids, order.price, id)
            ELSE book.bids,
   asks |-> IF order.side = "Sell" THEN PushBack(book.asks, order.price, id)
            ELSE book.asks,
   lookup |-> Put(book.lookup, id,
                  [side |-> order.side, price |-> order.price])]

-----------------------------------------------------------------------------
(***************************************************************************)
(* remove.                                                                 *)
(***************************************************************************)
CanRemove(book, id) == BookContains(book, id)

PositionOf(queue, id) == CHOOSE i \in DOMAIN queue : queue[i] = id

\* Mutant of Erase: an emptied level is left behind.
EraseKeepingLevel(levels, p, id) ==
  [levels EXCEPT ![p] = RemoveAt(@, PositionOf(@, id))]

\* queue.erase(position), and the level with it when that empties the queue.
Erase(levels, p, id) ==
  LET rest == RemoveAt(levels[p], PositionOf(levels[p], id))
  IN  IF rest = <<>> THEN Restrict(levels, DOMAIN levels \ {p})
                     ELSE [levels EXCEPT ![p] = rest]

BookRemove(book, id) ==
  LET location == book.lookup[id]
  IN  [bids |-> IF location.side = "Buy"
                THEN Erase(book.bids, location.price, id) ELSE book.bids,
       asks |-> IF location.side = "Sell"
                THEN Erase(book.asks, location.price, id) ELSE book.asks,
       lookup |-> Restrict(book.lookup, DOMAIN book.lookup \ {id})]

-----------------------------------------------------------------------------
(***************************************************************************)
(* best_bid and best_ask: the front of the first level in the map's order, *)
(* descending for bids and ascending for asks.                             *)
(***************************************************************************)
FrontOf(queue) == IF queue = <<>> THEN NoOrder ELSE Head(queue)

\* Mutant of BestBid: bids sorted like asks (no std::greater).
LowestBid(book) ==
  IF DOMAIN book.bids = {} THEN NoOrder
  ELSE FrontOf(book.bids[Min(DOMAIN book.bids)])

BestBid(book) ==
  IF DOMAIN book.bids = {} THEN NoOrder
  ELSE FrontOf(book.bids[Max(DOMAIN book.bids)])

BestAsk(book) ==
  IF DOMAIN book.asks = {} THEN NoOrder
  ELSE FrontOf(book.asks[Min(DOMAIN book.asks)])
=============================================================================
