---------------------------- MODULE HistoryProofs ----------------------------
(***************************************************************************)
(* What the trading engine owes to the order in which its events came, for *)
(* every feed: queues, priority, executions, resting orders, and what an   *)
(* order has filled against what it has traded.  The log is the history of *)
(* the engine; HistoryInv adds to IInv how the orders, books and trades of *)
(* a state derive from it.                                                 *)
(***************************************************************************)
EXTENDS EngineProofs

-----------------------------------------------------------------------------
(***************************************************************************)
(* Arrivals, as functions of a log.                                        *)
(***************************************************************************)

\* The places of the Add events for order id.
AddsOf(log, id) ==
  {i \in DOMAIN log :
     log[i].payload.type = "Add" /\ log[i].payload.order_id = id}

ArrivedAt(log, id) == Min(AddsOf(log, id))

LEMMA ArrivalIsArrivedAt ==
  ASSUME NEW id
  PROVE  /\ Arrival(id) = ArrivedAt(eventLog, id)
         /\ Arrival(id)' = ArrivedAt(eventLog', id)
         /\ Home(id) = eventLog[ArrivedAt(eventLog, id)].symbol
         /\ Home(id)' = eventLog'[ArrivedAt(eventLog', id)].symbol
BY DEF Arrival, ArrivedAt, AddsOf, Logged, Home

\* An order that was added arrived with the first of its Add events.
LEMMA ArrivalProperties ==
  ASSUME NEW log \in Seq(MarketEvent), NEW id, AddsOf(log, id) # {}
  PROVE  /\ ArrivedAt(log, id) \in AddsOf(log, id)
         /\ ArrivedAt(log, id) \in DOMAIN log
         /\ ArrivedAt(log, id) \in 1 .. Len(log)
         /\ log[ArrivedAt(log, id)] \in MarketEvent
         /\ log[ArrivedAt(log, id)].payload.type = "Add"
         /\ log[ArrivedAt(log, id)].payload.order_id = id
         /\ \A i \in AddsOf(log, id) : ArrivedAt(log, id) <= i
<1>1. DOMAIN log = 1 .. Len(log) /\ Len(log) \in Nat
  BY LenProperties
<1>2. AddsOf(log, id) \in SUBSET Int /\ \A i \in AddsOf(log, id) : 1 <= i
  BY <1>1 DEF AddsOf
<1> DEFINE S == AddsOf(log, id)
<1>3. /\ ArrivedAt(log, id) \in S
      /\ \A i \in S : ArrivedAt(log, id) <= i
  <2>1. ArrivedAt(log, id) = Min(S)
    BY DEF ArrivedAt
  <2>2. S \in SUBSET Int /\ S # {} /\ 1 \in Int /\ \A i \in S : 1 <= i
    BY <1>2
  <2> HIDE DEF S
  <2>3. Min(S) \in S /\ \A i \in S : Min(S) <= i
    BY <2>2, MinExists
  <2> QED
    BY <2>1, <2>3
<1>4. ArrivedAt(log, id) \in DOMAIN log
  BY <1>3 DEF AddsOf
<1>5. log[ArrivedAt(log, id)] \in MarketEvent
  BY <1>1, <1>4, ElementOfSeq
<1> QED
  BY <1>1, <1>3, <1>4, <1>5 DEF AddsOf

\* The place of an order in the log is found again by what is known of it.
LEMMA ArrivalIs ==
  ASSUME NEW log \in Seq(MarketEvent), NEW id, NEW n \in AddsOf(log, id),
         \A i \in AddsOf(log, id) : n <= i
  PROVE  ArrivedAt(log, id) = n
<1>1. /\ ArrivedAt(log, id) \in AddsOf(log, id)
      /\ \A i \in AddsOf(log, id) : ArrivedAt(log, id) <= i
  BY ArrivalProperties
<1>2. ArrivedAt(log, id) <= n /\ n <= ArrivedAt(log, id)
  BY <1>1
<1>3. n \in Int /\ ArrivedAt(log, id) \in Int
  BY <1>1, LenProperties DEF AddsOf
<1> QED
  BY <1>2, <1>3

\* One more event moves no arrival.
LEMMA ArrivalKept ==
  ASSUME NEW log \in Seq(MarketEvent), NEW e \in MarketEvent, NEW id,
         AddsOf(log, id) # {}
  PROVE  /\ AddsOf(Append(log, e), id) # {}
         /\ ArrivedAt(Append(log, e), id) = ArrivedAt(log, id)
         /\ Append(log, e)[ArrivedAt(log, id)] = log[ArrivedAt(log, id)]
<1> DEFINE log2 == Append(log, e)
<1>1. /\ log2 \in Seq(MarketEvent)
      /\ Len(log) \in Nat
      /\ DOMAIN log = 1 .. Len(log)
      /\ DOMAIN log2 = 1 .. Len(log) + 1
      /\ \A i \in 1 .. Len(log) : log2[i] = log[i]
  BY AppendProperties, LenProperties
<1> HIDE DEF log2
<1>2. /\ ArrivedAt(log, id) \in AddsOf(log, id)
      /\ ArrivedAt(log, id) \in 1 .. Len(log)
      /\ \A i \in AddsOf(log, id) : ArrivedAt(log, id) <= i
  BY ArrivalProperties
<1>3. ArrivedAt(log, id) \in AddsOf(log2, id)
  BY <1>1, <1>2 DEF AddsOf
<1>4. ASSUME NEW i \in AddsOf(log2, id)
      PROVE  ArrivedAt(log, id) <= i
  <2>1. CASE i = Len(log) + 1
    BY <2>1, <1>1, <1>2
  <2>2. CASE i # Len(log) + 1
    <3>1. i \in 1 .. Len(log)
      BY <2>2, <1>1 DEF AddsOf
    <3>2. i \in AddsOf(log, id)
      BY <3>1, <1>1 DEF AddsOf
    <3> QED
      BY <3>2, <1>2
  <2> QED
    BY <2>1, <2>2
<1>5. ArrivedAt(log2, id) = ArrivedAt(log, id)
  BY <1>1, <1>3, <1>4, ArrivalIs
<1> QED
  BY <1>1, <1>2, <1>3, <1>5 DEF log2

\* A new order arrives with the event that is logged last.
LEMMA ArrivalOfNew ==
  ASSUME NEW log \in Seq(MarketEvent), NEW e \in MarketEvent,
         e.payload.type = "Add", AddsOf(log, e.payload.order_id) = {}
  PROVE  /\ AddsOf(Append(log, e), e.payload.order_id) # {}
         /\ ArrivedAt(Append(log, e), e.payload.order_id) = Len(log) + 1
         /\ Append(log, e)[Len(log) + 1] = e
<1> DEFINE log2 == Append(log, e)
           id == e.payload.order_id
<1>1. /\ log2 \in Seq(MarketEvent)
      /\ Len(log) \in Nat
      /\ DOMAIN log = 1 .. Len(log)
      /\ DOMAIN log2 = 1 .. Len(log) + 1
      /\ log2[Len(log) + 1] = e
      /\ \A i \in 1 .. Len(log) : log2[i] = log[i]
  BY AppendProperties, LenProperties
<1> HIDE DEF log2
<1>2. Len(log) + 1 \in AddsOf(log2, id)
  BY <1>1 DEF AddsOf
<1>3. \A i \in AddsOf(log2, id) : Len(log) + 1 <= i
  BY <1>1 DEF AddsOf
<1>4. ArrivedAt(log2, id) = Len(log) + 1
  BY <1>1, <1>2, <1>3, ArrivalIs
<1> QED
  BY <1>1, <1>2, <1>4 DEF log2

-----------------------------------------------------------------------------
(***************************************************************************)
(* The invariant.                                                          *)
(***************************************************************************)

\* Every order has its terms from the Add event that made it.
OrdersArrived ==
  \A id \in DOMAIN orders :
    /\ AddsOf(eventLog, id) # {}
    /\ LET p == eventLog[ArrivedAt(eventLog, id)].payload
       IN  /\ orders[id].side = p.side
           /\ orders[id].price = p.price
           /\ orders[id].quantity = p.quantity

AddsAreOrders == \A id : AddsOf(eventLog, id) # {} => id \in DOMAIN orders

BookedAtHome ==
  \A s \in DOMAIN books : \A id \in Booked(s) :
    eventLog[ArrivedAt(eventLog, id)].symbol = s

LatestIsMatched ==
  pc = "matching" => ArrivedAt(eventLog, incomingId) = Len(eventLog)

\* A log in which order id was cancelled under another symbol than s.
CancelledElsewhere(log, id, s) ==
  \E i \in DOMAIN log : /\ log[i].payload.type = "Cancel"
                        /\ log[i].payload.order_id = id
                        /\ log[i].symbol # s

\* A cancelled order that is still in a book was cancelled under another symbol.
CancelledOutOfBand ==
  \A s \in DOMAIN books : \A id \in Booked(s) :
    orders[id].state = "CancelPending" => CancelledElsewhere(eventLog, id, s)

\* A trade between two orders of the log: what it owes to their Add events.
ProperTrade(log, t) ==
  /\ AddsOf(log, t.incoming) # {}
  /\ AddsOf(log, t.resting) # {}
  /\ t.incoming # t.resting
  /\ ArrivedAt(log, t.resting) < ArrivedAt(log, t.incoming)
  /\ t.quantity > 0
  /\ LET cause == log[ArrivedAt(log, t.incoming)]
         rest == log[ArrivedAt(log, t.resting)]
     IN  /\ cause.symbol = rest.symbol
         /\ cause.payload.side # rest.payload.side
         /\ Crosses(cause.payload, rest.payload)
         /\ t.price = rest.payload.price

\* An execution is the record of one, with the fields of its event.
ProperExecution(log, x) ==
  /\ ProperTrade(log, x)
  /\ LET cause == log[ArrivedAt(log, x.incoming)]
     IN  /\ x.event_id = cause.event_id
         /\ x.timestamp = cause.timestamp
         /\ x.symbol = cause.symbol

TradesInHand ==
  /\ pc = "idle" => trades = <<>>
  /\ \A i \in DOMAIN trades : /\ trades[i].incoming = incomingId
                              /\ ProperTrade(eventLog, trades[i])

ExecutionsProper ==
  \A i \in DOMAIN executions : ProperExecution(eventLog, executions[i])

ExecutionsInOrder ==
  \A i, j \in DOMAIN executions :
    i < j => ArrivedAt(eventLog, executions[i].incoming)
               <= ArrivedAt(eventLog, executions[j].incoming)

HistoryInv ==
  /\ OrdersArrived /\ AddsAreOrders
  /\ BookedAtHome
  /\ LatestIsMatched
  /\ CancelledOutOfBand
  /\ TradesInHand
  /\ ExecutionsProper
  /\ ExecutionsInOrder

-----------------------------------------------------------------------------
(***************************************************************************)
(* What a step may do to an order.                                         *)
(***************************************************************************)

\* An order and what it may become: its terms are fixed, and only one that a
\* match could fill is one that a match can fill afterwards.
Becomes(o, o2) ==
  /\ o2.side = o.side /\ o2.price = o.price /\ o2.quantity = o.quantity
  /\ Executable(o2) => Executable(o)

LEMMA FillBecomes ==
  ASSUME NEW o \in Order, Consistent(o), NEW q \in Int, CanFill(o, q)
  PROVE  /\ Becomes(o, Fill(o, q))
         /\ Executable(o)
         /\ Fill(o, q).filled = o.filled + q
         /\ Fill(o, q).state # "CancelPending"
<1> DEFINE f == Fill(o, q)
           st == IF q = o.remaining THEN "Filled" ELSE "PartiallyFilled"
<1>1. /\ f.side = o.side /\ f.price = o.price /\ f.quantity = o.quantity
      /\ f.filled = o.filled + q
      /\ f.state = st
  <2>1. f = [o EXCEPT !.filled = o.filled + q, !.remaining = o.remaining - q,
                      !.state = st]
    BY DEF Fill
  <2> HIDE DEF f, st
  <2> QED
    BY <2>1 DEF Order
<1>2. Executable(o)
  <2>1. o.remaining \in Int /\ q > 0 /\ q <= o.remaining
    BY DEF Order, CanFill
  <2>2. o.state \in {"New", "PartiallyFilled"}
    BY DEF Consistent, CanFill
  <2> QED
    BY <2>1, <2>2 DEF Executable
<1>3. f.state # "CancelPending"
  BY <1>1
<1> HIDE DEF f
<1> QED
  BY <1>1, <1>2, <1>3 DEF Becomes, f

LEMMA CancelBecomes ==
  ASSUME NEW o \in Order
  PROVE  /\ Becomes(o, Transition(o, "CancelPending"))
         /\ ~Executable(Transition(o, "CancelPending"))
         /\ Transition(o, "CancelPending").filled = o.filled
BY DEF Becomes, Executable, Transition, Order

LEMMA SameBecomes == ASSUME NEW o PROVE Becomes(o, o)
BY DEF Becomes

LEMMA BecomesTwice ==
  ASSUME NEW o, NEW o2, NEW o3, Becomes(o, o2), Becomes(o2, o3)
  PROVE  Becomes(o, o3)
BY DEF Becomes

\* The table after execute and after a cancel, once more.
LEMMA ExecuteBecomes ==
  ASSUME NEW ords, IsMap(ords, OrderId, Order),
         \A x \in DOMAIN ords : Consistent(ords[x]),
         NEW id, NEW q \in Int, CanExecute(ords, id, q)
  PROVE  \A x \in DOMAIN ords :
           /\ Becomes(ords[x], Execute(ords, id, q)[x])
           /\ Execute(ords, id, q)[x].state = "CancelPending" =>
                ords[x].state = "CancelPending"
<1> DEFINE ords2 == Execute(ords, id, q)
<1>1. /\ ords2[id] = Fill(ords[id], q)
      /\ \A x \in DOMAIN ords : x # id => ords2[x] = ords[x]
  BY ExecuteGood
<1> HIDE DEF ords2
<1>2. id \in DOMAIN ords /\ ords[id] \in Order /\ Consistent(ords[id])
      /\ CanFill(ords[id], q)
  BY DEF CanExecute, IsMap
<1>3. Becomes(ords[id], Fill(ords[id], q))
      /\ Fill(ords[id], q).state # "CancelPending"
  BY <1>2, FillBecomes
<1>4. ASSUME NEW x \in DOMAIN ords
      PROVE  /\ Becomes(ords[x], ords2[x])
             /\ ords2[x].state = "CancelPending" =>
                  ords[x].state = "CancelPending"
  <2>1. CASE x = id
    BY <2>1, <1>1, <1>3
  <2>2. CASE x # id
    BY <2>2, <1>1, SameBecomes
  <2> QED
    BY <2>1, <2>2
<1> QED
  BY <1>4 DEF ords2

LEMMA CancelTableBecomes ==
  ASSUME NEW ords, IsMap(ords, OrderId, Order), NEW id, id \in DOMAIN ords
  PROVE  /\ DOMAIN Cancel(ords, id) = DOMAIN ords
         /\ ~Executable(Cancel(ords, id)[id])
         /\ \A x \in DOMAIN ords :
              /\ Becomes(ords[x], Cancel(ords, id)[x])
              /\ x # id => Cancel(ords, id)[x] = ords[x]
<1> DEFINE ords2 == Cancel(ords, id)
<1>1. /\ DOMAIN ords2 = DOMAIN ords
      /\ ords2[id] = Transition(ords[id], "CancelPending")
      /\ \A x \in DOMAIN ords : x # id => ords2[x] = ords[x]
  BY DEF Cancel, IsMap
<1>2. ords[id] \in Order
  BY DEF IsMap
<1>3. /\ Becomes(ords[id], Transition(ords[id], "CancelPending"))
      /\ ~Executable(Transition(ords[id], "CancelPending"))
  BY <1>2, CancelBecomes
<1> HIDE DEF ords2
<1>4. ASSUME NEW x \in DOMAIN ords
      PROVE  Becomes(ords[x], ords2[x])
  <2>1. CASE x = id
    BY <2>1, <1>1, <1>3
  <2>2. CASE x # id
    BY <2>2, <1>1, SameBecomes
  <2> QED
    BY <2>1, <2>2
<1> QED
  BY <1>1, <1>3, <1>4 DEF ords2

-----------------------------------------------------------------------------
(***************************************************************************)
(* What each kind of step does to the order table and the books.           *)
(***************************************************************************)

\* Both tables of a turn that trades.
LEMMA MatchTradeFacts ==
  ASSUME IInv, MatchTrade
  PROVE  /\ pc = "matching" /\ MayMatch
         /\ matchQuantity \in Int /\ matchQuantity > 0
         /\ DOMAIN orders' = DOMAIN orders
         /\ orders'[incomingId] = Fill(incoming, matchQuantity)
         /\ orders'[restingId] = Fill(resting, matchQuantity)
         /\ CanFill(incoming, matchQuantity) /\ CanFill(resting, matchQuantity)
         /\ \A x \in DOMAIN orders :
              x # incomingId /\ x # restingId => orders'[x] = orders[x]
         /\ \A x \in DOMAIN orders :
              /\ Becomes(orders[x], orders'[x])
              /\ orders'[x].state = "CancelPending" =>
                   orders[x].state = "CancelPending"
<1> DEFINE mid == Execute(orders, incomingId, matchQuantity)
<1>1. /\ pc = "matching" /\ MayMatch
      /\ CanFill(resting, matchQuantity)
      /\ orders' = Execute(mid, restingId, matchQuantity)
  BY DEF MatchTrade
<1>2. /\ incomingId \in DOMAIN orders /\ restingId \in DOMAIN orders
      /\ restingId # incomingId
      /\ resting \in Order /\ Consistent(resting)
      /\ incoming \in Order /\ Consistent(incoming)
      /\ incoming.state # "CancelPending" /\ incoming.remaining > 0
  BY <1>1, MatchFacts
<1>3. /\ resting.remaining > 0 /\ matchQuantity \in Int /\ matchQuantity > 0
      /\ matchQuantity <= incoming.remaining
  <2>1. resting.remaining \in Int /\ incoming.remaining \in Int
    BY <1>2 DEF Order
  <2> QED
    BY <2>1, <1>1 DEF CanFill, matchQuantity
<1>4. CanFill(incoming, matchQuantity)
  <2>1. incoming.remaining \in Int
    BY <1>2 DEF Order
  <2> QED
    BY <2>1, <1>2, <1>3 DEF CanFill, Consistent
<1>5. /\ IsMap(mid, OrderId, Order)
      /\ \A x \in DOMAIN mid : Consistent(mid[x])
      /\ DOMAIN mid = DOMAIN orders
      /\ mid[incomingId] = Fill(incoming, matchQuantity)
      /\ \A x \in DOMAIN orders : x # incomingId => mid[x] = orders[x]
  BY <1>1, <1>3, IncomingFilled
<1>6. IsMap(orders, OrderId, Order)
      /\ \A x \in DOMAIN orders : Consistent(orders[x])
  BY DEF IInv, TypeOK, OrdersConsistent
<1>7. CanExecute(orders, incomingId, matchQuantity)
  BY <1>2, <1>4 DEF CanExecute, incoming
<1>8. \A x \in DOMAIN orders :
        /\ Becomes(orders[x], mid[x])
        /\ mid[x].state = "CancelPending" => orders[x].state = "CancelPending"
  BY <1>3, <1>6, <1>7, ExecuteBecomes
<1> HIDE DEF mid
<1>9. CanExecute(mid, restingId, matchQuantity) /\ mid[restingId] = resting
  BY <1>1, <1>2, <1>5 DEF CanExecute, resting
<1>10. \A x \in DOMAIN mid :
        /\ Becomes(mid[x], orders'[x])
        /\ orders'[x].state = "CancelPending" => mid[x].state = "CancelPending"
  BY <1>1, <1>3, <1>5, <1>9, ExecuteBecomes
<1>11. /\ DOMAIN orders' = DOMAIN mid
       /\ orders'[restingId] = Fill(mid[restingId], matchQuantity)
       /\ \A x \in DOMAIN mid : x # restingId => orders'[x] = mid[x]
  BY <1>1, <1>3, <1>5, <1>9, ExecuteGood
<1>12. \A x \in DOMAIN orders : Becomes(orders[x], orders'[x])
  BY <1>5, <1>8, <1>10, BecomesTwice
<1> QED
  BY <1>1, <1>2, <1>3, <1>4, <1>5, <1>8, <1>9, <1>10, <1>11, <1>12

\* The order table of a turn that fills the incoming order alone; the resting
\* one was cancelled.
LEMMA HalfDoneFacts ==
  ASSUME IInv, AbandonHalfDone
  PROVE  /\ pc = "matching" /\ MayMatch
         /\ resting.state = "CancelPending"
         /\ matchQuantity \in Int /\ matchQuantity > 0
         /\ CanFill(incoming, matchQuantity)
         /\ DOMAIN orders' = DOMAIN orders
         /\ orders'[incomingId] = Fill(incoming, matchQuantity)
         /\ \A x \in DOMAIN orders : x # incomingId => orders'[x] = orders[x]
         /\ \A x \in DOMAIN orders :
              /\ Becomes(orders[x], orders'[x])
              /\ orders'[x].state = "CancelPending" =>
                   orders[x].state = "CancelPending"
<1>1. /\ pc = "matching" /\ MayMatch /\ resting.remaining > 0
      /\ ~CanFill(resting, matchQuantity)
      /\ orders' = Execute(orders, incomingId, matchQuantity)
  BY DEF AbandonHalfDone
<1>2. /\ incomingId \in DOMAIN orders
      /\ resting \in Order /\ Consistent(resting)
      /\ incoming \in Order /\ Consistent(incoming)
      /\ incoming.state # "CancelPending" /\ incoming.remaining > 0
  BY <1>1, MatchFacts
<1>3. resting.remaining \in Int /\ incoming.remaining \in Int
  BY <1>2 DEF Order
<1>4. /\ matchQuantity \in Int /\ matchQuantity > 0
      /\ matchQuantity <= incoming.remaining
      /\ matchQuantity <= resting.remaining
  BY <1>1, <1>2, <1>3 DEF matchQuantity
<1>5. CanFill(incoming, matchQuantity)
  BY <1>2, <1>3, <1>4 DEF CanFill, Consistent
<1>6. resting.state = "CancelPending"
  <2>1. resting.state # "Filled"
    BY <1>1, <1>2, <1>3 DEF Consistent
  <2> QED
    BY <2>1, <1>1, <1>2, <1>4 DEF CanFill, Consistent
<1>7. IsMap(orders, OrderId, Order)
      /\ \A x \in DOMAIN orders : Consistent(orders[x])
  BY DEF IInv, TypeOK, OrdersConsistent
<1>8. CanExecute(orders, incomingId, matchQuantity)
  BY <1>2, <1>5 DEF CanExecute, incoming
<1>9. \A x \in DOMAIN orders :
        /\ Becomes(orders[x], orders'[x])
        /\ orders'[x].state = "CancelPending" =>
             orders[x].state = "CancelPending"
  BY <1>1, <1>4, <1>7, <1>8, ExecuteBecomes
<1>10. /\ DOMAIN orders' = DOMAIN orders
       /\ orders'[incomingId] = Fill(incoming, matchQuantity)
       /\ \A x \in DOMAIN orders : x # incomingId => orders'[x] = orders[x]
  BY <1>1, IncomingFilled
<1> QED
  BY <1>1, <1>4, <1>5, <1>6, <1>9, <1>10

\* Orders are never lost, keep their terms, and are cancelled by Cancel events.
LEMMA OrdersStep ==
  ASSUME IInv, [Step]_vars
  PROVE  /\ DOMAIN orders \subseteq DOMAIN orders'
         /\ ~MatchBegins => DOMAIN orders' = DOMAIN orders
         /\ \A x \in DOMAIN orders :
              /\ Becomes(orders[x], orders'[x])
              /\ orders'[x].state = "CancelPending" =>
                   \/ orders[x].state = "CancelPending"
                   \/ CancelMissesBook \/ BookedCancelled
<1>1. CASE MatchTrade
  BY <1>1, MatchTradeFacts
<1>2. CASE AbandonHalfDone
  BY <1>2, HalfDoneFacts
<1>3. CASE MatchBegins
  <2>1. PICK e \in Offered({"Add"}) :
          /\ e.payload.order_id \notin DOMAIN orders
          /\ orders' = Put(orders, e.payload.order_id,
                           NewOrder(e.payload.side, e.payload.price,
                                    e.payload.quantity))
    BY <1>3 DEF MatchBegins, BeginMatch
  <2>2. /\ DOMAIN orders \subseteq DOMAIN orders'
        /\ \A x \in DOMAIN orders : orders'[x] = orders[x]
    BY <2>1 DEF Put
  <2> QED
    BY <2>2, <1>3, SameBecomes
<1>4. CASE OrderExecuted
  <2>1. PICK e \in Offered({"Execute"}) :
          /\ CanExecute(orders, e.payload.order_id, e.payload.quantity)
          /\ orders' = Execute(orders, e.payload.order_id, e.payload.quantity)
    BY <1>4 DEF OrderExecuted, ExecuteOrder
  <2>2. e.payload.quantity \in Int
    BY OfferedEvent, ExecuteFields DEF IInv, TypeOK
  <2>3. IsMap(orders, OrderId, Order)
        /\ \A x \in DOMAIN orders : Consistent(orders[x])
    BY DEF IInv, TypeOK, OrdersConsistent
  <2> QED
    BY <2>1, <2>2, <2>3, ExecuteBecomes, ExecuteGood
<1>5. CASE CancelMissesBook \/ BookedCancelled
  <2>1. PICK e \in Offered({"Cancel"}) :
          /\ CanCancel(orders, e.payload.order_id)
          /\ orders' = Cancel(orders, e.payload.order_id)
    BY <1>5 DEF CancelMissesBook, CancelNotInBook, BookedCancelled,
                CancelBooked
  <2>2. e.payload.order_id \in DOMAIN orders
    BY <2>1 DEF CanCancel
  <2>3. IsMap(orders, OrderId, Order)
    BY DEF IInv, TypeOK
  <2> QED
    BY <2>1, <2>2, <2>3, <1>5, CancelTableBecomes
<1>6. CASE UNCHANGED orders
  BY <1>6, SameBecomes
<1>7. CASE Refuse \/ DuplicateRejected \/ CancelRejected \/ ExecuteRejected
           \/ DataTaken \/ AbandonOnExhausted \/ RestIfNeeded
           \/ UNCHANGED vars
  BY <1>6, <1>7 DEF Refuse, DuplicateRejected, RejectDuplicateAdd,
                    CancelRejected, RejectCancel, ExecuteRejected,
                    RejectExecute, DataTaken, MarketData, AbandonOnExhausted,
                    RestIfNeeded, vars
<1> QED
  BY <1>1, <1>2, <1>3, <1>4, <1>5, <1>7 DEF Step, Match

\* What a step may make of book s: nothing, a new book, a book without an order
\* that no match can fill any more, or a book with the rest of a match.
BookMove(s) ==
  \/ s \in DOMAIN books /\ books'[s] = books[s]
  \/ s \notin DOMAIN books /\ books'[s] = EmptyBook
  \/ /\ s \in DOMAIN books
     /\ \E x \in Booked(s) : /\ books'[s] = BookRemove(books[s], x)
                             /\ ~Executable(orders'[x])
  \/ /\ RestIfNeeded
     /\ s = Event.symbol
     /\ books'[s] = BookAdd(books[s], incomingId, incoming)

LEMMA BooksMove ==
  ASSUME IInv, [Step]_vars
  PROVE  /\ DOMAIN books \subseteq DOMAIN books'
         /\ \A s \in DOMAIN books' : BookMove(s)
<1>0. books = [s \in DOMAIN books |-> books[s]]
  BY DEF IInv, TypeOK
<1>1. CASE MatchTrade
  <2>1. CASE orders'[restingId].state = "Filled"
    <3>1. books' = [books EXCEPT ![Event.symbol] = BookRemove(@, restingId)]
      BY <1>1, <2>1 DEF MatchTrade
    <3>2. Event.symbol \in DOMAIN books /\ restingId \in Booked(Event.symbol)
      BY <1>1, MatchFacts DEF MatchTrade
    <3>3. ~Executable(orders'[restingId])
      BY <2>1 DEF Executable
    <3>4. /\ DOMAIN books' = DOMAIN books
          /\ books'[Event.symbol] = BookRemove(books[Event.symbol], restingId)
          /\ \A s \in DOMAIN books : s # Event.symbol => books'[s] = books[s]
      BY <3>1, <3>2, <1>0
    <3> QED
      BY <3>2, <3>3, <3>4 DEF BookMove
  <2>2. CASE orders'[restingId].state # "Filled"
    <3>1. books' = books
      BY <1>1, <2>2 DEF MatchTrade
    <3> QED
      BY <3>1 DEF BookMove
  <2> QED
    BY <2>1, <2>2
<1>2. CASE MatchBegins
  <2>1. PICK e \in Offered({"Add"}) : books' = GetOrCreate(e.symbol)
    BY <1>2 DEF MatchBegins, BeginMatch
  <2>2. /\ DOMAIN books \subseteq DOMAIN books'
        /\ \A s \in DOMAIN books : books'[s] = books[s]
        /\ \A s \in DOMAIN books' \ DOMAIN books : books'[s] = EmptyBook
    BY <2>1 DEF GetOrCreate, Put
  <2> QED
    BY <2>2 DEF BookMove
<1>3. CASE BookedCancelled
  <2>1. PICK e \in Offered({"Cancel"}) :
          /\ e.symbol \in DOMAIN books
          /\ CanCancel(orders, e.payload.order_id)
          /\ CanRemove(books[e.symbol], e.payload.order_id)
          /\ orders' = Cancel(orders, e.payload.order_id)
          /\ books' = [books EXCEPT ![e.symbol] =
                                      BookRemove(@, e.payload.order_id)]
    BY <1>3 DEF BookedCancelled, CancelBooked
  <2>2. e.payload.order_id \in Booked(e.symbol)
    BY <2>1 DEF CanRemove, BookContains, Booked
  <2>3. ~Executable(orders'[e.payload.order_id])
    <3>1. IsMap(orders, OrderId, Order)
      BY DEF IInv, TypeOK
    <3> QED
      BY <2>1, <3>1, CancelTableBecomes DEF CanCancel
  <2>4. /\ DOMAIN books' = DOMAIN books
        /\ books'[e.symbol] = BookRemove(books[e.symbol], e.payload.order_id)
        /\ \A s \in DOMAIN books : s # e.symbol => books'[s] = books[s]
    BY <2>1, <1>0
  <2> QED
    BY <2>1, <2>2, <2>3, <2>4 DEF BookMove
<1>4. CASE RestIfNeeded
  <2> DEFINE rests == /\ incoming.remaining > 0
                      /\ CanAdd(book, incomingId, incoming)
  <2>1. /\ pc = "matching"
        /\ books' = IF rests
                    THEN [books EXCEPT ![Event.symbol] =
                                         BookAdd(@, incomingId, incoming)]
                    ELSE books
    BY <1>4 DEF RestIfNeeded
  <2>2. Event.symbol \in DOMAIN books
    BY <2>1, MatchFacts
  <2> HIDE DEF rests
  <2>3. CASE rests
    <3>1. /\ DOMAIN books' = DOMAIN books
          /\ books'[Event.symbol] =
               BookAdd(books[Event.symbol], incomingId, incoming)
          /\ \A s \in DOMAIN books : s # Event.symbol => books'[s] = books[s]
      BY <2>1, <2>2, <2>3, <1>0
    <3> QED
      BY <3>1, <1>4 DEF BookMove
  <2>4. CASE ~rests
    <3>1. books' = books
      BY <2>1, <2>4
    <3> QED
      BY <3>1 DEF BookMove
  <2> QED
    BY <2>3, <2>4
<1>5. CASE books' = books
  BY <1>5 DEF BookMove
<1>6. CASE Refuse \/ DuplicateRejected \/ CancelRejected \/ ExecuteRejected
           \/ DataTaken \/ AbandonOnExhausted \/ AbandonHalfDone
           \/ CancelMissesBook \/ OrderExecuted \/ UNCHANGED vars
  <2>1. books' = books
    BY <1>6 DEF Refuse, DuplicateRejected, RejectDuplicateAdd, CancelRejected,
                RejectCancel, ExecuteRejected, RejectExecute, DataTaken,
                MarketData, AbandonOnExhausted, AbandonHalfDone,
                CancelMissesBook, CancelNotInBook, OrderExecuted, ExecuteOrder,
                vars
  <2> QED
    BY <2>1, <1>5
<1> QED
  BY <1>1, <1>2, <1>3, <1>4, <1>6 DEF Step, Match

\* An order enters a book only as the rest of a match, and leaves one only when
\* no match can fill it any more.
LEMMA BookedStep ==
  ASSUME IInv, [Step]_vars
  PROVE  /\ \A s \in DOMAIN books' : \A x \in DOMAIN books'[s].lookup :
              \/ s \in DOMAIN books /\ x \in Booked(s)
              \/ RestIfNeeded /\ s = Event.symbol /\ x = incomingId
         /\ \A s \in DOMAIN books : \A x \in Booked(s) :
              x \in DOMAIN books'[s].lookup \/ ~Executable(orders'[x])
<1>1. ASSUME NEW s \in DOMAIN books'
      PROVE  /\ \A x \in DOMAIN books'[s].lookup :
                  \/ s \in DOMAIN books /\ x \in Booked(s)
                  \/ RestIfNeeded /\ s = Event.symbol /\ x = incomingId
             /\ s \in DOMAIN books => \A x \in Booked(s) :
                  x \in DOMAIN books'[s].lookup \/ ~Executable(orders'[x])
  <2>1. BookMove(s)
    BY BooksMove
  <2>2. CASE s \in DOMAIN books /\ books'[s] = books[s]
    BY <2>2 DEF Booked
  <2>3. CASE s \notin DOMAIN books /\ books'[s] = EmptyBook
    BY <2>3 DEF EmptyBook, NoEntries
  <2>4. CASE /\ s \in DOMAIN books
             /\ \E x \in Booked(s) : /\ books'[s] = BookRemove(books[s], x)
                                     /\ ~Executable(orders'[x])
    <3>1. PICK x \in Booked(s) : /\ books'[s] = BookRemove(books[s], x)
                                 /\ ~Executable(orders'[x])
      BY <2>4
    <3>2. GoodBook(books[s], orders)
      BY <2>4 DEF IInv, BooksGood
    <3>3. DOMAIN books'[s].lookup = Booked(s) \ {x}
      BY <3>1, <3>2, BookRemoveGood DEF Booked
    <3> QED
      BY <3>1, <3>3, <2>4
  <2>5. CASE /\ RestIfNeeded
             /\ s = Event.symbol
             /\ books'[s] = BookAdd(books[s], incomingId, incoming)
    <3>1. DOMAIN books'[s].lookup = Booked(s) \cup {incomingId}
      BY <2>5 DEF BookAdd, Put, Booked
    <3>2. s \in DOMAIN books
      BY <2>5, MatchFacts DEF RestIfNeeded
    <3> QED
      BY <3>1, <3>2, <2>5
  <2> QED
    BY <2>1, <2>2, <2>3, <2>4, <2>5 DEF BookMove
<1> QED
  BY <1>1, BooksMove

-----------------------------------------------------------------------------
(***************************************************************************)
(* What a step does to the history.                                        *)
(***************************************************************************)

\* The log stands still, or grows by an event while no match is under way; an
\* Add among the logged ones names a known order, or begins a match.
LEMMA LogStep ==
  ASSUME IInv, [Step]_vars
  PROVE  \/ eventLog' = eventLog /\ ~MatchBegins
         \/ /\ pc = "idle"
            /\ \E e \in MarketEvent :
                 /\ eventLog' = Append(eventLog, e)
                 /\ e.payload.type = "Add" =>
                      MatchBegins \/ e.payload.order_id \in DOMAIN orders
<1>0. nextExpected \in Nat
  BY DEF IInv, TypeOK
<1>1. CASE MatchBegins
  BY <1>0, <1>1, OfferedEvent DEF MatchBegins, BeginMatch, Accept
<1>2. CASE DuplicateRejected
  BY <1>0, <1>2, OfferedEvent DEF DuplicateRejected, RejectDuplicateAdd, Accept
<1>3. ASSUME NEW types, "Add" \notin types, NEW e \in Offered(types), Accept(e)
      PROVE  /\ pc = "idle" /\ e \in MarketEvent
             /\ eventLog' = Append(eventLog, e)
             /\ e.payload.type # "Add"
  BY <1>0, <1>3, OfferedEvent DEF Accept
<1>4. CASE CancelRejected \/ CancelMissesBook \/ BookedCancelled
  <2>1. PICK e \in Offered({"Cancel"}) : Accept(e)
    BY <1>4 DEF CancelRejected, RejectCancel, CancelMissesBook,
                CancelNotInBook, BookedCancelled, CancelBooked
  <2> QED
    BY <2>1, <1>3
<1>5. CASE ExecuteRejected \/ OrderExecuted
  <2>1. PICK e \in Offered({"Execute"}) : Accept(e)
    BY <1>5 DEF ExecuteRejected, RejectExecute, OrderExecuted, ExecuteOrder
  <2> QED
    BY <2>1, <1>3
<1>6. CASE DataTaken
  <2>1. PICK e \in Offered({"Trade", "Quote"}) : Accept(e)
    BY <1>6 DEF DataTaken, MarketData
  <2> QED
    BY <2>1, <1>3
<1>7. CASE ~MatchBegins /\ (Refuse \/ Match \/ UNCHANGED vars)
  BY <1>7 DEF Refuse, Match, MatchTrade, AbandonOnExhausted, AbandonHalfDone,
              RestIfNeeded, vars
<1> QED
  BY <1>1, <1>2, <1>4, <1>5, <1>6, <1>7 DEF Step

\* Whatever a step does, arrivals and what was logged stand.
LEMMA HistoryKept ==
  ASSUME IInv, [Step]_vars
  PROVE  /\ eventLog' \in Seq(MarketEvent)
         /\ \A i \in DOMAIN eventLog : /\ i \in DOMAIN eventLog'
                                       /\ eventLog'[i] = eventLog[i]
         /\ \A id : AddsOf(eventLog, id) # {} =>
              /\ AddsOf(eventLog', id) # {}
              /\ ArrivedAt(eventLog', id) = ArrivedAt(eventLog, id)
              /\ eventLog'[ArrivedAt(eventLog, id)] =
                   eventLog[ArrivedAt(eventLog, id)]
<1>1. eventLog \in Seq(MarketEvent)
  BY DEF IInv, TypeOK
<1>2. CASE eventLog' = eventLog
  BY <1>1, <1>2
<1>3. CASE \E e \in MarketEvent : eventLog' = Append(eventLog, e)
  <2>1. PICK e \in MarketEvent : eventLog' = Append(eventLog, e)
    BY <1>3
  <2>2. /\ eventLog' \in Seq(MarketEvent)
        /\ \A i \in DOMAIN eventLog : /\ i \in DOMAIN eventLog'
                                      /\ eventLog'[i] = eventLog[i]
    BY <1>1, <2>1, AppendProperties, LenProperties
  <2>3. ASSUME NEW id, AddsOf(eventLog, id) # {}
        PROVE  /\ AddsOf(eventLog', id) # {}
               /\ ArrivedAt(eventLog', id) = ArrivedAt(eventLog, id)
               /\ eventLog'[ArrivedAt(eventLog, id)] =
                    eventLog[ArrivedAt(eventLog, id)]
    BY <1>1, <2>1, <2>3, ArrivalKept
  <2> QED
    BY <2>2, <2>3
<1> QED
  BY <1>2, <1>3, LogStep

\* The event that begins a match, and what it makes of history and orders.
LEMMA BeginMatchFacts ==
  ASSUME IInv, AddsAreOrders, MatchBegins
  PROVE  \E e \in MarketEvent :
           LET id == e.payload.order_id
           IN  /\ eventLog' = Append(eventLog, e)
               /\ e.payload.type = "Add"
               /\ id \notin DOMAIN orders
               /\ DOMAIN orders' = DOMAIN orders \cup {id}
               /\ \A x \in DOMAIN orders : orders'[x] = orders[x]
               /\ orders'[id].side = e.payload.side
               /\ orders'[id].price = e.payload.price
               /\ orders'[id].quantity = e.payload.quantity
               /\ orders'[id].filled = 0
               /\ orders'[id].state = "New"
               /\ Event' = e /\ incomingId' = id
               /\ AddsOf(eventLog, id) = {}
               /\ AddsOf(eventLog', id) # {}
               /\ ArrivedAt(eventLog', id) = Len(eventLog) + 1
               /\ Len(eventLog') = Len(eventLog) + 1
               /\ eventLog'[Len(eventLog) + 1] = e
               /\ trades' = <<>> /\ executions' = executions
               /\ pc = "idle" /\ pc' = "matching"
<1>1. PICK e \in Offered({"Add"}) :
        /\ Accept(e)
        /\ e.payload.order_id \notin DOMAIN orders
        /\ orders' = Put(orders, e.payload.order_id,
                         NewOrder(e.payload.side, e.payload.price,
                                  e.payload.quantity))
        /\ pc' = "matching"
        /\ trades' = <<>>
        /\ UNCHANGED executions
  BY DEF MatchBegins, BeginMatch
<1> DEFINE id == e.payload.order_id
<1>2. e \in MarketEvent /\ e.payload.type = "Add"
  BY OfferedEvent DEF IInv, TypeOK
<1>3. eventLog' = Append(eventLog, e) /\ pc = "idle"
  BY <1>1 DEF Accept
<1>4. eventLog \in Seq(MarketEvent)
  BY DEF IInv, TypeOK
<1>5. AddsOf(eventLog, id) = {}
  BY <1>1 DEF AddsAreOrders
<1>6. /\ AddsOf(eventLog', id) # {}
      /\ ArrivedAt(eventLog', id) = Len(eventLog) + 1
      /\ eventLog'[Len(eventLog) + 1] = e
  BY <1>2, <1>3, <1>4, <1>5, ArrivalOfNew
<1>7. Len(eventLog') = Len(eventLog) + 1
  BY <1>2, <1>3, <1>4, AppendProperties
<1>8. Event' = e /\ incomingId' = id
  <2>1. Event' = e
    BY <1>6, <1>7 DEF Event, Last
  <2> QED
    BY <2>1 DEF incomingId
<1>9. /\ DOMAIN orders' = DOMAIN orders \cup {id}
      /\ \A x \in DOMAIN orders : orders'[x] = orders[x]
      /\ orders'[id].side = e.payload.side
      /\ orders'[id].price = e.payload.price
      /\ orders'[id].quantity = e.payload.quantity
      /\ orders'[id].filled = 0
      /\ orders'[id].state = "New"
  BY <1>1 DEF Put, NewOrder
<1> QED
  BY <1>1, <1>2, <1>3, <1>5, <1>6, <1>7, <1>8, <1>9

LEMMA ArrivedKeeps ==
  ASSUME IInv, OrdersArrived, AddsAreOrders, [Step]_vars
  PROVE  OrdersArrived' /\ AddsAreOrders'
<1>1. \A id : AddsOf(eventLog, id) # {} =>
        /\ AddsOf(eventLog', id) # {}
        /\ ArrivedAt(eventLog', id) = ArrivedAt(eventLog, id)
        /\ eventLog'[ArrivedAt(eventLog, id)] =
             eventLog[ArrivedAt(eventLog, id)]
  BY HistoryKept
<1>2. ASSUME NEW id \in DOMAIN orders
      PROVE  /\ AddsOf(eventLog', id) # {}
             /\ LET p == eventLog'[ArrivedAt(eventLog', id)].payload
                IN  /\ orders'[id].side = p.side
                    /\ orders'[id].price = p.price
                    /\ orders'[id].quantity = p.quantity
  <2>1. Becomes(orders[id], orders'[id])
    BY OrdersStep
  <2> QED
    BY <2>1, <1>1 DEF OrdersArrived, Becomes
<1>3. CASE MatchBegins
  <2>1. PICK e \in MarketEvent :
          LET id == e.payload.order_id
          IN  /\ eventLog' = Append(eventLog, e)
              /\ DOMAIN orders' = DOMAIN orders \cup {id}
              /\ orders'[id].side = e.payload.side
              /\ orders'[id].price = e.payload.price
              /\ orders'[id].quantity = e.payload.quantity
              /\ AddsOf(eventLog', id) # {}
              /\ ArrivedAt(eventLog', id) = Len(eventLog) + 1
              /\ eventLog'[Len(eventLog) + 1] = e
    BY <1>3, BeginMatchFacts
  <2>2. OrdersArrived'
    BY <2>1, <1>2 DEF OrdersArrived
  <2>3. ASSUME NEW id, id # e.payload.order_id, AddsOf(eventLog', id) # {}
        PROVE  AddsOf(eventLog, id) # {}
    <3>1. eventLog \in Seq(MarketEvent)
      BY DEF IInv, TypeOK
    <3>2. /\ DOMAIN eventLog' = 1 .. Len(eventLog) + 1
          /\ DOMAIN eventLog = 1 .. Len(eventLog)
          /\ Len(eventLog) \in Nat
          /\ \A i \in 1 .. Len(eventLog) : eventLog'[i] = eventLog[i]
          /\ eventLog'[Len(eventLog) + 1] = e
      BY <2>1, <3>1, AppendProperties, LenProperties
    <3>3. PICK i \in AddsOf(eventLog', id) : TRUE
      BY <2>3
    <3>4. i \in 1 .. Len(eventLog)
      BY <3>2, <3>3, <2>3 DEF AddsOf
    <3> QED
      BY <3>2, <3>3, <3>4 DEF AddsOf
  <2>4. AddsAreOrders'
    BY <2>1, <2>3 DEF AddsAreOrders
  <2> QED
    BY <2>2, <2>4
<1>4. CASE ~MatchBegins
  <2>1. DOMAIN orders' = DOMAIN orders
    BY <1>4, OrdersStep
  <2>2. OrdersArrived'
    BY <2>1, <1>2 DEF OrdersArrived
  <2>3. CASE eventLog' = eventLog
    BY <2>1, <2>2, <2>3 DEF AddsAreOrders
  <2>4. CASE \E e \in MarketEvent :
               /\ eventLog' = Append(eventLog, e)
               /\ e.payload.type = "Add" => e.payload.order_id \in DOMAIN orders
    <3>1. PICK e \in MarketEvent :
               /\ eventLog' = Append(eventLog, e)
               /\ e.payload.type = "Add" => e.payload.order_id \in DOMAIN orders
      BY <2>4
    <3>2. eventLog \in Seq(MarketEvent)
      BY DEF IInv, TypeOK
    <3>3. /\ DOMAIN eventLog' = 1 .. Len(eventLog) + 1
          /\ DOMAIN eventLog = 1 .. Len(eventLog)
          /\ Len(eventLog) \in Nat
          /\ \A i \in 1 .. Len(eventLog) : eventLog'[i] = eventLog[i]
          /\ eventLog'[Len(eventLog) + 1] = e
      BY <3>1, <3>2, AppendProperties, LenProperties
    <3>4. ASSUME NEW id, NEW i \in AddsOf(eventLog', id)
          PROVE  id \in DOMAIN orders
      <4>1. CASE i \in 1 .. Len(eventLog)
        BY <4>1, <3>3, <3>4 DEF AddsOf, AddsAreOrders
      <4>2. CASE i = Len(eventLog) + 1
        BY <4>2, <3>1, <3>3, <3>4 DEF AddsOf
      <4> QED
        BY <4>1, <4>2, <3>3, <3>4 DEF AddsOf
    <3> QED
      BY <3>4, <2>1, <2>2 DEF AddsAreOrders
  <2> QED
    BY <2>3, <2>4, <1>4, LogStep
<1> QED
  BY <1>3, <1>4

-----------------------------------------------------------------------------
(***************************************************************************)
(* The other parts of the invariant, step by step.                         *)
(***************************************************************************)
LEMMA BookedIsKnown ==
  ASSUME IInv, NEW s \in DOMAIN books, NEW id \in Booked(s)
  PROVE  id \in DOMAIN orders
BY DEF IInv, BooksGood, GoodBook, BookAgrees, Booked

\* The four things that happen to the trades of a match.
LEMMA TradesStep ==
  ASSUME IInv, [Step]_vars
  PROVE  \/ /\ ~MatchBegins /\ pc' = pc
            /\ trades' = trades /\ executions' = executions
         \/ MatchBegins
         \/ MatchTrade
         \/ pc = "matching" /\ FinishMatch /\ eventLog' = eventLog
<1>1. CASE DuplicateRejected \/ CancelRejected \/ ExecuteRejected \/ DataTaken
           \/ CancelMissesBook \/ BookedCancelled \/ OrderExecuted
  <2>1. /\ pc = "idle" /\ pc' = "idle"
        /\ trades' = trades /\ executions' = executions
    BY <1>1 DEF DuplicateRejected, RejectDuplicateAdd, CancelRejected,
                RejectCancel, ExecuteRejected, RejectExecute, DataTaken,
                MarketData, CancelMissesBook, CancelNotInBook, BookedCancelled,
                CancelBooked, OrderExecuted, ExecuteOrder, Accept, Return
  <2> QED
    BY <2>1
<1>2. CASE Refuse \/ UNCHANGED vars
  <2>1. /\ pc' = pc /\ eventLog' = eventLog
        /\ trades' = trades /\ executions' = executions
    BY <1>2 DEF Refuse, vars
  <2> QED
    BY <2>1
<1>3. CASE AbandonOnExhausted \/ AbandonHalfDone \/ RestIfNeeded
  BY <1>3 DEF AbandonOnExhausted, AbandonHalfDone, RestIfNeeded
<1> QED
  BY <1>1, <1>2, <1>3 DEF Step, Match

\* The event being matched is the last one logged.
LEMMA EventIsLast ==
  ASSUME IInv, pc = "matching"
  PROVE  /\ Len(eventLog) \in Nat
         /\ Len(eventLog) \in DOMAIN eventLog
         /\ Event = eventLog[Len(eventLog)]
         /\ Event \in MarketEvent
<1>1. eventLog \in Seq(MarketEvent) /\ eventLog # <<>>
  BY DEF IInv, TypeOK, MatchUnderWay
<1> QED
  BY <1>1, EmptySeq, LenProperties, MatchFacts DEF Event, Last

LEMMA BookedAtHomeKeeps ==
  ASSUME IInv, HistoryInv, [Step]_vars
  PROVE  BookedAtHome'
<1>1. SUFFICES ASSUME NEW s \in DOMAIN books', NEW x \in DOMAIN books'[s].lookup
               PROVE  eventLog'[ArrivedAt(eventLog', x)].symbol = s
  BY DEF BookedAtHome, Booked
<1>2. CASE s \in DOMAIN books /\ x \in Booked(s)
  <2>1. AddsOf(eventLog, x) # {}
    BY <1>2, BookedIsKnown DEF HistoryInv, OrdersArrived
  <2>2. /\ ArrivedAt(eventLog', x) = ArrivedAt(eventLog, x)
        /\ eventLog'[ArrivedAt(eventLog, x)] = eventLog[ArrivedAt(eventLog, x)]
    BY <2>1, HistoryKept
  <2> QED
    BY <2>2, <1>2 DEF HistoryInv, BookedAtHome
<1>3. CASE RestIfNeeded /\ s = Event.symbol /\ x = incomingId
  <2>1. pc = "matching" /\ eventLog' = eventLog
    BY <1>3 DEF RestIfNeeded
  <2>2. eventLog[ArrivedAt(eventLog, incomingId)] = Event
    BY <2>1, EventIsLast DEF HistoryInv, LatestIsMatched
  <2> QED
    BY <2>1, <2>2, <1>3
<1> QED
  BY <1>1, <1>2, <1>3, BookedStep

LEMMA LatestIsMatchedKeeps ==
  ASSUME IInv, HistoryInv, [Step]_vars
  PROVE  LatestIsMatched'
<1>1. CASE MatchBegins
  <2>1. PICK e \in MarketEvent :
          /\ incomingId' = e.payload.order_id
          /\ ArrivedAt(eventLog', e.payload.order_id) = Len(eventLog) + 1
          /\ Len(eventLog') = Len(eventLog) + 1
    BY <1>1, BeginMatchFacts DEF HistoryInv
  <2> QED
    BY <2>1 DEF LatestIsMatched
<1>2. CASE pc = "matching" /\ eventLog' = eventLog
  BY <1>2 DEF HistoryInv, LatestIsMatched, incomingId, Event
<1>3. CASE pc' # "matching"
  BY <1>3 DEF LatestIsMatched
<1>4. CASE MatchTrade
  <2>1. pc = "matching" /\ eventLog' = eventLog
    BY <1>4 DEF MatchTrade
  <2> QED
    BY <2>1, <1>2
<1>5. CASE FinishMatch
  BY <1>5, <1>3 DEF FinishMatch, Return
<1>6. CASE pc' = pc
  <2>1. pc \in {"idle", "matching"}
    BY DEF IInv, TypeOK
  <2> QED
    BY <2>1, <1>2, <1>3, <1>6, LogStep
<1> QED
  BY <1>1, <1>4, <1>5, <1>6, TradesStep

LEMMA CancelledOutOfBandKeeps ==
  ASSUME IInv, HistoryInv, [Step]_vars
  PROVE  CancelledOutOfBand'
<1>1. SUFFICES ASSUME NEW s \in DOMAIN books', NEW x \in DOMAIN books'[s].lookup,
                      orders'[x].state = "CancelPending"
               PROVE  CancelledElsewhere(eventLog', x, s)
  BY DEF CancelledOutOfBand, Booked
<1>2. CASE RestIfNeeded /\ s = Event.symbol /\ x = incomingId
  <2>1. orders' = orders /\ pc = "matching"
    BY <1>2 DEF RestIfNeeded
  <2>2. incoming.state # "CancelPending"
    BY <2>1, MatchFacts
  <2> QED
    BY <2>1, <2>2, <1>1, <1>2 DEF incoming
<1>3. CASE s \in DOMAIN books /\ x \in Booked(s)
  <2>1. x \in DOMAIN orders
    BY <1>3, BookedIsKnown
  <2>2. CASE orders[x].state = "CancelPending"
    <3>1. CancelledElsewhere(eventLog, x, s)
      BY <2>2, <1>3 DEF HistoryInv, CancelledOutOfBand
    <3> QED
      BY <3>1, HistoryKept DEF CancelledElsewhere
  <2>3. CASE orders[x].state # "CancelPending"
    <3>1. CancelMissesBook \/ BookedCancelled
      BY <2>1, <2>3, <1>1, OrdersStep
    <3>2. PICK e \in Offered({"Cancel"}) :
            /\ Accept(e)
            /\ CanCancel(orders, e.payload.order_id)
            /\ orders' = Cancel(orders, e.payload.order_id)
            /\ e.symbol \in DOMAIN books
            /\ \/ /\ ~CanRemove(books[e.symbol], e.payload.order_id)
                  /\ books' = books
               \/ /\ CanRemove(books[e.symbol], e.payload.order_id)
                  /\ books' = [books EXCEPT ![e.symbol] =
                                 BookRemove(@, e.payload.order_id)]
      BY <3>1 DEF CancelMissesBook, CancelNotInBook, BookedCancelled,
                  CancelBooked
    <3>3. e.payload.type = "Cancel"
      BY OfferedEvent DEF IInv, TypeOK
    <3>4. /\ Len(eventLog) + 1 \in DOMAIN eventLog'
          /\ eventLog'[Len(eventLog) + 1] = e
      BY <3>2, AcceptExtendsLog DEF IInv
    <3>5. x = e.payload.order_id
      <4>1. IsMap(orders, OrderId, Order) /\ e.payload.order_id \in DOMAIN orders
        BY <3>2 DEF IInv, TypeOK, CanCancel
      <4> QED
        BY <4>1, <3>2, <2>1, <2>3, <1>1, CancelTableBecomes
    <3>6. e.symbol # s
      <4>1. CASE ~CanRemove(books[e.symbol], e.payload.order_id)
        BY <4>1, <3>5, <1>3 DEF CanRemove, BookContains, Booked
      <4>2. CASE books' = [books EXCEPT ![e.symbol] =
                             BookRemove(@, e.payload.order_id)]
        <5>1. SUFFICES ASSUME e.symbol = s PROVE FALSE
          OBVIOUS
        <5>2. books'[s] = BookRemove(books[s], x)
          BY <5>1, <4>2, <3>2, <3>5 DEF IInv, TypeOK
        <5>3. GoodBook(books[s], orders) /\ x \in DOMAIN books[s].lookup
          BY <1>3 DEF IInv, BooksGood, Booked
        <5>4. DOMAIN books'[s].lookup = DOMAIN books[s].lookup \ {x}
          BY <5>2, <5>3, BookRemoveGood
        <5> QED
          BY <5>4, <1>1
      <4> QED
        BY <4>1, <4>2, <3>2
    <3> QED
      BY <3>3, <3>4, <3>5, <3>6 DEF CancelledElsewhere
  <2> QED
    BY <2>2, <2>3
<1> QED
  BY <1>1, <1>2, <1>3, BookedStep

\* A log that keeps the arrivals of both orders keeps what a trade owes them.
LEMMA TradeStaysProper ==
  ASSUME NEW log, NEW log2, NEW t, ProperTrade(log, t),
         \A id : AddsOf(log, id) # {} =>
           /\ AddsOf(log2, id) # {}
           /\ ArrivedAt(log2, id) = ArrivedAt(log, id)
           /\ log2[ArrivedAt(log, id)] = log[ArrivedAt(log, id)]
  PROVE  /\ ProperTrade(log2, t)
         /\ ProperExecution(log, t) => ProperExecution(log2, t)
<1>1. /\ AddsOf(log, t.incoming) # {}
      /\ AddsOf(log, t.resting) # {}
  BY DEF ProperTrade
<1>2. /\ AddsOf(log2, t.incoming) # {}
      /\ ArrivedAt(log2, t.incoming) = ArrivedAt(log, t.incoming)
      /\ log2[ArrivedAt(log, t.incoming)] = log[ArrivedAt(log, t.incoming)]
  BY <1>1
<1>3. /\ AddsOf(log2, t.resting) # {}
      /\ ArrivedAt(log2, t.resting) = ArrivedAt(log, t.resting)
      /\ log2[ArrivedAt(log, t.resting)] = log[ArrivedAt(log, t.resting)]
  BY <1>1
<1>4. ProperTrade(log2, t)
  BY <1>2, <1>3 DEF ProperTrade
<1> QED
  BY <1>2, <1>4 DEF ProperExecution

\* A match takes orders from the other side of the book.
LEMMA RestingOnOtherSide ==
  ASSUME IInv, pc = "matching", MayMatch
  PROVE  resting.side # incoming.side
<1>1. GoodBook(book, orders) /\ incoming \in Order
  BY MatchFacts
<1>2. restingId # NoOrder
  BY DEF MayMatch
<1>3. CASE incoming.side = "Buy"
  <2>1. restingId = BestAsk(book)
    BY <1>3 DEF restingId
  <2> QED
    BY <2>1, <1>1, <1>2, <1>3, BestAskProperties DEF resting
<1>4. CASE incoming.side = "Sell"
  <2>1. restingId = BestBid(book)
    BY <1>4 DEF restingId
  <2> QED
    BY <2>1, <1>1, <1>2, <1>4, BestBidProperties DEF resting
<1> QED
  BY <1>1, <1>3, <1>4 DEF Order, Side

\* The order being matched arrived after all others.
LEMMA IncomingIsLatest ==
  ASSUME IInv, HistoryInv, pc = "matching",
         NEW x \in DOMAIN orders, x # incomingId
  PROVE  ArrivedAt(eventLog, x) < ArrivedAt(eventLog, incomingId)
<1>1. AddsOf(eventLog, x) # {} /\ AddsOf(eventLog, incomingId) # {}
  BY MatchFacts DEF HistoryInv, OrdersArrived
<1>2. ArrivedAt(eventLog, incomingId) = Len(eventLog)
  BY DEF HistoryInv, LatestIsMatched
<1>3. eventLog \in Seq(MarketEvent)
  BY DEF IInv, TypeOK
<1>4. /\ ArrivedAt(eventLog, x) \in 1 .. Len(eventLog)
      /\ Len(eventLog) \in Nat
      /\ eventLog[ArrivedAt(eventLog, x)].payload.order_id = x
      /\ eventLog[ArrivedAt(eventLog, incomingId)].payload.order_id = incomingId
  BY <1>1, <1>3, ArrivalProperties, LenProperties
<1> QED
  BY <1>2, <1>4

\* The trade that a turn of the matching loop makes is a proper one.
LEMMA NewTradeIsProper ==
  ASSUME IInv, HistoryInv, MatchTrade
  PROVE  ProperTrade(eventLog,
                     [incoming |-> incomingId, resting |-> restingId,
                      price |-> resting.price, quantity |-> matchQuantity])
<1> DEFINE t == [incoming |-> incomingId, resting |-> restingId,
                 price |-> resting.price, quantity |-> matchQuantity]
<1>1. pc = "matching" /\ MayMatch /\ matchQuantity > 0
  BY MatchTradeFacts
<1>2. /\ Event.symbol \in DOMAIN books
      /\ incomingId \in DOMAIN orders /\ restingId \in DOMAIN orders
      /\ restingId \in Booked(Event.symbol)
      /\ restingId # incomingId
  BY <1>1, MatchFacts
<1>3. /\ AddsOf(eventLog, incomingId) # {}
      /\ AddsOf(eventLog, restingId) # {}
      /\ incoming.side = eventLog[ArrivedAt(eventLog, incomingId)].payload.side
      /\ incoming.price = eventLog[ArrivedAt(eventLog, incomingId)].payload.price
      /\ resting.side = eventLog[ArrivedAt(eventLog, restingId)].payload.side
      /\ resting.price = eventLog[ArrivedAt(eventLog, restingId)].payload.price
  BY <1>2 DEF HistoryInv, OrdersArrived, incoming, resting
<1>4. ArrivedAt(eventLog, incomingId) = Len(eventLog)
  BY <1>1 DEF HistoryInv, LatestIsMatched
<1>5. /\ eventLog[ArrivedAt(eventLog, incomingId)].symbol = Event.symbol
      /\ eventLog[ArrivedAt(eventLog, restingId)].symbol = Event.symbol
  BY <1>1, <1>2, <1>4, EventIsLast DEF HistoryInv, BookedAtHome
<1>6. ArrivedAt(eventLog, restingId) < ArrivedAt(eventLog, incomingId)
  BY <1>1, <1>2, IncomingIsLatest
<1>7. incoming.side # resting.side /\ Crosses(incoming, resting)
  BY <1>1, RestingOnOtherSide DEF MayMatch
<1>8. Crosses(eventLog[ArrivedAt(eventLog, incomingId)].payload,
              eventLog[ArrivedAt(eventLog, restingId)].payload)
  BY <1>3, <1>7 DEF Crosses
<1>9. /\ t.incoming = incomingId /\ t.resting = restingId
      /\ t.price = resting.price /\ t.quantity = matchQuantity
  OBVIOUS
<1> HIDE DEF t
<1>10. ProperTrade(eventLog, t)
  BY <1>1, <1>2, <1>3, <1>5, <1>6, <1>7, <1>8, <1>9 DEF ProperTrade
<1> QED
  BY <1>10 DEF t

LEMMA TradesInHandKeeps ==
  ASSUME IInv, HistoryInv, [Step]_vars
  PROVE  TradesInHand'
<1>1. \A id : AddsOf(eventLog, id) # {} =>
        /\ AddsOf(eventLog', id) # {}
        /\ ArrivedAt(eventLog', id) = ArrivedAt(eventLog, id)
        /\ eventLog'[ArrivedAt(eventLog, id)] =
             eventLog[ArrivedAt(eventLog, id)]
  BY HistoryKept
<1>2. pc \in {"idle", "matching"} /\ trades \in Seq(TradeRecord)
  BY DEF IInv, TypeOK
<1>3. CASE trades' = <<>>
  BY <1>3 DEF TradesInHand
<1>4. CASE pc' = pc /\ trades' = trades /\ ~MatchBegins
  <2>1. CASE pc = "idle"
    BY <2>1, <1>3, <1>4 DEF HistoryInv, TradesInHand
  <2>2. CASE pc = "matching"
    <3>1. eventLog' = eventLog
      BY <2>2, LogStep
    <3>2. incomingId' = incomingId
      BY <3>1 DEF incomingId, Event
    <3> QED
      BY <3>1, <3>2, <2>2, <1>4 DEF HistoryInv, TradesInHand
  <2> QED
    BY <2>1, <2>2, <1>2
<1>5. CASE MatchTrade
  <2> DEFINE t == [incoming |-> incomingId, resting |-> restingId,
                   price |-> resting.price, quantity |-> matchQuantity]
  <2>1. /\ pc = "matching" /\ pc' = pc /\ eventLog' = eventLog
        /\ trades' = Append(trades, t)
    BY <1>5 DEF MatchTrade, TradePrice
  <2>2. ProperTrade(eventLog, t) /\ t.incoming = incomingId
    BY <1>5, NewTradeIsProper
  <2> HIDE DEF t
  <2>3. incomingId' = incomingId
    BY <2>1 DEF incomingId, Event
  <2>4. /\ DOMAIN trades = 1 .. Len(trades) /\ Len(trades) \in Nat
        /\ DOMAIN trades' = 1 .. Len(trades) + 1
        /\ trades'[Len(trades) + 1] = t
        /\ \A i \in 1 .. Len(trades) : trades'[i] = trades[i]
    <3>1. trades' \in Seq(TradeRecord) /\ Len(trades') = Len(trades) + 1
      <4>1. trades' \in Seq(TradeRecord)
        BY <1>5, MatchTradeKeeps DEF IInv, TypeOK
      <4> QED
        BY <4>1, <1>2, <2>1, LenProperties
    <3> QED
      BY <3>1, <1>2, <2>1, LenProperties
  <2>5. ASSUME NEW i \in DOMAIN trades'
        PROVE  /\ trades'[i].incoming = incomingId
               /\ ProperTrade(eventLog, trades'[i])
    <3>1. CASE i = Len(trades) + 1
      BY <3>1, <2>2, <2>4
    <3>2. CASE i # Len(trades) + 1
      <4>1. i \in DOMAIN trades /\ trades'[i] = trades[i]
        BY <3>2, <2>4
      <4> QED
        BY <4>1 DEF HistoryInv, TradesInHand
    <3> QED
      BY <3>1, <3>2
  <2> QED
    BY <2>1, <2>3, <2>5 DEF TradesInHand
<1> QED
  BY <1>3, <1>4, <1>5, TradesStep, BeginMatchFacts DEF FinishMatch, HistoryInv

\* The executions of a match that is over, as a part of all executions.
LEMMA FinishedExecutions ==
  ASSUME IInv, pc = "matching", FinishMatch
  PROVE  /\ Len(executions) \in Nat /\ Len(trades) \in Nat
         /\ DOMAIN executions = 1 .. Len(executions)
         /\ DOMAIN trades = 1 .. Len(trades)
         /\ DOMAIN executions' = 1 .. Len(executions) + Len(trades)
         /\ \A i \in 1 .. Len(executions) : executions'[i] = executions[i]
         /\ \A i \in 1 .. Len(trades) :
              executions'[Len(executions) + i] = Recorded(trades)[i]
<1>1. /\ executions \in Seq(ExecutionRecord) /\ trades \in Seq(TradeRecord)
      /\ Recorded(trades) \in Seq(ExecutionRecord)
  BY RecordedGood, MatchFacts DEF IInv, TypeOK
<1>2. /\ DOMAIN trades = 1 .. Len(trades) /\ Len(trades) \in Nat
      /\ DOMAIN executions = 1 .. Len(executions) /\ Len(executions) \in Nat
  BY <1>1, LenProperties
<1>3. DOMAIN Recorded(trades) = DOMAIN trades
  BY DEF Recorded
<1>4. Len(Recorded(trades)) = Len(trades)
  BY <1>1, <1>2, <1>3, LenProperties
<1> DEFINE r == Recorded(trades)
<1>5. r \in Seq(ExecutionRecord) /\ Len(r) = Len(trades)
  BY <1>1, <1>4
<1>6. executions' = executions \o r
  BY DEF FinishMatch
<1> HIDE DEF r
<1>7. /\ executions' \in Seq(ExecutionRecord)
      /\ Len(executions') = Len(executions) + Len(r)
      /\ \A i \in 1 .. Len(executions) + Len(r) :
           executions'[i] = IF i <= Len(executions) THEN executions[i]
                            ELSE r[i - Len(executions)]
  BY <1>1, <1>5, <1>6, ConcatProperties
<1>8. DOMAIN executions' = 1 .. Len(executions) + Len(trades)
  BY <1>5, <1>7, LenProperties
<1>9. \A i \in 1 .. Len(executions) : executions'[i] = executions[i]
  BY <1>2, <1>5, <1>7
<1>10. \A i \in 1 .. Len(trades) : executions'[Len(executions) + i] = r[i]
  BY <1>2, <1>5, <1>7
<1> QED
  BY <1>2, <1>8, <1>9, <1>10 DEF r

\* The record of a proper trade of the event under way.
LEMMA RecordIsProper ==
  ASSUME IInv, HistoryInv, pc = "matching", NEW i \in DOMAIN trades
  PROVE  /\ Recorded(trades)[i].incoming = incomingId
         /\ Recorded(trades)[i].resting = trades[i].resting
         /\ Recorded(trades)[i].quantity = trades[i].quantity
         /\ ProperExecution(eventLog, Recorded(trades)[i])
<1> DEFINE x == Recorded(trades)[i]
<1>1. /\ x.event_id = Event.event_id /\ x.timestamp = Event.timestamp
      /\ x.symbol = Event.symbol
      /\ x.incoming = trades[i].incoming /\ x.resting = trades[i].resting
      /\ x.price = trades[i].price /\ x.quantity = trades[i].quantity
  BY DEF Recorded
<1>2. trades[i].incoming = incomingId /\ ProperTrade(eventLog, trades[i])
  BY DEF HistoryInv, TradesInHand
<1>3. eventLog[ArrivedAt(eventLog, incomingId)] = Event
  BY EventIsLast DEF HistoryInv, LatestIsMatched
<1> HIDE DEF x
<1>4. ProperTrade(eventLog, x)
  BY <1>1, <1>2 DEF ProperTrade
<1>5. ProperExecution(eventLog, x)
  BY <1>1, <1>2, <1>3, <1>4 DEF ProperExecution
<1> QED
  BY <1>1, <1>2, <1>5 DEF x

LEMMA ExecutionsKeep ==
  ASSUME IInv, HistoryInv, [Step]_vars
  PROVE  ExecutionsProper' /\ ExecutionsInOrder'
<1>1. \A id : AddsOf(eventLog, id) # {} =>
        /\ AddsOf(eventLog', id) # {}
        /\ ArrivedAt(eventLog', id) = ArrivedAt(eventLog, id)
        /\ eventLog'[ArrivedAt(eventLog, id)] =
             eventLog[ArrivedAt(eventLog, id)]
  BY HistoryKept
<1>2. ASSUME NEW i \in DOMAIN executions
      PROVE  /\ ProperExecution(eventLog', executions[i])
             /\ ArrivedAt(eventLog', executions[i].incoming) =
                  ArrivedAt(eventLog, executions[i].incoming)
  <2>1. ProperExecution(eventLog, executions[i])
    BY DEF HistoryInv, ExecutionsProper
  <2>2. ProperTrade(eventLog, executions[i])
    BY <2>1 DEF ProperExecution
  <2>3. AddsOf(eventLog, executions[i].incoming) # {}
    BY <2>2 DEF ProperTrade
  <2> QED
    BY <1>1, <2>1, <2>2, <2>3, TradeStaysProper
<1>3. CASE executions' = executions
  BY <1>2, <1>3 DEF HistoryInv, ExecutionsProper, ExecutionsInOrder
<1>4. CASE pc = "matching" /\ FinishMatch /\ eventLog' = eventLog
  <2> DEFINE n == Len(executions)
             m == Len(trades)
  <2>1. /\ n \in Nat /\ m \in Nat
        /\ DOMAIN executions = 1 .. n
        /\ DOMAIN trades = 1 .. m
        /\ DOMAIN executions' = 1 .. n + m
        /\ \A i \in 1 .. n : executions'[i] = executions[i]
        /\ \A i \in 1 .. m : executions'[n + i] = Recorded(trades)[i]
    BY <1>4, FinishedExecutions
  <2>2. ASSUME NEW i \in 1 .. m
        PROVE  /\ Recorded(trades)[i].incoming = incomingId
               /\ ProperExecution(eventLog, Recorded(trades)[i])
    BY <2>1, <2>2, <1>4, RecordIsProper
  <2>3. ArrivedAt(eventLog, incomingId) = Len(eventLog)
        /\ Len(eventLog) \in Nat
    BY <1>4, EventIsLast DEF HistoryInv, LatestIsMatched
  <2>4. ASSUME NEW i \in DOMAIN executions
        PROVE  ArrivedAt(eventLog, executions[i].incoming) <= Len(eventLog)
    <3>1. AddsOf(eventLog, executions[i].incoming) # {}
      BY DEF HistoryInv, ExecutionsProper, ProperExecution, ProperTrade
    <3>2. eventLog \in Seq(MarketEvent)
      BY DEF IInv, TypeOK
    <3> QED
      BY <3>1, <3>2, <2>3, ArrivalProperties
  <2> HIDE DEF n, m
  <2>5. ASSUME NEW i \in 1 .. n + m
        PROVE  \/ i \in 1 .. n
               \/ i > n /\ i - n \in 1 .. m /\ i = n + (i - n)
    BY <2>1
  <2>6. ASSUME NEW i \in DOMAIN executions'
        PROVE  ProperExecution(eventLog, executions'[i])
    <3>1. CASE i \in 1 .. n
      BY <3>1, <2>1 DEF HistoryInv, ExecutionsProper
    <3>2. CASE i > n /\ i - n \in 1 .. m /\ i = n + (i - n)
      BY <3>2, <2>1, <2>2
    <3> QED
      BY <3>1, <3>2, <2>1, <2>5
  <2>7. ASSUME NEW i \in DOMAIN executions', NEW j \in DOMAIN executions', i < j
        PROVE  ArrivedAt(eventLog, executions'[i].incoming)
                 <= ArrivedAt(eventLog, executions'[j].incoming)
    <3>1. CASE j \in 1 .. n
      <4>1. i \in 1 .. n
        BY <3>1, <2>1, <2>7
      <4> QED
        BY <4>1, <3>1, <2>1, <2>7 DEF HistoryInv, ExecutionsInOrder
    <3>2. CASE j > n /\ j - n \in 1 .. m /\ j = n + (j - n)
      <4>1. ArrivedAt(eventLog, executions'[j].incoming) = Len(eventLog)
        BY <3>2, <2>1, <2>2, <2>3
      <4>2. ArrivedAt(eventLog, executions'[i].incoming) <= Len(eventLog)
        <5>1. CASE i \in 1 .. n
          BY <5>1, <2>1, <2>4
        <5>2. CASE i > n /\ i - n \in 1 .. m /\ i = n + (i - n)
          BY <5>2, <2>1, <2>2, <2>3
        <5> QED
          BY <5>1, <5>2, <2>1, <2>5
      <4> QED
        BY <4>1, <4>2
    <3> QED
      BY <3>1, <3>2, <2>1, <2>5
  <2> QED
    BY <2>6, <2>7, <1>4 DEF ExecutionsProper, ExecutionsInOrder
<1>5. CASE MatchBegins \/ MatchTrade
  BY <1>3, <1>5 DEF MatchBegins, BeginMatch, MatchTrade
<1> QED
  BY <1>3, <1>4, <1>5, TradesStep

LEMMA HistoryStepKeeps ==
  ASSUME IInv, HistoryInv, [Step]_vars
  PROVE  HistoryInv'
<1>1. OrdersArrived' /\ AddsAreOrders'
  BY ArrivedKeeps DEF HistoryInv
<1>2. /\ BookedAtHome' /\ LatestIsMatched' /\ CancelledOutOfBand'
      /\ TradesInHand' /\ ExecutionsProper' /\ ExecutionsInOrder'
  BY BookedAtHomeKeeps, LatestIsMatchedKeeps, CancelledOutOfBandKeeps,
     TradesInHandKeeps, ExecutionsKeep
<1> QED
  BY <1>1, <1>2 DEF HistoryInv

LEMMA HistoryInit == ASSUME Init PROVE HistoryInv
<1>1. DOMAIN NoEntries = {} /\ DOMAIN <<>> = {}
  BY DEF NoEntries
<1>2. \A id : AddsOf(<<>>, id) = {}
  BY <1>1 DEF AddsOf
<1> QED
  BY <1>1, <1>2
     DEF Init, HistoryInv, OrdersArrived, AddsAreOrders, BookedAtHome,
         LatestIsMatched, CancelledOutOfBand, TradesInHand, ExecutionsProper,
         ExecutionsInOrder

LEMMA RunHistory == Run => []HistoryInv
<1>1. Init => HistoryInv
  BY HistoryInit
<1>2. IInv /\ HistoryInv /\ [Step]_vars => HistoryInv'
  BY HistoryStepKeeps
<1> QED
  BY <1>1, <1>2, RunInvariant, PTL DEF Run

\* The state of the engine derives from its log as HistoryInv says, always.
THEOREM HistoryInvariant == Spec => []HistoryInv
BY SpecIsRun, RunHistory, PTL

\* Every execution that process records can be traced to two orders of one
\* symbol and opposite sides, the resting one there first, at its limit.
THEOREM ExecutionsAreTraceable == Spec => []ExecutionsTraceable
<1>1. ASSUME IInv, HistoryInv PROVE ExecutionsTraceable
  <2>1. SUFFICES ASSUME NEW i \in DOMAIN executions
        PROVE LET x == executions[i]
                  cause == eventLog[ArrivedAt(eventLog, x.incoming)]
                  rest == eventLog[ArrivedAt(eventLog, x.resting)]
              IN  /\ x.event_id = cause.event_id
                  /\ x.timestamp = cause.timestamp
                  /\ x.symbol = cause.symbol
                  /\ x.symbol = rest.symbol
                  /\ cause.payload.side # rest.payload.side
                  /\ ArrivedAt(eventLog, x.resting)
                       < ArrivedAt(eventLog, x.incoming)
                  /\ x.price = rest.payload.price
                  /\ Crosses(cause.payload, rest.payload)
                  /\ x.quantity > 0
                  /\ \A j \in 1 .. i - 1 :
                       ArrivedAt(eventLog, executions[j].incoming)
                         <= ArrivedAt(eventLog, x.incoming)
    BY ArrivalIsArrivedAt DEF ExecutionsTraceable
  <2>2. ProperExecution(eventLog, executions[i])
        /\ ProperTrade(eventLog, executions[i])
    BY <1>1 DEF HistoryInv, ExecutionsProper, ProperExecution
  <2>3. \A j \in 1 .. i - 1 : j \in DOMAIN executions /\ j < i
    BY <1>1, LenProperties DEF IInv, TypeOK
  <2>4. \A j \in 1 .. i - 1 : ArrivedAt(eventLog, executions[j].incoming)
                         <= ArrivedAt(eventLog, executions[i].incoming)
    BY <1>1, <2>3 DEF HistoryInv, ExecutionsInOrder
  <2> QED
    BY <2>2, <2>4 DEF ProperExecution, ProperTrade
<1> QED
  BY <1>1, InductiveInvariant, HistoryInvariant, PTL

-----------------------------------------------------------------------------
(***************************************************************************)
(* Orders with quantity left to trade.                                     *)
(***************************************************************************)

\* TouchedOutOfBand, as a function of a log.
TouchedIn(log, id, s) ==
  \E i \in DOMAIN log :
     /\ log[i].payload.order_id = id
     /\ \/ log[i].payload.type = "Execute"
        \/ log[i].payload.type = "Cancel" /\ log[i].symbol # s

\* The order rests at home, or another one of its book was touched.
RestsOrExcused(log, ords, bks, id) ==
  LET home == log[ArrivedAt(log, id)].symbol
  IN  \/ home \in DOMAIN bks /\ id \in DOMAIN bks[home].lookup
      \/ \E other \in DOMAIN ords :
           /\ other # id
           /\ log[ArrivedAt(log, other)].symbol = home
           /\ TouchedIn(log, other, home)

LiveRest ==
  \A id \in DOMAIN orders \ BeingMatched :
    Executable(orders[id]) => RestsOrExcused(eventLog, orders, books, id)

LEMMA LiveRestIsLiveOrdersRest == LiveRest => LiveOrdersRest
<1>1. \A id : Home(id) = eventLog[ArrivedAt(eventLog, id)].symbol
  BY ArrivalIsArrivedAt
<1>2. \A id, s : TouchedIn(eventLog, id, s) => TouchedOutOfBand(id, s)
  BY DEF TouchedIn, TouchedOutOfBand, Logged
<1> QED
  BY <1>1, <1>2 DEF LiveRest, LiveOrdersRest, RestsOrExcused, Booked

\* A match that gives up without resting the incoming order has met an order
\* of its book that was touched out of band.
LEMMA GivingUpIsExcused ==
  ASSUME IInv, HistoryInv, AbandonOnExhausted \/ AbandonHalfDone
  PROVE  \E other \in DOMAIN orders :
           /\ other # incomingId
           /\ eventLog[ArrivedAt(eventLog, other)].symbol = Event.symbol
           /\ TouchedIn(eventLog, other, Event.symbol)
<1>1. pc = "matching" /\ MayMatch
  BY DEF AbandonOnExhausted, AbandonHalfDone
<1>2. /\ Event.symbol \in DOMAIN books
      /\ restingId \in Booked(Event.symbol)
      /\ restingId \in DOMAIN orders
      /\ restingId # incomingId
      /\ resting \in Order
  BY <1>1, MatchFacts
<1>3. ~Executable(resting)
  <2>1. CASE AbandonOnExhausted
    BY <2>1, <1>2 DEF AbandonOnExhausted, Executable, Order
  <2>2. CASE AbandonHalfDone
    BY <2>2, HalfDoneFacts DEF Executable
  <2> QED
    BY <2>1, <2>2
<1>4. TouchedOutOfBand(restingId, Event.symbol)
  BY <1>2, <1>3 DEF IInv, StaleOnlyOutOfBand, resting
<1>5. TouchedIn(eventLog, restingId, Event.symbol)
  BY <1>4 DEF TouchedOutOfBand, Logged, TouchedIn
<1>6. eventLog[ArrivedAt(eventLog, restingId)].symbol = Event.symbol
  BY <1>2 DEF HistoryInv, BookedAtHome
<1> QED
  BY <1>2, <1>5, <1>6

LEMMA LiveRestKeeps ==
  ASSUME IInv, HistoryInv, LiveRest, [Step]_vars
  PROVE  LiveRest'
<1>1. /\ \A i \in DOMAIN eventLog : /\ i \in DOMAIN eventLog'
                                    /\ eventLog'[i] = eventLog[i]
      /\ \A id : AddsOf(eventLog, id) # {} =>
           /\ AddsOf(eventLog', id) # {}
           /\ ArrivedAt(eventLog', id) = ArrivedAt(eventLog, id)
           /\ eventLog'[ArrivedAt(eventLog, id)] =
                eventLog[ArrivedAt(eventLog, id)]
  BY HistoryKept
<1>2. SUFFICES ASSUME NEW id \in DOMAIN orders', id \notin BeingMatched',
                      Executable(orders'[id])
               PROVE  RestsOrExcused(eventLog', orders', books', id)
  BY DEF LiveRest
<1>3. DOMAIN orders \subseteq DOMAIN orders'
  BY OrdersStep
<1>4. id \in DOMAIN orders
  <2>1. CASE MatchBegins
    <3>1. PICK e \in MarketEvent :
            /\ DOMAIN orders' = DOMAIN orders \cup {e.payload.order_id}
            /\ incomingId' = e.payload.order_id
            /\ pc' = "matching"
      BY <2>1, BeginMatchFacts DEF HistoryInv
    <3> QED
      BY <3>1, <1>2 DEF BeingMatched
  <2>2. CASE ~MatchBegins
    BY <2>2, OrdersStep
  <2> QED
    BY <2>1, <2>2
<1>5. \A x \in DOMAIN orders :
        /\ ArrivedAt(eventLog', x) = ArrivedAt(eventLog, x)
        /\ eventLog'[ArrivedAt(eventLog', x)] =
             eventLog[ArrivedAt(eventLog, x)]
  BY <1>1 DEF HistoryInv, OrdersArrived
<1> DEFINE home == eventLog[ArrivedAt(eventLog, id)].symbol
<1>6. eventLog'[ArrivedAt(eventLog', id)].symbol = home
  BY <1>4, <1>5
<1> HIDE DEF home
<1>7. ASSUME NEW other \in DOMAIN orders, other # id,
             eventLog[ArrivedAt(eventLog, other)].symbol = home,
             TouchedIn(eventLog, other, home)
      PROVE  RestsOrExcused(eventLog', orders', books', id)
  <2>1. TouchedIn(eventLog', other, home)
    BY <1>1, <1>7 DEF TouchedIn
  <2>2. eventLog'[ArrivedAt(eventLog', other)].symbol = home
    BY <1>5, <1>7
  <2> QED
    BY <2>1, <2>2, <1>3, <1>6, <1>7 DEF RestsOrExcused
<1>8. ASSUME home \in DOMAIN books', id \in DOMAIN books'[home].lookup
      PROVE  RestsOrExcused(eventLog', orders', books', id)
  BY <1>6, <1>8 DEF RestsOrExcused
<1>9. CASE id \notin BeingMatched
  <2>1. Becomes(orders[id], orders'[id])
    BY <1>4, OrdersStep
  <2>2. RestsOrExcused(eventLog, orders, books, id)
    BY <2>1, <1>2, <1>4, <1>9 DEF Becomes, LiveRest
  <2>3. CASE home \in DOMAIN books /\ id \in DOMAIN books[home].lookup
    <3>1. home \in DOMAIN books'
      BY <2>3, BooksMove
    <3>2. id \in DOMAIN books'[home].lookup
      BY <2>3, <1>2, BookedStep DEF Booked
    <3> QED
      BY <3>1, <3>2, <1>8
  <2> QED
    BY <2>2, <2>3, <1>7 DEF RestsOrExcused, home
<1>10. CASE id \in BeingMatched
  <2>1. pc = "matching" /\ id = incomingId
    BY <1>10 DEF BeingMatched
  <2>2. eventLog' = eventLog
    BY <2>1, LogStep
  <2>3. incomingId' = incomingId
    BY <2>2 DEF incomingId, Event
  <2>4. pc' # "matching"
    BY <2>1, <2>3, <1>2 DEF BeingMatched
  <2>5. home = Event.symbol
    BY <2>1, EventIsLast DEF HistoryInv, LatestIsMatched, home
  <2>6. CASE AbandonOnExhausted \/ AbandonHalfDone
    BY <2>1, <2>5, <2>6, <1>7, GivingUpIsExcused
  <2>7. CASE RestIfNeeded
    <3>1. orders' = orders
      BY <2>7 DEF RestIfNeeded
    <3>2. /\ incoming.remaining > 0
          /\ incoming.state \in {"New", "PartiallyFilled"}
      BY <3>1, <2>1, <1>2 DEF Executable, incoming
    <3>3. Event.symbol \in DOMAIN books /\ incomingId \notin Booked(Event.symbol)
      BY <2>1, MatchFacts
    <3>4. CanAdd(book, incomingId, incoming)
      BY <3>2, <3>3 DEF CanAdd, BookContains, Booked, book
    <3>5. books' = [books EXCEPT ![Event.symbol] =
                                   BookAdd(@, incomingId, incoming)]
      BY <3>2, <3>4, <2>7 DEF RestIfNeeded
    <3>6. /\ Event.symbol \in DOMAIN books'
          /\ books'[Event.symbol] =
               BookAdd(books[Event.symbol], incomingId, incoming)
      BY <3>3, <3>5 DEF IInv, TypeOK
    <3>7. incomingId \in DOMAIN books'[Event.symbol].lookup
      BY <3>6 DEF BookAdd, Put
    <3> QED
      BY <3>6, <3>7, <2>1, <2>5, <1>8
  <2>8. AbandonOnExhausted \/ AbandonHalfDone \/ RestIfNeeded
    <3>1. CASE MatchTrade
      BY <3>1, <2>1, <2>4 DEF MatchTrade
    <3>2. CASE UNCHANGED vars
      BY <3>2, <2>1, <2>4 DEF vars
    <3>3. CASE Step /\ ~Match
      BY <3>3, <2>1 DEF Step, Refuse, DuplicateRejected, RejectDuplicateAdd,
                        MatchBegins, BeginMatch, CancelRejected, RejectCancel,
                        CancelMissesBook, CancelNotInBook, BookedCancelled,
                        CancelBooked, ExecuteRejected, RejectExecute,
                        OrderExecuted, ExecuteOrder, DataTaken, MarketData,
                        Accept
    <3> QED
      BY <3>1, <3>2, <3>3 DEF Match
  <2> QED
    BY <2>6, <2>7, <2>8
<1> QED
  BY <1>9, <1>10

\* An order that can still trade is in its own symbol's book, or a match gave
\* up on it because of another order that was touched out of band.
THEOREM LiveOrdersStayBooked == Spec => []LiveOrdersRest
<1>1. Init => LiveRest
  <2>1. DOMAIN NoEntries = {}
    BY DEF NoEntries
  <2> QED
    BY <2>1 DEF Init, LiveRest
<1>2. IInv /\ HistoryInv /\ LiveRest /\ [Step]_vars => LiveRest'
  BY LiveRestKeeps
<1>3. Spec => []LiveRest
  BY <1>1, <1>2, SpecIsRun, InductiveInvariant, HistoryInvariant, PTL DEF Run
<1> QED
  BY <1>3, LiveRestIsLiveOrdersRest, PTL

-----------------------------------------------------------------------------
(***************************************************************************)
(* Queues.                                                                 *)
(***************************************************************************)
InOrder(queue, log) ==
  \A i, j \in DOMAIN queue :
    i < j => ArrivedAt(log, queue[i]) < ArrivedAt(log, queue[j])

LevelsInOrder(levels, log) == \A p \in DOMAIN levels : InOrder(levels[p], log)

BookInOrder(b, log) == LevelsInOrder(b.bids, log) /\ LevelsInOrder(b.asks, log)

BooksInOrder == \A s \in DOMAIN books : BookInOrder(books[s], eventLog)

LEMMA RemovedInOrder ==
  ASSUME NEW queue \in Seq(OrderId), NEW log, NEW k \in 1 .. Len(queue),
         InOrder(queue, log)
  PROVE  InOrder(RemoveAt(queue, k), log)
<1> DEFINE rest == RemoveAt(queue, k)
<1>1. /\ rest \in Seq(OrderId)
      /\ Len(rest) = Len(queue) - 1
      /\ \A j \in 1 .. Len(queue) - 1 :
            rest[j] = IF j < k THEN queue[j] ELSE queue[j + 1]
  BY RemoveAtProperties
<1>2. /\ Len(queue) \in Nat /\ DOMAIN queue = 1 .. Len(queue)
      /\ DOMAIN rest = 1 .. Len(queue) - 1
  BY <1>1, LenProperties
<1> HIDE DEF rest
<1> DEFINE old(j) == IF j < k THEN j ELSE j + 1
<1>3. \A j \in 1 .. Len(queue) - 1 :
        old(j) \in DOMAIN queue /\ rest[j] = queue[old(j)]
  BY <1>1, <1>2
<1>4. \A i, j \in 1 .. Len(queue) - 1 : i < j => old(i) < old(j)
  BY <1>2
<1> HIDE DEF old
<1>5. InOrder(rest, log)
  BY <1>2, <1>3, <1>4 DEF InOrder
<1> QED
  BY <1>5 DEF rest

LEMMA ErasedInOrder ==
  ASSUME NEW levels, IsLevels(levels), NEW log, LevelsInOrder(levels, log),
         NEW p \in DOMAIN levels, NEW id,
         \E i \in DOMAIN levels[p] : levels[p][i] = id
  PROVE  LevelsInOrder(Erase(levels, p, id), log)
<1> DEFINE queue == levels[p]
           k == PositionOf(queue, id)
           rest == RemoveAt(queue, k)
<1>1. queue \in Seq(OrderId)
  BY DEF IsLevels, IsMap
<1>2. k \in DOMAIN queue
  BY DEF PositionOf
<1>3. InOrder(rest, log)
  <2>1. InOrder(queue, log)
    BY DEF LevelsInOrder
  <2>2. k \in 1 .. Len(queue)
    BY <1>1, <1>2, LenProperties
  <2> HIDE DEF k, queue
  <2> QED
    BY <1>1, <2>1, <2>2, RemovedInOrder
<1>4. Erase(levels, p, id) = IF rest = <<>>
                             THEN Restrict(levels, DOMAIN levels \ {p})
                             ELSE [levels EXCEPT ![p] = rest]
  BY DEF Erase
<1> HIDE DEF rest
<1>5. CASE rest = <<>>
  BY <1>4, <1>5 DEF LevelsInOrder, Restrict
<1>6. CASE rest # <<>>
  <2>1. Erase(levels, p, id) = [levels EXCEPT ![p] = rest]
    BY <1>4, <1>6
  <2>2. levels = [q \in DOMAIN levels |-> levels[q]]
    BY DEF IsLevels, IsMap
  <2> QED
    BY <2>1, <2>2, <1>3 DEF LevelsInOrder
<1> QED
  BY <1>5, <1>6

\* remove leaves what it does not take in order.
LEMMA RemoveInOrder ==
  ASSUME NEW b, NEW ords, GoodBook(b, ords), NEW log, BookInOrder(b, log),
         NEW id \in DOMAIN b.lookup
  PROVE  BookInOrder(BookRemove(b, id), log)
<1> DEFINE location == b.lookup[id]
<1>1. /\ IsLevels(b.bids) /\ IsLevels(b.asks)
      /\ location.side \in Side
  BY DEF GoodBook, IsBook, IsLevels, IsMap, Location
<1>2. LevelsInOrder(b.bids, log) /\ LevelsInOrder(b.asks, log)
  BY DEF BookInOrder
<1>3. CASE location.side = "Buy"
  <2>1. /\ location.price \in DOMAIN b.bids
        /\ \E i \in DOMAIN b.bids[location.price] :
              b.bids[location.price][i] = id
    BY <1>3 DEF GoodBook, BookAgrees, SideAgrees
  <2>2. LevelsInOrder(Erase(b.bids, location.price, id), log)
    BY <2>1, <1>1, <1>2, ErasedInOrder
  <2> QED
    BY <2>2, <1>2, <1>3 DEF BookInOrder, BookRemove
<1>4. CASE location.side = "Sell"
  <2>1. /\ location.price \in DOMAIN b.asks
        /\ \E i \in DOMAIN b.asks[location.price] :
              b.asks[location.price][i] = id
    BY <1>4 DEF GoodBook, BookAgrees, SideAgrees
  <2>2. LevelsInOrder(Erase(b.asks, location.price, id), log)
    BY <2>1, <1>1, <1>2, ErasedInOrder
  <2> QED
    BY <2>2, <1>2, <1>4 DEF BookInOrder, BookRemove
<1> QED
  BY <1>1, <1>3, <1>4 DEF Side

LEMMA PushedInOrder ==
  ASSUME NEW levels, IsLevels(levels), NEW log, LevelsInOrder(levels, log),
         NEW p \in Int, NEW id \in OrderId,
         \A i \in DOMAIN QueueAt(levels, p) :
            ArrivedAt(log, QueueAt(levels, p)[i]) < ArrivedAt(log, id)
  PROVE  LevelsInOrder(PushBack(levels, p, id), log)
<1> DEFINE old == QueueAt(levels, p)
           new == Append(old, id)
<1>1. /\ old \in Seq(OrderId) /\ new \in Seq(OrderId)
      /\ Len(new) = Len(old) + 1
      /\ new[Len(old) + 1] = id
      /\ \A i \in 1 .. Len(old) : new[i] = old[i]
  BY PushBackQueue
<1>2. InOrder(old, log)
  BY DEF QueueAt, LevelsInOrder, InOrder
<1>3. /\ Len(old) \in Nat /\ DOMAIN old = 1 .. Len(old)
      /\ DOMAIN new = 1 .. Len(old) + 1
  BY <1>1, LenProperties
<1>4. \A i \in DOMAIN old : ArrivedAt(log, old[i]) < ArrivedAt(log, id)
  OBVIOUS
<1>5. PushBack(levels, p, id) = Put(levels, p, new)
  BY DEF PushBack
<1> HIDE DEF old, new
<1>6. ASSUME NEW i \in DOMAIN new, NEW j \in DOMAIN new, i < j
      PROVE  ArrivedAt(log, new[i]) < ArrivedAt(log, new[j])
  <2>1. i \in DOMAIN old /\ new[i] = old[i]
    BY <1>1, <1>3, <1>6
  <2>2. CASE j = Len(old) + 1
    BY <2>1, <2>2, <1>1, <1>4
  <2>3. CASE j # Len(old) + 1
    <3>1. j \in DOMAIN old /\ new[j] = old[j]
      BY <2>3, <1>1, <1>3
    <3> QED
      BY <3>1, <2>1, <1>2, <1>6 DEF InOrder
  <2> QED
    BY <2>2, <2>3
<1>7. InOrder(new, log)
  BY <1>6 DEF InOrder
<1> QED
  BY <1>5, <1>7 DEF LevelsInOrder, Put

\* add keeps the order when the new id arrived after all that the book holds.
LEMMA AddInOrder ==
  ASSUME NEW b, NEW ords, IsMap(ords, OrderId, Order), NEW id \in DOMAIN ords,
         GoodBook(b, ords), NEW log, BookInOrder(b, log),
         \A x \in DOMAIN b.lookup : ArrivedAt(log, x) < ArrivedAt(log, id)
  PROVE  BookInOrder(BookAdd(b, id, ords[id]), log)
<1> DEFINE p == ords[id].price
<1>1. /\ IsLevels(b.bids) /\ IsLevels(b.asks)
      /\ id \in OrderId /\ p \in Int
  BY DEF GoodBook, IsBook, IsLevels, IsMap, Order
<1>2. LevelsInOrder(b.bids, log) /\ LevelsInOrder(b.asks, log)
  BY DEF BookInOrder
<1>3. ASSUME NEW i \in DOMAIN QueueAt(b.bids, p)
      PROVE  ArrivedAt(log, QueueAt(b.bids, p)[i]) < ArrivedAt(log, id)
  <2>1. p \in DOMAIN b.bids /\ QueueAt(b.bids, p) = b.bids[p]
    BY <1>3 DEF QueueAt
  <2> QED
    BY <2>1, <1>3 DEF GoodBook, BookAgrees, SideAgrees
<1>4. ASSUME NEW i \in DOMAIN QueueAt(b.asks, p)
      PROVE  ArrivedAt(log, QueueAt(b.asks, p)[i]) < ArrivedAt(log, id)
  <2>1. p \in DOMAIN b.asks /\ QueueAt(b.asks, p) = b.asks[p]
    BY <1>4 DEF QueueAt
  <2> QED
    BY <2>1, <1>4 DEF GoodBook, BookAgrees, SideAgrees
<1>5. /\ LevelsInOrder(PushBack(b.bids, p, id), log)
      /\ LevelsInOrder(PushBack(b.asks, p, id), log)
  BY <1>1, <1>2, <1>3, <1>4, PushedInOrder
<1> QED
  BY <1>2, <1>5 DEF BookInOrder, BookAdd

\* The order of a book's queues survives a log that keeps arrivals.
LEMMA OrderIsKept ==
  ASSUME NEW b, NEW ords, GoodBook(b, ords), NEW log, NEW log2,
         BookInOrder(b, log),
         \A x \in DOMAIN ords : ArrivedAt(log2, x) = ArrivedAt(log, x)
  PROVE  BookInOrder(b, log2)
<1>1. \A x \in DOMAIN b.lookup : ArrivedAt(log2, x) = ArrivedAt(log, x)
  BY DEF GoodBook, BookAgrees
<1>2. \A p \in DOMAIN b.bids : \A i \in DOMAIN b.bids[p] :
        b.bids[p][i] \in DOMAIN b.lookup
  BY DEF GoodBook, BookAgrees, SideAgrees
<1>3. \A p \in DOMAIN b.asks : \A i \in DOMAIN b.asks[p] :
        b.asks[p][i] \in DOMAIN b.lookup
  BY DEF GoodBook, BookAgrees, SideAgrees
<1> QED
  BY <1>1, <1>2, <1>3 DEF BookInOrder, LevelsInOrder, InOrder

LEMMA BooksInOrderKeeps ==
  ASSUME IInv, HistoryInv, BooksInOrder, [Step]_vars
  PROVE  BooksInOrder'
<1>1. \A x \in DOMAIN orders : ArrivedAt(eventLog', x) = ArrivedAt(eventLog, x)
  BY HistoryKept DEF HistoryInv, OrdersArrived
<1>2. ASSUME NEW s \in DOMAIN books
      PROVE  GoodBook(books[s], orders) /\ BookInOrder(books[s], eventLog')
  <2>1. GoodBook(books[s], orders)
    BY DEF IInv, BooksGood
  <2> QED
    BY <2>1, <1>1, OrderIsKept DEF BooksInOrder
<1>3. ASSUME NEW s \in DOMAIN books'
      PROVE  BookInOrder(books'[s], eventLog')
  <2>1. CASE s \in DOMAIN books /\ books'[s] = books[s]
    BY <2>1, <1>2
  <2>2. CASE books'[s] = EmptyBook
    BY <2>2 DEF BookInOrder, LevelsInOrder, EmptyBook, NoEntries
  <2>3. CASE s \in DOMAIN books
             /\ \E x \in Booked(s) : books'[s] = BookRemove(books[s], x)
    BY <2>3, <1>2, RemoveInOrder DEF Booked
  <2>4. CASE /\ RestIfNeeded /\ s = Event.symbol
             /\ books'[s] = BookAdd(books[s], incomingId, incoming)
    <3>1. pc = "matching" /\ eventLog' = eventLog
      BY <2>4 DEF RestIfNeeded
    <3>2. s \in DOMAIN books /\ incomingId \in DOMAIN orders
          /\ incomingId \notin Booked(s)
      BY <3>1, <2>4, MatchFacts
    <3>3. \A x \in DOMAIN books[s].lookup :
            ArrivedAt(eventLog, x) < ArrivedAt(eventLog, incomingId)
      BY <3>1, <3>2, BookedIsKnown, IncomingIsLatest DEF Booked
    <3>4. IsMap(orders, OrderId, Order)
      BY DEF IInv, TypeOK
    <3>5. BookInOrder(BookAdd(books[s], incomingId, orders[incomingId]),
                      eventLog')
      BY <3>1, <3>2, <3>3, <3>4, <1>2, AddInOrder
    <3> QED
      BY <3>5, <2>4 DEF incoming
  <2> QED
    BY <2>1, <2>2, <2>3, <2>4, BooksMove DEF BookMove
<1> QED
  BY <1>3 DEF BooksInOrder

LEMMA BooksInOrderIsArrivalOrder == BooksInOrder => QueuesInArrivalOrder
<1>1. \A id : Arrival(id) = ArrivedAt(eventLog, id)
  BY ArrivalIsArrivedAt
<1> QED
  BY <1>1 DEF BooksInOrder, BookInOrder, LevelsInOrder, InOrder,
              QueuesInArrivalOrder, LevelsOf

LEMMA BooksAlwaysInOrder == Run => []BooksInOrder
<1>1. Init => BooksInOrder
  BY DEF Init, BooksInOrder, NoEntries
<1>2. IInv /\ HistoryInv /\ BooksInOrder /\ [Step]_vars => BooksInOrder'
  BY BooksInOrderKeeps
<1> QED
  BY <1>1, <1>2, RunInvariant, RunHistory, PTL DEF Run

\* Whatever mix of matches, cancels and Execute events, every level's queue is
\* in the order in which its orders arrived.
THEOREM QueuesStayInArrivalOrder == Spec => []QueuesInArrivalOrder
BY SpecIsRun, BooksAlwaysInOrder, BooksInOrderIsArrivalOrder, PTL

-----------------------------------------------------------------------------
(***************************************************************************)
(* Priority.                                                               *)
(***************************************************************************)

\* The front of a queue arrived before all others at its level.
LEMMA FrontArrivedFirst ==
  ASSUME NEW levels, NEW side, NEW lookup, NEW log, IsLevels(levels),
         SideAgrees(levels, side, lookup), LevelsInOrder(levels, log),
         NEW x \in DOMAIN lookup, lookup[x].side = side,
         x # levels[lookup[x].price][1]
  PROVE  ArrivedAt(log, levels[lookup[x].price][1]) < ArrivedAt(log, x)
<1> DEFINE p == lookup[x].price
           queue == levels[p]
<1>1. p \in DOMAIN levels /\ \E i \in DOMAIN queue : queue[i] = x
  BY DEF SideAgrees
<1>2. PICK i \in DOMAIN queue : queue[i] = x
  BY <1>1
<1>3. queue \in Seq(OrderId) /\ InOrder(queue, log)
  BY <1>1 DEF IsLevels, IsMap, LevelsInOrder
<1> HIDE DEF queue
<1>4. DOMAIN queue = 1 .. Len(queue) /\ Len(queue) \in Nat
  BY <1>3, LenProperties
<1>5. i # 1
  BY <1>2 DEF queue
<1>6. 1 \in DOMAIN queue /\ 1 < i
  BY <1>2, <1>4, <1>5
<1>7. ArrivedAt(log, queue[1]) < ArrivedAt(log, queue[i])
  BY <1>2, <1>3, <1>6 DEF InOrder
<1> QED
  BY <1>2, <1>7 DEF queue

\* The resting order that match asks its book for is, of all orders on the
\* other side, the best by price and then by arrival.
LEMMA RestingIsBest ==
  ASSUME IInv, BooksInOrder, pc = "matching", restingId # NoOrder
  PROVE  /\ restingId \in Booked(Event.symbol)
         /\ resting.side # incoming.side
         /\ \A x \in Booked(Event.symbol) :
              orders[x].side # incoming.side /\ x # restingId =>
                \/ IF resting.side = "Buy"
                   THEN resting.price > orders[x].price
                   ELSE resting.price < orders[x].price
                \/ /\ resting.price = orders[x].price
                   /\ ArrivedAt(eventLog, restingId) < ArrivedAt(eventLog, x)
<1>1. /\ Event.symbol \in DOMAIN books
      /\ GoodBook(book, orders) /\ incoming \in Order
      /\ Booked(Event.symbol) = DOMAIN book.lookup
  BY MatchFacts DEF Booked, book
<1>2. /\ LevelsInOrder(book.bids, eventLog)
      /\ LevelsInOrder(book.asks, eventLog)
  BY <1>1 DEF BooksInOrder, BookInOrder, book
<1>3. /\ IsLevels(book.bids) /\ IsLevels(book.asks)
      /\ SideAgrees(book.bids, "Buy", book.lookup)
      /\ SideAgrees(book.asks, "Sell", book.lookup)
      /\ DOMAIN book.bids \subseteq Int /\ DOMAIN book.asks \subseteq Int
  BY <1>1 DEF GoodBook, IsBook, IsLevels, IsMap, BookAgrees
<1>4. ASSUME NEW x \in DOMAIN book.lookup
      PROVE  /\ x \in DOMAIN orders
             /\ orders[x].side \in Side /\ orders[x].price \in Int
             /\ book.lookup[x].side = orders[x].side
             /\ book.lookup[x].price = orders[x].price
             /\ orders[x].side = "Buy" => orders[x].price \in DOMAIN book.bids
             /\ orders[x].side = "Sell" => orders[x].price \in DOMAIN book.asks
  <2>1. /\ x \in DOMAIN orders
        /\ book.lookup[x] = [side |-> orders[x].side, price |-> orders[x].price]
    BY <1>1 DEF GoodBook, BookAgrees
  <2>2. orders[x] \in Order
    BY <2>1 DEF IInv, TypeOK, IsMap
  <2>3. book.lookup[x].side = orders[x].side
        /\ book.lookup[x].price = orders[x].price
    BY <2>1
  <2> QED
    BY <2>1, <2>2, <2>3, <1>3 DEF Order, SideAgrees
<1>5. CASE incoming.side = "Buy"
  <2>1. restingId = BestAsk(book)
    BY <1>5 DEF restingId
  <2>2. /\ restingId \in DOMAIN book.lookup
        /\ resting.side = "Sell"
        /\ \A p \in DOMAIN book.asks : resting.price <= p
        /\ restingId = book.asks[resting.price][1]
    BY <2>1, <1>1, BestAskProperties DEF resting
  <2>3. ASSUME NEW x \in DOMAIN book.lookup,
               orders[x].side # incoming.side, x # restingId
        PROVE  \/ resting.price < orders[x].price
               \/ /\ resting.price = orders[x].price
                  /\ ArrivedAt(eventLog, restingId) < ArrivedAt(eventLog, x)
    <3>1. orders[x].side = "Sell"
      BY <2>3, <1>4, <1>5 DEF Side
    <3>2. resting.price <= orders[x].price
      BY <3>1, <2>2, <1>4
    <3>3. resting.price = orders[x].price =>
            ArrivedAt(eventLog, restingId) < ArrivedAt(eventLog, x)
      BY <3>1, <2>2, <2>3, <1>2, <1>3, <1>4, FrontArrivedFirst
    <3>4. resting.price \in Int /\ orders[x].price \in Int
      BY <2>2, <1>4 DEF resting
    <3> QED
      BY <3>2, <3>3, <3>4
  <2> QED
    BY <2>2, <2>3, <1>1, <1>5
<1>6. CASE incoming.side = "Sell"
  <2>1. restingId = BestBid(book)
    BY <1>6 DEF restingId
  <2>2. /\ restingId \in DOMAIN book.lookup
        /\ resting.side = "Buy"
        /\ \A p \in DOMAIN book.bids : p <= resting.price
        /\ restingId = book.bids[resting.price][1]
    BY <2>1, <1>1, BestBidProperties DEF resting
  <2>3. ASSUME NEW x \in DOMAIN book.lookup,
               orders[x].side # incoming.side, x # restingId
        PROVE  \/ resting.price > orders[x].price
               \/ /\ resting.price = orders[x].price
                  /\ ArrivedAt(eventLog, restingId) < ArrivedAt(eventLog, x)
    <3>1. orders[x].side = "Buy"
      BY <2>3, <1>4, <1>6 DEF Side
    <3>2. orders[x].price <= resting.price
      BY <3>1, <2>2, <1>4
    <3>3. resting.price = orders[x].price =>
            ArrivedAt(eventLog, restingId) < ArrivedAt(eventLog, x)
      BY <3>1, <2>2, <2>3, <1>2, <1>3, <1>4, FrontArrivedFirst
    <3>4. resting.price \in Int /\ orders[x].price \in Int
      BY <2>2, <1>4 DEF resting
    <3> QED
      BY <3>2, <3>3, <3>4
  <2> QED
    BY <2>2, <2>3, <1>1, <1>6
<1> QED
  BY <1>1, <1>5, <1>6 DEF Order, Side

\* Only a turn of the matching loop adds a trade.
LEMMA OnlyMatchTrades ==
  ASSUME IInv, [Step]_vars, Len(trades') > Len(trades)
  PROVE  MatchTrade
<1>1. Len(trades) \in Nat /\ Len(<<>>) = 0
  BY LenProperties DEF IInv, TypeOK
<1>2. trades' # trades /\ trades' # <<>>
  BY <1>1
<1> QED
  BY <1>2, TradesStep DEF MatchBegins, BeginMatch, FinishMatch

LEMMA StepHasPriority ==
  ASSUME IInv, BooksInOrder, [Step]_vars, Len(trades') > Len(trades),
         NEW id \in Booked(Event.symbol), orders[id].side # incoming.side
  PROVE  id = Last(trades').resting \/ Ahead(Last(trades').resting, id)
<1>1. MatchTrade
  BY OnlyMatchTrades
<1>2. pc = "matching" /\ restingId # NoOrder
  BY <1>1 DEF MatchTrade, MayMatch
<1>3. Last(trades').resting = restingId
  <2> DEFINE t == [incoming |-> incomingId, resting |-> restingId,
                   price |-> TradePrice, quantity |-> matchQuantity]
  <2>1. trades' = Append(trades, t)
    BY <1>1 DEF MatchTrade
  <2>2. trades \in Seq(TradeRecord) /\ trades' \in Seq(TradeRecord)
    BY <1>1, MatchTradeKeeps DEF IInv, TypeOK
  <2>3. t.resting = restingId
    OBVIOUS
  <2> HIDE DEF t
  <2>4. Last(trades') = t
    BY <2>1, <2>2, LenProperties DEF Last
  <2> QED
    BY <2>3, <2>4
<1>4. Arrival(restingId) = ArrivedAt(eventLog, restingId)
      /\ Arrival(id) = ArrivedAt(eventLog, id)
  BY ArrivalIsArrivedAt
<1>5. CASE id # restingId
  <2>1. \/ IF resting.side = "Buy"
           THEN resting.price > orders[id].price
           ELSE resting.price < orders[id].price
        \/ /\ resting.price = orders[id].price
           /\ ArrivedAt(eventLog, restingId) < ArrivedAt(eventLog, id)
    BY <1>2, <1>5, RestingIsBest
  <2>2. resting.price \in Int /\ orders[id].price \in Int
    <3>1. resting \in Order /\ orders[id] \in Order
      BY <1>1, MatchFacts, BookedIsKnown
         DEF MatchTrade, IInv, TypeOK, IsMap, resting
    <3> QED
      BY <3>1 DEF Order
  <2> QED
    BY <2>1, <2>2, <1>3, <1>4 DEF Ahead, resting
<1> QED
  BY <1>3, <1>5

\* Every trade takes the best order of the other side: by price, and at one
\* price the earliest arrival, whatever cancels and fills came between.
THEOREM TradesHavePriority == Spec => PriceTimePriority
<1>1. IInv /\ BooksInOrder /\ [Step]_vars =>
        [Len(trades') > Len(trades) =>
           \A id \in Booked(Event.symbol) :
             orders[id].side # incoming.side =>
               \/ id = Last(trades').resting
               \/ Ahead(Last(trades').resting, id)]_vars
  BY StepHasPriority
<1> QED
  BY <1>1, SpecIsRun, InductiveInvariant, BooksAlwaysInOrder, PTL
     DEF Run, PriceTimePriority

-----------------------------------------------------------------------------
(***************************************************************************)
(* Running sums.                                                           *)
(***************************************************************************)
IsRunningSum(f, g, n) ==
  /\ f \in [0 .. n -> Int]
  /\ f[0] = 0
  /\ \A m \in 1 .. n : f[m] = f[m - 1] + g[m]

\* Whatever is summed has a running sum: a least length without one would be
\* one more than a length with one.
LEMMA RunningSumExists ==
  ASSUME NEW N \in Nat, NEW g \in [1 .. N -> Int]
  PROVE  \E f : IsRunningSum(f, g, N)
<1> DEFINE Bad == {n \in 0 .. N : ~ \E f : IsRunningSum(f, g, n)}
<1>1. SUFFICES ASSUME Bad # {} PROVE FALSE
  <2>1. N \in 0 .. N
    OBVIOUS
  <2> QED
    BY <2>1
<1>2. PICK n \in Bad : \A m \in Bad : n <= m
  <2>1. Bad \in SUBSET Nat
    OBVIOUS
  <2> HIDE DEF Bad
  <2> QED
    BY <2>1, <1>1, LeastNatural
<1>3. n # 0
  <2> DEFINE f == [m \in 0 .. 0 |-> 0]
  <2>1. IsRunningSum(f, g, 0)
    BY DEF IsRunningSum
  <2> HIDE DEF f
  <2> QED
    BY <2>1
<1>4. n \in 1 .. N /\ n - 1 \in 0 .. N /\ n - 1 \notin Bad
  BY <1>2, <1>3
<1>5. PICK f : IsRunningSum(f, g, n - 1)
  BY <1>4
<1> DEFINE f2 == [m \in 0 .. n |-> IF m = n THEN f[n - 1] + g[n] ELSE f[m]]
<1>6. f[n - 1] \in Int /\ g[n] \in Int
  BY <1>4, <1>5 DEF IsRunningSum
<1>7. f2 \in [0 .. n -> Int]
  BY <1>4, <1>5, <1>6 DEF IsRunningSum
<1>8. f2[0] = 0
  BY <1>4, <1>5 DEF IsRunningSum
<1>9. ASSUME NEW m \in 1 .. n PROVE f2[m] = f2[m - 1] + g[m]
  <2>1. CASE m = n
    BY <2>1, <1>4
  <2>2. CASE m # n
    <3>1. m \in 1 .. n - 1 /\ m - 1 \in 0 .. n /\ m - 1 # n /\ m \in 0 .. n
      BY <2>2, <1>4
    <3>2. f2[m] = f[m] /\ f2[m - 1] = f[m - 1]
      BY <3>1, <2>2
    <3> QED
      BY <3>1, <3>2, <1>5 DEF IsRunningSum
  <2> QED
    BY <2>1, <2>2
<1>10. IsRunningSum(f2, g, n)
  BY <1>7, <1>8, <1>9 DEF IsRunningSum
<1> HIDE DEF f2
<1> QED
  BY <1>2, <1>10

\* The terms of g from place k on are the first m terms of h; and the running
\* sums of the two move alike.
TermsAgree(g, k, h, m) == \A i \in 1 .. m : g[k + i] = h[i]
SumsAgree(f, k, e, m) == \A i \in 0 .. m : f[k + i] = f[k] + e[i]

\* Running sums of equal terms move alike.
LEMMA RunningSumsAgree ==
  ASSUME NEW N \in Nat, NEW M \in Nat, NEW k \in Nat, k + M <= N,
         NEW g \in [1 .. N -> Int], NEW h \in [1 .. M -> Int],
         NEW f, IsRunningSum(f, g, N), NEW e, IsRunningSum(e, h, M),
         TermsAgree(g, k, h, M)
  PROVE  SumsAgree(f, k, e, M)
<1> DEFINE Bad == {i \in 0 .. M : f[k + i] # f[k] + e[i]}
<1>1. SUFFICES ASSUME Bad # {} PROVE FALSE
  BY DEF SumsAgree
<1>2. PICK n \in Bad : \A m \in Bad : n <= m
  <2>1. Bad \in SUBSET Nat
    OBVIOUS
  <2> HIDE DEF Bad
  <2> QED
    BY <2>1, <1>1, LeastNatural
<1>3. n # 0
  <2>1. f[k] \in Int /\ e[0] = 0
    BY DEF IsRunningSum
  <2> QED
    BY <2>1
<1>4. n \in 1 .. M /\ n - 1 \in 0 .. M /\ n - 1 \notin Bad
  BY <1>2, <1>3
<1>5. f[k + (n - 1)] = f[k] + e[n - 1]
  BY <1>4
<1>6. e[n] = e[n - 1] + h[n]
  BY <1>4 DEF IsRunningSum
<1>7. f[k + n] = f[k + (n - 1)] + h[n]
  <2>1. k + n \in 1 .. N /\ (k + n) - 1 = k + (n - 1)
    BY <1>4
  <2>2. f[k + n] = f[(k + n) - 1] + g[k + n]
    BY <2>1 DEF IsRunningSum
  <2> QED
    BY <2>1, <2>2, <1>4 DEF TermsAgree
<1>8. f[k] \in Int /\ e[n - 1] \in Int /\ h[n] \in Int
  BY <1>4 DEF IsRunningSum
<1>9. (f[k] + e[n - 1]) + h[n] = f[k] + (e[n - 1] + h[n])
  BY <1>8
<1>10. f[k + n] = f[k] + e[n]
  BY <1>5, <1>6, <1>7, <1>9
<1> QED
  BY <1>2, <1>10

\* The same, as the recursion of TradedIn says it.
ComputesSum(f, g, n) ==
  f = [m \in 0 .. n |-> IF m = 0 THEN 0 ELSE f[m - 1] + g[m]]

\* There is only one: it is what the recursion of TradedIn computes.
LEMMA RunningSumIsUnique ==
  ASSUME NEW N \in Nat, NEW g \in [1 .. N -> Int],
         NEW e, IsRunningSum(e, g, N),
         NEW f, ComputesSum(f, g, N)
  PROVE  f = e
<1>0. f = [n \in 0 .. N |-> IF n = 0 THEN 0 ELSE f[n - 1] + g[n]]
  BY DEF ComputesSum
<1> DEFINE Bad == {i \in 0 .. N : f[i] # e[i]}
<1>1. SUFFICES ASSUME Bad # {} PROVE FALSE
  <2>1. e = [i \in 0 .. N |-> e[i]]
    BY DEF IsRunningSum
  <2>2. f = [i \in 0 .. N |-> f[i]]
    BY <1>0
  <2> QED
    BY <2>1, <2>2
<1>2. PICK n \in Bad : \A m \in Bad : n <= m
  <2>1. Bad \in SUBSET Nat
    OBVIOUS
  <2> HIDE DEF Bad
  <2> QED
    BY <2>1, <1>1, LeastNatural
<1>3. n # 0
  BY <1>0 DEF IsRunningSum
<1>4. n \in 1 .. N /\ n - 1 \in 0 .. N /\ n - 1 \notin Bad
  BY <1>2, <1>3
<1>5. f[n - 1] = e[n - 1]
  BY <1>4
<1>6. f[n] = f[n - 1] + g[n]
  BY <1>0, <1>4
<1>7. e[n] = e[n - 1] + g[n]
  BY <1>4 DEF IsRunningSum
<1> QED
  BY <1>2, <1>5, <1>6, <1>7

-----------------------------------------------------------------------------
(***************************************************************************)
(* Sums over records of trades.                                            *)
(***************************************************************************)
MovedIn(records, id) == [n \in 1 .. Len(records) |-> Moved(records[n], id)]

LEMMA MovedInTypes ==
  ASSUME NEW R, \A r \in R : r.quantity \in Int, NEW records \in Seq(R), NEW id
  PROVE  /\ Len(records) \in Nat
         /\ MovedIn(records, id) \in [1 .. Len(records) -> Int]
<1>1. Len(records) \in Nat
  BY LenProperties
<1>2. ASSUME NEW n \in 1 .. Len(records) PROVE Moved(records[n], id) \in Int
  <2>1. records[n] \in R
    BY ElementOfSeq
  <2> QED
    BY <2>1 DEF Moved
<1> QED
  BY <1>1, <1>2 DEF MovedIn

LEMMA TradedIsSum ==
  ASSUME NEW R, \A r \in R : r.quantity \in Int, NEW records \in Seq(R), NEW id
  PROVE  \E f : /\ IsRunningSum(f, MovedIn(records, id), Len(records))
                /\ TradedIn(records, id) = f[Len(records)]
<1> DEFINE N == Len(records)
           g == MovedIn(records, id)
           Sum(f) == f = [n \in 0 .. N |->
                            IF n = 0 THEN 0
                            ELSE f[n - 1] + Moved(records[n], id)]
<1>1. N \in Nat /\ g \in [1 .. N -> Int]
  BY MovedInTypes
<1>2. \A n \in 1 .. N : g[n] = Moved(records[n], id)
  BY DEF MovedIn
<1>3. TradedIn(records, id) = (CHOOSE f : Sum(f))[N]
  BY DEF TradedIn
<1> HIDE DEF N, g
<1>4. PICK e : IsRunningSum(e, g, N)
  BY <1>1, RunningSumExists
<1>5. Sum(e)
  <2>1. e = [n \in 0 .. N |-> e[n]]
    BY <1>4 DEF IsRunningSum
  <2>2. \A n \in 0 .. N : e[n] = IF n = 0 THEN 0
                                 ELSE e[n - 1] + Moved(records[n], id)
    BY <1>1, <1>2, <1>4 DEF IsRunningSum
  <2> QED
    BY <2>1, <2>2
<1> DEFINE f == CHOOSE f : Sum(f)
<1>6. Sum(f)
  BY <1>5
<1> HIDE DEF f
<1>7. ComputesSum(f, g, N)
  <2>1. f = [n \in 0 .. N |-> IF n = 0 THEN 0 ELSE f[n - 1] + g[n]]
    BY <1>1, <1>2, <1>6
  <2> QED
    BY <2>1 DEF ComputesSum
<1>8. f = e
  BY <1>1, <1>4, <1>7, RunningSumIsUnique
<1>9. TradedIn(records, id) = f[N]
  BY <1>3 DEF f
<1> QED
  BY <1>4, <1>8, <1>9 DEF N, g

LEMMA TradedInTyped ==
  ASSUME NEW R, \A r \in R : r.quantity \in Int, NEW records \in Seq(R), NEW id
  PROVE  TradedIn(records, id) \in Int
<1>1. Len(records) \in Nat
  BY LenProperties
<1>2. PICK f : /\ IsRunningSum(f, MovedIn(records, id), Len(records))
               /\ TradedIn(records, id) = f[Len(records)]
  BY TradedIsSum
<1> QED
  BY <1>1, <1>2 DEF IsRunningSum

\* Records that move the same have the same sum, whatever else they hold.
LEMMA SameMovesSameSum ==
  ASSUME NEW R, \A r \in R : r.quantity \in Int, NEW s \in Seq(R),
         NEW Q, \A q \in Q : q.quantity \in Int, NEW t \in Seq(Q), NEW id,
         Len(s) = Len(t),
         \A i \in 1 .. Len(s) : Moved(s[i], id) = Moved(t[i], id)
  PROVE  TradedIn(s, id) = TradedIn(t, id)
<1> DEFINE N == Len(s)
           g == MovedIn(s, id)
           h == MovedIn(t, id)
<1>1. N \in Nat /\ g \in [1 .. N -> Int]
  BY MovedInTypes
<1>2. h \in [1 .. N -> Int]
  <2>1. h \in [1 .. Len(t) -> Int]
    BY MovedInTypes
  <2> QED
    BY <2>1
<1>3. PICK f : IsRunningSum(f, g, N) /\ TradedIn(s, id) = f[N]
  BY TradedIsSum
<1>4. PICK e : IsRunningSum(e, h, Len(t)) /\ TradedIn(t, id) = e[Len(t)]
  BY TradedIsSum
<1>5. IsRunningSum(e, h, N) /\ TradedIn(t, id) = e[N]
  BY <1>4
<1>6. TermsAgree(g, 0, h, N)
  BY DEF MovedIn, TermsAgree
<1> HIDE DEF N, g, h
<1>7. SumsAgree(f, 0, e, N)
  <2>1. 0 \in Nat /\ 0 + N <= N /\ IsRunningSum(f, g, N)
    BY <1>1, <1>3
  <2> QED
    BY <2>1, <1>1, <1>2, <1>5, <1>6, RunningSumsAgree
<1>8. f[0] = 0 /\ e[N] \in Int
  BY <1>1, <1>3, <1>5 DEF IsRunningSum
<1>9. f[N] = e[N]
  BY <1>1, <1>7, <1>8 DEF SumsAgree
<1> QED
  BY <1>3, <1>5, <1>9

\* What was traded in two runs of records is what was traded in each.
LEMMA TradedInConcat ==
  ASSUME NEW R, \A r \in R : r.quantity \in Int,
         NEW s \in Seq(R), NEW t \in Seq(R), NEW id
  PROVE  TradedIn(s \o t, id) = TradedIn(s, id) + TradedIn(t, id)
<1> DEFINE u == s \o t
           N == Len(s)
           M == Len(t)
           T == Len(u)
           g == MovedIn(u, id)
           h == MovedIn(s, id)
           k == MovedIn(t, id)
<1>1. /\ u \in Seq(R) /\ Len(u) = N + M
      /\ N \in Nat /\ M \in Nat /\ Len(u) \in Nat
      /\ \A i \in 1 .. N : u[i] = s[i]
      /\ \A i \in 1 .. M : u[N + i] = t[i]
  <2>1. N \in Nat /\ M \in Nat
    BY LenProperties
  <2>2. /\ u \in Seq(R) /\ Len(u) = N + M
        /\ \A i \in 1 .. N + M : u[i] = IF i <= N THEN s[i] ELSE t[i - N]
    BY ConcatProperties
  <2> HIDE DEF u, N, M
  <2> QED
    BY <2>1, <2>2
<1>2. /\ g \in [1 .. Len(u) -> Int]
      /\ h \in [1 .. N -> Int]
      /\ k \in [1 .. M -> Int]
  BY <1>1, MovedInTypes
<1>3. PICK f : IsRunningSum(f, g, Len(u)) /\ TradedIn(u, id) = f[Len(u)]
  BY <1>1, TradedIsSum
<1>4. PICK a : IsRunningSum(a, h, N) /\ TradedIn(s, id) = a[N]
  BY TradedIsSum
<1>5. PICK b : IsRunningSum(b, k, M) /\ TradedIn(t, id) = b[M]
  BY TradedIsSum
<1>6. TermsAgree(g, 0, h, N) /\ TermsAgree(g, N, k, M)
  BY <1>1 DEF MovedIn, TermsAgree
<1>7. /\ IsRunningSum(f, g, T) /\ TradedIn(u, id) = f[T]
      /\ g \in [1 .. T -> Int] /\ T \in Nat /\ T = N + M
  BY <1>1, <1>2, <1>3
<1> HIDE DEF u, N, M, T, g, h, k
<1>8. SumsAgree(f, 0, a, N)
  <2>1. 0 \in Nat /\ 0 + N <= T
    BY <1>1, <1>7
  <2> QED
    BY <2>1, <1>1, <1>2, <1>4, <1>6, <1>7, RunningSumsAgree
<1>9. SumsAgree(f, N, b, M)
  <2>1. N + M <= T
    BY <1>1, <1>7
  <2> QED
    BY <2>1, <1>1, <1>2, <1>5, <1>6, <1>7, RunningSumsAgree
<1>10. f[0] = 0 /\ a[N] \in Int /\ b[M] \in Int
  BY <1>1, <1>4, <1>5, <1>7 DEF IsRunningSum
<1>11. f[N] = a[N] /\ f[T] = f[N] + b[M]
  BY <1>1, <1>7, <1>8, <1>9, <1>10 DEF SumsAgree
<1> QED
  BY <1>4, <1>5, <1>7, <1>11 DEF u

\* One more record.
LEMMA TradedInAppend ==
  ASSUME NEW R, \A r \in R : r.quantity \in Int,
         NEW s \in Seq(R), NEW r \in R, NEW id
  PROVE  TradedIn(Append(s, r), id) = TradedIn(s, id) + Moved(r, id)
<1> DEFINE u == Append(s, r)
           N == Len(s)
           T == Len(u)
           g == MovedIn(u, id)
           h == MovedIn(s, id)
<1>1. /\ u \in Seq(R) /\ Len(u) = N + 1 /\ N \in Nat /\ Len(u) \in Nat
      /\ u[N + 1] = r
      /\ \A i \in 1 .. N : u[i] = s[i]
  BY AppendProperties, LenProperties
<1>2. g \in [1 .. Len(u) -> Int] /\ h \in [1 .. N -> Int]
  BY <1>1, MovedInTypes
<1>3. PICK f : IsRunningSum(f, g, Len(u)) /\ TradedIn(u, id) = f[Len(u)]
  BY <1>1, TradedIsSum
<1>4. PICK a : IsRunningSum(a, h, N) /\ TradedIn(s, id) = a[N]
  BY TradedIsSum
<1>5. /\ TermsAgree(g, 0, h, N)
      /\ g[N + 1] = Moved(r, id)
  BY <1>1 DEF MovedIn, TermsAgree
<1>6. /\ IsRunningSum(f, g, T) /\ TradedIn(u, id) = f[T]
      /\ g \in [1 .. T -> Int] /\ T \in Nat /\ T = N + 1
  BY <1>1, <1>2, <1>3
<1> HIDE DEF u, N, T, g, h
<1>7. SumsAgree(f, 0, a, N)
  <2>1. 0 \in Nat /\ 0 + N <= T
    BY <1>1, <1>6
  <2> QED
    BY <2>1, <1>1, <1>2, <1>4, <1>5, <1>6, RunningSumsAgree
<1>8. f[0] = 0 /\ a[N] \in Int /\ T \in 1 .. T /\ T - 1 = N
  BY <1>1, <1>4, <1>6 DEF IsRunningSum
<1>9. f[T] = f[T - 1] + g[T]
  BY <1>6, <1>8 DEF IsRunningSum
<1>10. f[N] = a[N]
  BY <1>1, <1>7, <1>8 DEF SumsAgree
<1> QED
  BY <1>4, <1>5, <1>6, <1>8, <1>9, <1>10 DEF u

\* Records that do not name an order sum to nothing for it.
LEMMA UnnamedTradesNothing ==
  ASSUME NEW R, \A r \in R : r.quantity \in Int, NEW s \in Seq(R), NEW id,
         \A i \in 1 .. Len(s) : id \notin {s[i].incoming, s[i].resting}
  PROVE  TradedIn(s, id) = 0
<1> DEFINE N == Len(s)
           g == MovedIn(s, id)
           zero == [n \in 0 .. N |-> 0]
           none == [n \in 1 .. N |-> 0]
<1>1. N \in Nat /\ g \in [1 .. N -> Int]
  BY MovedInTypes
<1>2. PICK f : IsRunningSum(f, g, N) /\ TradedIn(s, id) = f[N]
  BY TradedIsSum
<1>3. none \in [1 .. N -> Int] /\ zero[N] = 0
  BY <1>1
<1>4. IsRunningSum(zero, none, N)
  BY <1>1 DEF IsRunningSum
<1>5. TermsAgree(g, 0, none, N)
  BY DEF MovedIn, Moved, TermsAgree
<1> HIDE DEF N, g, zero, none
<1>6. SumsAgree(f, 0, zero, N)
  <2>1. 0 \in Nat /\ 0 + N <= N
    BY <1>1
  <2> QED
    BY <2>1, <1>1, <1>2, <1>3, <1>4, <1>5, RunningSumsAgree
<1>7. f[0] = 0 /\ f[0 + N] = f[0] + zero[N]
  BY <1>1, <1>2, <1>6 DEF IsRunningSum, SumsAgree
<1> QED
  BY <1>1, <1>2, <1>3, <1>7

LEMMA NothingTraded == ASSUME NEW id PROVE TradedIn(<<>>, id) = 0
<1> DEFINE R == {[incoming |-> 1, resting |-> 1, quantity |-> 0]}
<1>1. <<>> \in Seq(R) /\ (\A r \in R : r.quantity \in Int)
  BY EmptySeq
<1>2. \A i \in 1 .. Len(<<>>) : id \notin {<<>>[i].incoming, <<>>[i].resting}
  <2>1. Len(<<>>) = 0
    BY EmptySeq
  <2> QED
    BY <2>1
<1> HIDE DEF R
<1> DEFINE s == <<>>
<1>3. s \in Seq(R) /\ \A i \in 1 .. Len(s) : id \notin {s[i].incoming, s[i].resting}
  BY <1>1, <1>2
<1> HIDE DEF s
<1>4. TradedIn(s, id) = 0
  BY <1>1, <1>3, UnnamedTradesNothing
<1> QED
  BY <1>4 DEF s

-----------------------------------------------------------------------------
(***************************************************************************)
(* The invariant.                                                          *)
(***************************************************************************)
ExecutedIn(log, id) ==
  \E i \in DOMAIN log : /\ log[i].payload.type = "Execute"
                        /\ log[i].payload.order_id = id

\* Why order id may have filled more than it traded.
FillExcused(log, ords, id) ==
  LET home == log[ArrivedAt(log, id)].symbol
  IN  \/ ExecutedIn(log, id)
      \/ \E other \in DOMAIN ords :
           /\ other # id
           /\ log[ArrivedAt(log, other)].symbol = home
           /\ CancelledElsewhere(log, other, home)

FillsTraded ==
  \A id \in DOMAIN orders :
    LET traded == TradedIn(executions, id) + TradedIn(trades, id)
    IN  /\ orders[id].filled >= traded
        /\ orders[id].filled > traded => FillExcused(eventLog, orders, id)

LEMMA FillsTradedIsFillsAreTrades == FillsTraded => FillsAreTrades
<1>1. SUFFICES ASSUME FillsTraded, NEW id \in DOMAIN orders
      PROVE /\ orders[id].filled >= Traded(id)
            /\ orders[id].filled > Traded(id) =>
                 \/ \E i \in DOMAIN eventLog : Logged(i, "Execute", id)
                 \/ \E other \in DOMAIN orders :
                      /\ other # id
                      /\ Home(other) = Home(id)
                      /\ \E i \in DOMAIN eventLog :
                           /\ Logged(i, "Cancel", other)
                           /\ eventLog[i].symbol # Home(id)
  BY DEF FillsAreTrades
<1>2. \A x : Home(x) = eventLog[ArrivedAt(eventLog, x)].symbol
  BY ArrivalIsArrivedAt
<1>3. /\ orders[id].filled >= Traded(id)
      /\ orders[id].filled > Traded(id) => FillExcused(eventLog, orders, id)
  BY <1>1 DEF FillsTraded, Traded
<1>4. ASSUME FillExcused(eventLog, orders, id)
      PROVE \/ \E i \in DOMAIN eventLog : Logged(i, "Execute", id)
            \/ \E other \in DOMAIN orders :
                 /\ other # id
                 /\ Home(other) = Home(id)
                 /\ \E i \in DOMAIN eventLog :
                      /\ Logged(i, "Cancel", other)
                      /\ eventLog[i].symbol # Home(id)
  BY <1>2, <1>4 DEF FillExcused, ExecutedIn, CancelledElsewhere, Logged
<1> QED
  BY <1>3, <1>4

\* The history only grows, so an excuse stands.
LEMMA ExcuseKept ==
  ASSUME IInv, HistoryInv, [Step]_vars, NEW id \in DOMAIN orders,
         FillExcused(eventLog, orders, id)
  PROVE  FillExcused(eventLog', orders', id)
<1>1. /\ \A i \in DOMAIN eventLog : /\ i \in DOMAIN eventLog'
                                    /\ eventLog'[i] = eventLog[i]
      /\ DOMAIN orders \subseteq DOMAIN orders'
  BY HistoryKept, OrdersStep
<1>2. \A x \in DOMAIN orders :
        eventLog'[ArrivedAt(eventLog', x)].symbol =
          eventLog[ArrivedAt(eventLog, x)].symbol
  BY HistoryKept DEF HistoryInv, OrdersArrived
<1> DEFINE home == eventLog[ArrivedAt(eventLog, id)].symbol
<1>3. CASE ExecutedIn(eventLog, id)
  BY <1>1, <1>3 DEF FillExcused, ExecutedIn
<1>4. CASE \E other \in DOMAIN orders :
             /\ other # id
             /\ eventLog[ArrivedAt(eventLog, other)].symbol = home
             /\ CancelledElsewhere(eventLog, other, home)
  <2>1. PICK other \in DOMAIN orders :
          /\ other # id
          /\ eventLog[ArrivedAt(eventLog, other)].symbol = home
          /\ CancelledElsewhere(eventLog, other, home)
    BY <1>4
  <2>2. CancelledElsewhere(eventLog', other, home)
    BY <1>1, <2>1 DEF CancelledElsewhere
  <2> QED
    BY <1>1, <1>2, <2>1, <2>2 DEF FillExcused
<1> QED
  BY <1>3, <1>4 DEF FillExcused

\* What every step but a turn that trades makes of what an order has filled.
LEMMA FilledStep ==
  ASSUME IInv, HistoryInv, [Step]_vars, ~MatchTrade, NEW id \in DOMAIN orders
  PROVE  /\ orders[id].filled \in Int /\ orders'[id].filled \in Int
         /\ orders'[id].filled >= orders[id].filled
         /\ orders'[id].filled > orders[id].filled =>
              FillExcused(eventLog', orders', id)
<1>1. /\ IsMap(orders, OrderId, Order)
      /\ \A x \in DOMAIN orders : Consistent(orders[x])
      /\ orders[id] \in Order /\ orders[id].filled \in Int
  BY DEF IInv, TypeOK, OrdersConsistent, IsMap, Order
<1>2. CASE orders'[id] = orders[id]
  BY <1>1, <1>2
<1>3. CASE orders'[id].filled = orders[id].filled
  BY <1>1, <1>3
<1>4. CASE MatchBegins
  BY <1>2, <1>4, BeginMatchFacts DEF HistoryInv
<1>5. CASE AbandonHalfDone
  <2>1. CASE id # incomingId
    BY <1>2, <1>5, <2>1, HalfDoneFacts
  <2>2. CASE id = incomingId
    <3>1. /\ pc = "matching" /\ MayMatch
          /\ resting.state = "CancelPending"
          /\ matchQuantity \in Int /\ matchQuantity > 0
          /\ CanFill(incoming, matchQuantity)
          /\ orders'[incomingId] = Fill(incoming, matchQuantity)
      BY <1>5, HalfDoneFacts
    <3>2. Fill(incoming, matchQuantity).filled = orders[id].filled + matchQuantity
      BY <1>1, <2>2, <3>1, FillBecomes DEF incoming
    <3>3. orders'[id].filled = orders[id].filled + matchQuantity
      BY <2>2, <3>1, <3>2
    <3>4. /\ restingId \in Booked(Event.symbol) /\ restingId \in DOMAIN orders
          /\ restingId # incomingId /\ Event.symbol \in DOMAIN books
      BY <3>1, MatchFacts
    <3>5. CancelledElsewhere(eventLog, restingId, Event.symbol)
      BY <3>1, <3>4 DEF HistoryInv, CancelledOutOfBand, resting
    <3>6. eventLog[ArrivedAt(eventLog, restingId)].symbol = Event.symbol
      BY <3>4 DEF HistoryInv, BookedAtHome
    <3>7. eventLog[ArrivedAt(eventLog, id)].symbol = Event.symbol
      BY <2>2, <3>1, EventIsLast DEF HistoryInv, LatestIsMatched
    <3>8. FillExcused(eventLog, orders, id)
      BY <2>2, <3>4, <3>5, <3>6, <3>7 DEF FillExcused
    <3>9. FillExcused(eventLog', orders', id)
      BY <3>8, ExcuseKept
    <3> QED
      BY <1>1, <3>1, <3>3, <3>9
  <2> QED
    BY <2>1, <2>2
<1>6. CASE OrderExecuted
  <2>1. PICK e \in Offered({"Execute"}) :
          /\ Accept(e)
          /\ CanExecute(orders, e.payload.order_id, e.payload.quantity)
          /\ orders' = Execute(orders, e.payload.order_id, e.payload.quantity)
    BY <1>6 DEF OrderExecuted, ExecuteOrder
  <2>2. /\ e \in MarketEvent /\ IsValid(e) /\ e.payload.type = "Execute"
        /\ e.payload.quantity \in Int
        /\ eventLog'[Len(eventLog) + 1] = e
        /\ Len(eventLog) + 1 \in DOMAIN eventLog'
    BY <2>1, OfferedEvent, ExecuteFields, AcceptExtendsLog
       DEF IInv, TypeOK
  <2> DEFINE x == e.payload.order_id
             q == e.payload.quantity
  <2>3. /\ CanExecute(orders, x, q) /\ q \in Int
        /\ Execute(orders, x, q)[x] = Fill(orders[x], q)
        /\ \A y \in DOMAIN orders : y # x => Execute(orders, x, q)[y] = orders[y]
    BY <1>1, <2>1, <2>2, ExecuteGood
  <2>4. CASE id # x
    BY <1>2, <2>1, <2>3, <2>4
  <2>5. CASE id = x
    <3>1. CanFill(orders[id], q) /\ q > 0
      BY <2>3, <2>5 DEF CanExecute, CanFill
    <3>2. orders'[id].filled = orders[id].filled + q
      BY <1>1, <2>1, <2>3, <2>5, <3>1, FillBecomes
    <3>3. FillExcused(eventLog', orders', id)
      BY <2>2, <2>5 DEF FillExcused, ExecutedIn
    <3> HIDE DEF q
    <3> QED
      BY <1>1, <2>3, <3>1, <3>2, <3>3
  <2> QED
    BY <2>4, <2>5
<1>7. CASE CancelMissesBook \/ BookedCancelled
  <2>1. PICK c : c \in DOMAIN orders /\ orders' = Cancel(orders, c)
    BY <1>7 DEF CancelMissesBook, CancelNotInBook, BookedCancelled,
                CancelBooked, CanCancel
  <2>2. orders'[id] = orders[id]
        \/ orders'[id] = Transition(orders[id], "CancelPending")
    BY <1>1, <2>1 DEF Cancel, IsMap
  <2>3. Transition(orders[id], "CancelPending").filled = orders[id].filled
    BY <1>1, CancelBecomes
  <2> QED
    BY <1>3, <2>2, <2>3
<1>8. CASE ~(MatchBegins \/ AbandonHalfDone \/ OrderExecuted
             \/ CancelMissesBook \/ BookedCancelled)
  <2>1. orders' = orders
    BY <1>8 DEF Step, Match, Refuse, DuplicateRejected, RejectDuplicateAdd,
                AbandonOnExhausted, RestIfNeeded, CancelRejected, RejectCancel,
                ExecuteRejected, RejectExecute, DataTaken, MarketData, vars
  <2> QED
    BY <1>2, <2>1
<1> QED
  BY <1>4, <1>5, <1>6, <1>7, <1>8

\* What a step makes of what an order has traded: a turn that trades adds its
\* quantity for both its orders, and a match that is over records its trades.
LEMMA TradedStep ==
  ASSUME IInv, HistoryInv, [Step]_vars, NEW id
  PROVE  /\ TradedIn(executions, id) \in Int /\ TradedIn(trades, id) \in Int
         /\ ~MatchTrade =>
              TradedIn(executions', id) + TradedIn(trades', id) =
                TradedIn(executions, id) + TradedIn(trades, id)
         /\ MatchTrade =>
              /\ executions' = executions
              /\ TradedIn(trades', id) =
                   TradedIn(trades, id)
                   + (IF id \in {incomingId, restingId} THEN matchQuantity ELSE 0)
<1>1. /\ executions \in Seq(ExecutionRecord) /\ trades \in Seq(TradeRecord)
      /\ \A r \in ExecutionRecord : r.quantity \in Int
      /\ \A r \in TradeRecord : r.quantity \in Int
  BY DEF IInv, TypeOK, ExecutionRecord, TradeRecord
<1>2. /\ TradedIn(executions, id) \in Int /\ TradedIn(trades, id) \in Int
  BY <1>1, TradedInTyped
<1>3. CASE MatchTrade
  <2> DEFINE r == [incoming |-> incomingId, resting |-> restingId,
                   price |-> resting.price, quantity |-> matchQuantity]
  <2>1. trades' = Append(trades, r) /\ executions' = executions
    BY <1>3 DEF MatchTrade, TradePrice
  <2>2. r \in TradeRecord
    <3>1. /\ incomingId \in DOMAIN orders /\ restingId \in DOMAIN orders
          /\ resting \in Order /\ matchQuantity \in Int
      BY <1>3, MatchTradeFacts, MatchFacts
    <3>2. DOMAIN orders \subseteq OrderId /\ resting.price \in Int
      BY <3>1 DEF IInv, TypeOK, IsMap, Order
    <3> QED
      BY <3>1, <3>2 DEF TradeRecord
  <2>3. Moved(r, id) =
          IF id \in {incomingId, restingId} THEN matchQuantity ELSE 0
    BY DEF Moved
  <2> HIDE DEF r
  <2>4. TradedIn(Append(trades, r), id) = TradedIn(trades, id) + Moved(r, id)
    BY <1>1, <2>2, TradedInAppend
  <2> QED
    BY <1>2, <1>3, <2>1, <2>3, <2>4
<1>4. CASE pc = "matching" /\ FinishMatch /\ ~MatchTrade
  <2>1. /\ executions' = executions \o Recorded(trades) /\ trades' = <<>>
        /\ Recorded(trades) \in Seq(ExecutionRecord)
    BY <1>4, MatchFacts, RecordedGood DEF FinishMatch, IInv
  <2>2. Len(Recorded(trades)) = Len(trades)
        /\ DOMAIN trades = 1 .. Len(trades)
        /\ Len(trades) \in Nat
    <3>1. DOMAIN Recorded(trades) = DOMAIN trades
      BY DEF Recorded
    <3> QED
      BY <1>1, <2>1, <3>1, LenProperties
  <2>3. \A i \in 1 .. Len(Recorded(trades)) :
          Moved(Recorded(trades)[i], id) = Moved(trades[i], id)
    <3>1. SUFFICES ASSUME NEW i \in DOMAIN trades
          PROVE Moved(Recorded(trades)[i], id) = Moved(trades[i], id)
      BY <2>2
    <3>2. /\ Recorded(trades)[i].incoming = trades[i].incoming
          /\ Recorded(trades)[i].resting = trades[i].resting
          /\ Recorded(trades)[i].quantity = trades[i].quantity
      BY DEF Recorded
    <3> QED
      BY <3>2 DEF Moved
  <2>4. TradedIn(Recorded(trades), id) = TradedIn(trades, id)
    BY <1>1, <2>1, <2>2, <2>3, SameMovesSameSum
  <2>5. TradedIn(executions \o Recorded(trades), id) =
          TradedIn(executions, id) + TradedIn(Recorded(trades), id)
    BY <1>1, <2>1, TradedInConcat
  <2>6. TradedIn(<<>>, id) = 0
    BY NothingTraded
  <2> QED
    BY <1>2, <1>4, <2>1, <2>4, <2>5, <2>6
<1>5. CASE trades' = trades /\ executions' = executions /\ ~MatchTrade
  BY <1>2, <1>5
<1>6. CASE MatchBegins
  <2>1. trades = <<>> /\ trades' = <<>> /\ executions' = executions
        /\ ~MatchTrade
    BY <1>6, BeginMatchFacts
       DEF HistoryInv, TradesInHand, MatchTrade
  <2> QED
    BY <1>5, <2>1
<1> QED
  BY <1>3, <1>4, <1>5, <1>6, TradesStep

LEMMA FillsTradedKeeps ==
  ASSUME IInv, HistoryInv, FillsTraded, [Step]_vars
  PROVE  FillsTraded'
<1>1. SUFFICES ASSUME NEW id \in DOMAIN orders'
      PROVE /\ orders'[id].filled >=
                 TradedIn(executions', id) + TradedIn(trades', id)
            /\ orders'[id].filled >
                 TradedIn(executions', id) + TradedIn(trades', id) =>
                   FillExcused(eventLog', orders', id)
  BY DEF FillsTraded
<1> DEFINE old == TradedIn(executions, id) + TradedIn(trades, id)
           new == TradedIn(executions', id) + TradedIn(trades', id)
           moved == IF id \in {incomingId, restingId} THEN matchQuantity ELSE 0
<1>2. /\ old \in Int
      /\ ~MatchTrade => new = old
      /\ MatchTrade /\ moved \in Int => new = old + moved
  BY TradedStep
<1>3. CASE id \notin DOMAIN orders
  <2>1. MatchBegins
    BY <1>1, <1>3, OrdersStep
  <2>2. PICK e \in MarketEvent :
          LET x == e.payload.order_id
          IN  /\ DOMAIN orders' = DOMAIN orders \cup {x}
              /\ orders'[x].filled = 0
              /\ AddsOf(eventLog, x) = {}
              /\ trades' = <<>> /\ executions' = executions
    BY <2>1, BeginMatchFacts DEF HistoryInv
  <2>3. /\ orders'[id].filled = 0 /\ AddsOf(eventLog, id) = {}
        /\ trades' = <<>> /\ executions' = executions
    BY <1>1, <1>3, <2>2
  <2>4. \A i \in 1 .. Len(executions) :
          id \notin {executions[i].incoming, executions[i].resting}
    BY <2>3, LenProperties
       DEF HistoryInv, ExecutionsProper, ProperExecution, ProperTrade,
           IInv, TypeOK
  <2>5. TradedIn(executions, id) = 0
    BY <2>4, UnnamedTradesNothing DEF IInv, TypeOK, ExecutionRecord
  <2>6. TradedIn(<<>>, id) = 0
    BY NothingTraded
  <2> QED
    BY <2>3, <2>5, <2>6
<1>4. ASSUME id \in DOMAIN orders
      PROVE /\ orders[id].filled \in Int
            /\ orders[id].filled >= old
            /\ orders[id].filled > old => FillExcused(eventLog', orders', id)
  BY <1>4, ExcuseKept
     DEF FillsTraded, IInv, TypeOK, IsMap, Order
<1>5. CASE id \in DOMAIN orders /\ ~MatchTrade
  <2>1. /\ orders[id].filled \in Int /\ orders'[id].filled \in Int
        /\ orders'[id].filled >= orders[id].filled
        /\ orders'[id].filled > orders[id].filled =>
             FillExcused(eventLog', orders', id)
    BY <1>5, FilledStep
  <2> HIDE DEF old, new
  <2>2. orders'[id].filled >= new
        /\ (orders'[id].filled > new => FillExcused(eventLog', orders', id))
    BY <1>2, <1>4, <1>5, <2>1
  <2> QED
    BY <2>2 DEF new
<1>6. CASE id \in DOMAIN orders /\ MatchTrade
  <2>1. /\ matchQuantity \in Int
        /\ orders'[incomingId] = Fill(incoming, matchQuantity)
        /\ orders'[restingId] = Fill(resting, matchQuantity)
        /\ CanFill(incoming, matchQuantity) /\ CanFill(resting, matchQuantity)
        /\ \A x \in DOMAIN orders :
             x # incomingId /\ x # restingId => orders'[x] = orders[x]
    BY <1>6, MatchTradeFacts
  <2>2. orders[id] \in Order /\ Consistent(orders[id])
    BY <1>6 DEF IInv, TypeOK, IsMap, OrdersConsistent
  <2>3. moved \in Int /\ orders'[id].filled = orders[id].filled + moved
    <3>1. CASE id \notin {incomingId, restingId}
      BY <1>4, <1>6, <2>1, <3>1
    <3>2. CASE id = incomingId
      BY <2>1, <2>2, <3>2, FillBecomes DEF incoming
    <3>3. CASE id = restingId
      BY <2>1, <2>2, <3>3, FillBecomes DEF resting
    <3> QED
      BY <3>1, <3>2, <3>3
  <2> HIDE DEF old, new, moved
  <2>4. orders'[id].filled >= new
        /\ (orders'[id].filled > new => FillExcused(eventLog', orders', id))
    BY <1>2, <1>4, <1>6, <2>3
  <2> QED
    BY <2>4 DEF new
<1> QED
  BY <1>3, <1>5, <1>6

\* What an order has filled is what it traded, in the trades under way and the
\* recorded executions together, unless an Execute event filled it or a match
\* that met an order cancelled under another symbol filled it alone.
THEOREM FillsStayTrades == Spec => []FillsAreTrades
<1>1. Init => FillsTraded
  BY DEF Init, NoEntries, FillsTraded
<1>2. IInv /\ HistoryInv /\ FillsTraded /\ [Step]_vars => FillsTraded'
  BY FillsTradedKeeps
<1> QED
  BY <1>1, <1>2, SpecIsRun, InductiveInvariant, HistoryInvariant,
     FillsTradedIsFillsAreTrades, PTL DEF Run

=============================================================================
