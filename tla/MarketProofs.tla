---------------------------- MODULE MarketProofs -----------------------------
(***************************************************************************)
(* The trading engine implements PriorityMarket, for every feed: initial   *)
(* states map to initial states, and every step to a step or a stutter.    *)
(***************************************************************************)
EXTENDS EngineMarket, HistoryProofs

-----------------------------------------------------------------------------
(***************************************************************************)
(* The operators that both specifications take from Orders.                *)
(***************************************************************************)
LEMMA SameOperators ==
  /\ \A m, k, v : Market!Put(m, k, v) = Put(m, k, v)
  /\ \A side, price, quantity :
       Market!NewOrder(side, price, quantity) = NewOrder(side, price, quantity)
  /\ \A order, q : Market!CanFill(order, q) = CanFill(order, q)
  /\ \A ords, id, q : Market!Execute(ords, id, q) = Execute(ords, id, q)
  /\ \A ords, id, q : Market!CanExecute(ords, id, q) = CanExecute(ords, id, q)
  /\ \A ords, id : Market!Cancel(ords, id) = Cancel(ords, id)
  /\ \A ords, id : Market!CanCancel(ords, id) = CanCancel(ords, id)
  /\ Market!Side = Side
  /\ Market!NoEntries = NoEntries
  /\ Market!NoTaker = NoTaker
BY DEF Market!Put, Put, Market!NewOrder, NewOrder, Market!CanFill, CanFill,
       Market!Execute, Execute, Market!Fill, Fill, Market!CanExecute,
       CanExecute, Market!Cancel, Cancel, Market!Transition, Transition,
       Market!CanCancel, CanCancel, Market!CanTransition, CanTransition,
       Market!Side, Side, Market!NoEntries, NoEntries, Market!NoTaker, NoTaker

-----------------------------------------------------------------------------
(***************************************************************************)
(* The mapped variables, as functions of those of the engine.              *)
(***************************************************************************)
AgeOf(log, ords) == [id \in DOMAIN ords |-> ArrivedAt(log, id)]

RestingOf(bks) ==
  [s \in Symbols |-> IF s \in DOMAIN bks THEN DOMAIN bks[s].lookup ELSE {}]

TapeEntry(symbol, t) ==
  [symbol |-> symbol, incoming |-> t.incoming, resting |-> t.resting,
   price |-> t.price, quantity |-> t.quantity]

EntriesOf(exs) == [i \in DOMAIN exs |-> TapeEntry(exs[i].symbol, exs[i])]
PendingOf(trs, symbol) == [i \in DOMAIN trs |-> TapeEntry(symbol, trs[i])]
TapeOf(exs, trs, symbol) == EntriesOf(exs) \o PendingOf(trs, symbol)

Entry == [symbol : Symbols, incoming : OrderId, resting : OrderId, price : Int,
          quantity : Int]

LEMMA MappedVariables ==
  /\ Age = AgeOf(eventLog, orders) /\ Age' = AgeOf(eventLog', orders')
  /\ Resting = RestingOf(books) /\ Resting' = RestingOf(books')
  /\ Tape = TapeOf(executions, trades, Event.symbol)
  /\ Tape' = TapeOf(executions', trades', Event.symbol')
<1>1. Age = AgeOf(eventLog, orders) /\ Age' = AgeOf(eventLog', orders')
  BY ArrivalIsArrivedAt DEF Age, AgeOf
<1>2. Resting = RestingOf(books) /\ Resting' = RestingOf(books')
  BY DEF Resting, RestingOf, Booked
<1>3. /\ Tape = TapeOf(executions, trades, Event.symbol)
      /\ Tape' = TapeOf(executions', trades', Event.symbol')
  BY DEF Tape, TapeOf, EntriesOf, PendingOf, TapeEntry
<1> QED
  BY <1>1, <1>2, <1>3

\* Entries are made one for each execution or trade, and are well formed.
LEMMA EntriesTyped ==
  ASSUME NEW exs \in Seq(ExecutionRecord)
  PROVE  /\ EntriesOf(exs) \in Seq(Entry)
         /\ Len(EntriesOf(exs)) = Len(exs)
         /\ \A i \in 1 .. Len(exs) :
              EntriesOf(exs)[i] = TapeEntry(exs[i].symbol, exs[i])
<1>1. Len(exs) \in Nat /\ DOMAIN exs = 1 .. Len(exs)
  BY LenProperties
<1>2. ASSUME NEW i \in 1 .. Len(exs)
      PROVE  TapeEntry(exs[i].symbol, exs[i]) \in Entry
  <2>1. exs[i] \in ExecutionRecord
    BY ElementOfSeq
  <2> QED
    BY <2>1 DEF ExecutionRecord, TapeEntry, Entry
<1>3. EntriesOf(exs) = [i \in 1 .. Len(exs) |-> TapeEntry(exs[i].symbol, exs[i])]
  BY <1>1 DEF EntriesOf
<1>4. EntriesOf(exs) \in [1 .. Len(exs) -> Entry]
  BY <1>2, <1>3
<1>5. EntriesOf(exs) \in Seq(Entry)
  BY <1>1, <1>4, SeqDef
<1>6. Len(EntriesOf(exs)) = Len(exs)
  <2>1. DOMAIN EntriesOf(exs) = 1 .. Len(exs)
    BY <1>3
  <2> QED
    BY <1>1, <1>5, <2>1, LenProperties
<1> QED
  BY <1>3, <1>5, <1>6

LEMMA PendingTyped ==
  ASSUME NEW trs \in Seq(TradeRecord), NEW symbol \in Symbols
  PROVE  /\ PendingOf(trs, symbol) \in Seq(Entry)
         /\ Len(PendingOf(trs, symbol)) = Len(trs)
         /\ \A i \in 1 .. Len(trs) :
              PendingOf(trs, symbol)[i] = TapeEntry(symbol, trs[i])
<1>1. Len(trs) \in Nat /\ DOMAIN trs = 1 .. Len(trs)
  BY LenProperties
<1>2. ASSUME NEW i \in 1 .. Len(trs)
      PROVE  TapeEntry(symbol, trs[i]) \in Entry
  <2>1. trs[i] \in TradeRecord
    BY ElementOfSeq
  <2> QED
    BY <2>1 DEF TradeRecord, TapeEntry, Entry
<1>3. PendingOf(trs, symbol) = [i \in 1 .. Len(trs) |-> TapeEntry(symbol, trs[i])]
  BY <1>1 DEF PendingOf
<1>4. PendingOf(trs, symbol) \in [1 .. Len(trs) -> Entry]
  BY <1>2, <1>3
<1>5. PendingOf(trs, symbol) \in Seq(Entry)
  BY <1>1, <1>4, SeqDef
<1>6. Len(PendingOf(trs, symbol)) = Len(trs)
  <2>1. DOMAIN PendingOf(trs, symbol) = 1 .. Len(trs)
    BY <1>3
  <2> QED
    BY <1>1, <1>5, <2>1, LenProperties
<1> QED
  BY <1>3, <1>5, <1>6

\* Without trades under way the tape is what the executions say.
LEMMA NothingPending ==
  ASSUME NEW exs \in Seq(ExecutionRecord), NEW symbol
  PROVE  TapeOf(exs, <<>>, symbol) = EntriesOf(exs)
<1>1. PendingOf(<<>>, symbol) = <<>>
  BY DEF PendingOf
<1> QED
  BY <1>1, EntriesTyped, ConcatEmptySeq DEF TapeOf

\* Where the elements of the concatenation u of s and t come from.
Joins(u, s, t) ==
  /\ Len(u) = Len(s) + Len(t)
  /\ \A i \in 1 .. Len(s) : u[i] = s[i]
  /\ \A i \in 1 .. Len(t) : u[Len(s) + i] = t[i]
  /\ \A i \in 1 .. Len(u) :
       i \in 1 .. Len(s) \/ \E k \in 1 .. Len(t) : i = Len(s) + k

LEMMA ConcatJoins ==
  ASSUME NEW S, NEW s \in Seq(S), NEW t \in Seq(S)
  PROVE  s \o t \in Seq(S) /\ Joins(s \o t, s, t)
<1> DEFINE N == Len(s)
           M == Len(t)
           u == s \o t
           L == Len(u)
<1>1. N \in Nat /\ M \in Nat
  BY LenProperties
<1>2. /\ u \in Seq(S) /\ L = N + M
      /\ \A i \in 1 .. N + M : u[i] = IF i <= N THEN s[i] ELSE t[i - N]
  BY ConcatProperties
<1> HIDE DEF N, M, u, L
<1>3. \A i \in 1 .. N : u[i] = s[i]
  BY <1>1, <1>2
<1>4. ASSUME NEW i \in 1 .. M PROVE u[N + i] = t[i]
  <2>1. N + i \in 1 .. N + M /\ ~(N + i <= N) /\ (N + i) - N = i
    BY <1>1
  <2> QED
    BY <1>2, <2>1
<1>5. ASSUME NEW i \in 1 .. L PROVE i \in 1 .. N \/ \E k \in 1 .. M : i = N + k
  <2>1. CASE ~(i <= N)
    <3>1. i - N \in 1 .. M /\ i = N + (i - N)
      BY <1>1, <1>2, <2>1
    <3> QED
      BY <3>1
  <2> QED
    BY <1>1, <1>2, <2>1
<1> QED
  BY <1>2, <1>3, <1>4, <1>5 DEF Joins, N, M, u, L

\* One more trade is one more entry.
LEMMA TapeAppend ==
  ASSUME NEW exs \in Seq(ExecutionRecord), NEW trs \in Seq(TradeRecord),
         NEW t \in TradeRecord, NEW symbol \in Symbols
  PROVE  /\ TapeOf(exs, trs, symbol) \in Seq(Entry)
         /\ TapeEntry(symbol, t) \in Entry
         /\ TapeOf(exs, Append(trs, t), symbol) =
              Append(TapeOf(exs, trs, symbol), TapeEntry(symbol, t))
<1> DEFINE trs2 == Append(trs, t)
           a == EntriesOf(exs)
           b == PendingOf(trs, symbol)
           c == PendingOf(trs2, symbol)
           entry == TapeEntry(symbol, t)
           d == Append(b, entry)
           N == Len(trs)
           L == Len(trs2)
<1>1. a \in Seq(Entry) /\ b \in Seq(Entry) /\ entry \in Entry
  BY EntriesTyped, PendingTyped DEF TapeEntry, Entry, TradeRecord
<1>2. c = d
  <2>1. /\ trs2 \in Seq(TradeRecord)
        /\ L = N + 1 /\ N \in Nat
        /\ \A i \in 1 .. N : trs2[i] = trs[i]
        /\ trs2[N + 1] = t
    BY AppendProperties, LenProperties
  <2>2. /\ Len(b) = N
        /\ \A i \in 1 .. N : b[i] = TapeEntry(symbol, trs[i])
    BY PendingTyped
  <2>3. /\ d \in Seq(Entry) /\ Len(d) = Len(b) + 1
        /\ \A i \in 1 .. Len(b) : d[i] = b[i]
        /\ d[Len(b) + 1] = entry
    BY <1>1, AppendProperties
  <2> HIDE DEF trs2
  <2>4. /\ c \in Seq(Entry) /\ Len(c) = L
        /\ \A i \in 1 .. L : c[i] = TapeEntry(symbol, trs2[i])
    BY <2>1, PendingTyped
  <2> HIDE DEF a, b, c, d, N, L
  <2>5. ASSUME NEW i \in 1 .. L PROVE c[i] = d[i]
    <3>1. CASE i = N + 1
      BY <2>1, <2>2, <2>3, <2>4, <3>1 DEF entry
    <3>2. CASE i \in 1 .. N
      BY <2>1, <2>2, <2>3, <2>4, <3>2
    <3> QED
      BY <2>1, <3>1, <3>2
  <2> QED
    BY <2>1, <2>2, <2>3, <2>4, <2>5, SeqEqual
<1> HIDE DEF a, b, c, entry
<1>3. a \o d = Append(a \o b, entry)
  <2>1. /\ <<entry>> \in Seq(Entry) /\ a \o b \in Seq(Entry)
    BY <1>1, ConcatProperties
  <2>2. d = b \o <<entry>>
        /\ Append(a \o b, entry) = (a \o b) \o <<entry>>
    BY <1>1, <2>1, AppendIsConcat
  <2> QED
    BY <1>1, <2>1, <2>2, ConcatAssociative
<1> QED
  BY <1>1, <1>2, <1>3, ConcatProperties DEF TapeOf, a, b, c, entry

\* The end of a match moves its trades to the executions, on the same tape.
LEMMA TapeRecorded ==
  ASSUME NEW exs \in Seq(ExecutionRecord), NEW more \in Seq(ExecutionRecord),
         NEW trs \in Seq(TradeRecord), NEW symbol \in Symbols, NEW other,
         Len(more) = Len(trs),
         \A i \in 1 .. Len(trs) :
           TapeEntry(more[i].symbol, more[i]) = TapeEntry(symbol, trs[i])
  PROVE  TapeOf(exs \o more, <<>>, other) = TapeOf(exs, trs, symbol)
<1> DEFINE u == exs \o more
           a == EntriesOf(exs)
           b == PendingOf(trs, symbol)
           left == EntriesOf(u)
           right == a \o b
           N == Len(exs)
           M == Len(trs)
           L == Len(u)
<1>1. /\ u \in Seq(ExecutionRecord) /\ Joins(u, exs, more)
      /\ N \in Nat /\ M \in Nat
  BY ConcatJoins, LenProperties
<1>2. /\ a \in Seq(Entry) /\ Len(a) = N
      /\ \A i \in 1 .. N : a[i] = TapeEntry(exs[i].symbol, exs[i])
  BY EntriesTyped
<1>3. /\ b \in Seq(Entry) /\ Len(b) = M
      /\ \A i \in 1 .. M : b[i] = TapeEntry(symbol, trs[i])
  BY PendingTyped
<1>4. right \in Seq(Entry) /\ Joins(right, a, b)
  BY <1>2, <1>3, ConcatJoins
<1> HIDE DEF u
<1>5. /\ left \in Seq(Entry) /\ Len(left) = L
      /\ \A i \in 1 .. L : left[i] = TapeEntry(u[i].symbol, u[i])
      /\ TapeOf(u, <<>>, other) = left
  BY <1>1, EntriesTyped, NothingPending
<1>6. \A i \in 1 .. M :
        TapeEntry(more[i].symbol, more[i]) = TapeEntry(symbol, trs[i])
  OBVIOUS
<1>7. /\ L = N + M
      /\ \A i \in 1 .. N : u[i] = exs[i]
      /\ \A i \in 1 .. M : u[N + i] = more[i]
      /\ \A i \in 1 .. L : i \in 1 .. N \/ \E k \in 1 .. M : i = N + k
  BY <1>1 DEF Joins
<1> HIDE DEF left, right, a, b, N, M, L
<1>8. /\ Len(right) = N + M
      /\ \A i \in 1 .. N : right[i] = a[i]
      /\ \A i \in 1 .. M : right[N + i] = b[i]
  BY <1>2, <1>3, <1>4 DEF Joins
<1>9. ASSUME NEW i \in 1 .. L PROVE left[i] = right[i]
  <2>1. CASE i \in 1 .. N
    BY <1>1, <1>2, <1>5, <1>7, <1>8, <2>1
  <2>2. ASSUME NEW k \in 1 .. M, i = N + k PROVE left[i] = right[i]
    <3>1. left[i] = TapeEntry(more[k].symbol, more[k])
      BY <1>1, <1>5, <1>7, <2>2
    <3>2. right[N + k] = b[k]
      BY <1>1, <1>8, <2>2
    <3> QED
      BY <1>3, <1>6, <2>2, <3>1, <3>2
  <2> QED
    BY <1>7, <2>1, <2>2
<1>10. left = right
  BY <1>4, <1>5, <1>9, <1>7, <1>8, SeqEqual
<1> QED
  BY <1>5, <1>10 DEF TapeOf, u, a, b, right

-----------------------------------------------------------------------------
(***************************************************************************)
(* What steps do to the mapped variables.                                  *)
(***************************************************************************)

\* While no order is new, no age is.
LEMMA AgeKept ==
  ASSUME IInv, HistoryInv, [Step]_vars, ~MatchBegins
  PROVE  Age' = Age
<1>1. DOMAIN orders' = DOMAIN orders
  BY OrdersStep
<1>2. \A id \in DOMAIN orders : ArrivedAt(eventLog', id) = ArrivedAt(eventLog, id)
  BY HistoryKept DEF HistoryInv, OrdersArrived
<1>3. AgeOf(eventLog', orders') = AgeOf(eventLog, orders)
  BY <1>1, <1>2 DEF AgeOf
<1> QED
  BY <1>3, MappedVariables

\* A call that does not enter match leaves the tape alone.
LEMMA TapeKept ==
  ASSUME IInv, HistoryInv, pc = "idle", trades' = trades,
         executions' = executions
  PROVE  Tape' = Tape
<1>1. trades = <<>> /\ executions \in Seq(ExecutionRecord)
  BY DEF HistoryInv, TradesInHand, IInv, TypeOK
<1>2. /\ TapeOf(executions, <<>>, Event.symbol) = EntriesOf(executions)
      /\ TapeOf(executions, <<>>, Event.symbol') = EntriesOf(executions)
  BY <1>1, NothingPending
<1> QED
  BY <1>1, <1>2, MappedVariables

\* A match that is over has its trades on the tape, where they were.
LEMMA TapeFinished ==
  ASSUME IInv, HistoryInv, pc = "matching", FinishMatch
  PROVE  Tape' = Tape
<1>1. /\ executions' = executions \o Recorded(trades) /\ trades' = <<>>
      /\ Recorded(trades) \in Seq(ExecutionRecord)
      /\ executions \in Seq(ExecutionRecord) /\ trades \in Seq(TradeRecord)
      /\ Event.symbol \in Symbols
  BY MatchFacts, RecordedGood DEF FinishMatch, IInv, TypeOK
<1>2. Len(Recorded(trades)) = Len(trades) /\ DOMAIN trades = 1 .. Len(trades)
  <2>1. DOMAIN Recorded(trades) = DOMAIN trades
    BY DEF Recorded
  <2> QED
    BY <1>1, <2>1, LenProperties
<1>3. \A i \in 1 .. Len(trades) :
        TapeEntry(Recorded(trades)[i].symbol, Recorded(trades)[i]) =
          TapeEntry(Event.symbol, trades[i])
  BY <1>2 DEF Recorded, TapeEntry
<1>4. TapeOf(executions \o Recorded(trades), <<>>, Event.symbol') =
        TapeOf(executions, trades, Event.symbol)
  BY <1>1, <1>2, <1>3, TapeRecorded
<1> QED
  BY <1>1, <1>4, MappedVariables

\* A book that loses an order is a market that loses it.
LEMMA RestingRemoved ==
  ASSUME IInv, NEW s \in DOMAIN books, NEW id,
         books' = [books EXCEPT ![s] = BookRemove(@, id)]
  PROVE  Resting' = [Resting EXCEPT ![s] = @ \ {id}]
<1>1. /\ DOMAIN books \subseteq Symbols
      /\ books = [t \in DOMAIN books |-> books[t]]
  BY DEF IInv, TypeOK
<1>2. DOMAIN BookRemove(books[s], id).lookup = DOMAIN books[s].lookup \ {id}
  BY DEF BookRemove, Restrict
<1>3. /\ DOMAIN books' = DOMAIN books
      /\ DOMAIN books'[s].lookup = DOMAIN books[s].lookup \ {id}
      /\ \A t \in DOMAIN books : t # s => books'[t] = books[t]
  BY <1>1, <1>2
<1>4. RestingOf(books') = [RestingOf(books) EXCEPT ![s] = @ \ {id}]
  BY <1>1, <1>3 DEF RestingOf
<1> QED
  BY <1>4, MappedVariables

\* A book that gains an order is a market that gains it.
LEMMA RestingAdded ==
  ASSUME IInv, NEW s \in DOMAIN books, NEW id, NEW order,
         books' = [books EXCEPT ![s] = BookAdd(@, id, order)]
  PROVE  Resting' = [Resting EXCEPT ![s] = @ \cup {id}]
<1>1. /\ DOMAIN books \subseteq Symbols
      /\ books = [t \in DOMAIN books |-> books[t]]
  BY DEF IInv, TypeOK
<1>2. DOMAIN BookAdd(books[s], id, order).lookup = DOMAIN books[s].lookup \cup {id}
  BY DEF BookAdd, Put
<1>3. /\ DOMAIN books' = DOMAIN books
      /\ DOMAIN books'[s].lookup = DOMAIN books[s].lookup \cup {id}
      /\ \A t \in DOMAIN books : t # s => books'[t] = books[t]
  BY <1>1, <1>2
<1>4. RestingOf(books') = [RestingOf(books) EXCEPT ![s] = @ \cup {id}]
  BY <1>1, <1>3 DEF RestingOf
<1> QED
  BY <1>4, MappedVariables

\* A call under way keeps its order; between calls there is none.
LEMMA TakerIs ==
  ASSUME IInv
  PROVE  /\ pc = "idle" => Taker = NoTaker
         /\ pc' = "idle" => Taker' = NoTaker
         /\ pc = "matching" =>
              /\ Taker = [id |-> incomingId, symbol |-> Event.symbol]
              /\ Taker.id = incomingId /\ Taker.symbol = Event.symbol
              /\ Taker # NoTaker
         /\ eventLog' = eventLog /\ pc' = pc => Taker' = Taker
<1>1. ASSUME pc = "matching" PROVE incomingId # 0
  BY <1>1, MatchFacts DEF IInv, TypeOK, IsMap, OrderId
<1>2. pc = "matching" => Taker = [id |-> incomingId, symbol |-> Event.symbol]
  BY DEF Taker
<1>3. pc = "matching" => Taker # NoTaker
  <2>1. SUFFICES ASSUME pc = "matching" PROVE Taker.id # NoTaker.id
    OBVIOUS
  <2> QED
    BY <1>1, <1>2, <2>1 DEF NoTaker
<1>4. /\ pc = "idle" => Taker = NoTaker
      /\ pc' = "idle" => Taker' = NoTaker'
  BY DEF Taker
<1>5. eventLog' = eventLog /\ pc' = pc => Taker' = Taker
  BY DEF Taker, incomingId, Event, NoTaker
<1> QED
  BY <1>2, <1>3, <1>4, <1>5 DEF NoTaker

\* A step that changes nothing of what PriorityMarket sees.
LEMMA QuietSteps ==
  ASSUME IInv, HistoryInv,
         \/ Refuse \/ DuplicateRejected \/ CancelRejected \/ ExecuteRejected
         \/ DataTaken \/ UNCHANGED vars
  PROVE  UNCHANGED Market!vars
<1>1. /\ orders' = orders /\ books' = books
      /\ executions' = executions /\ trades' = trades
  BY DEF Refuse, DuplicateRejected, RejectDuplicateAdd, CancelRejected,
         RejectCancel, ExecuteRejected, RejectExecute, DataTaken, MarketData,
         vars
<1>2. (pc = "idle" /\ pc' = "idle") \/ UNCHANGED vars
  BY DEF Refuse, DuplicateRejected, RejectDuplicateAdd, CancelRejected,
         RejectCancel, ExecuteRejected, RejectExecute, DataTaken, MarketData,
         Accept, Return
<1>3. [Step]_vars /\ ~MatchBegins
  <2>1. [Step]_vars
    BY DEF Step
  <2>2. ~MatchBegins
    BY <1>2 DEF MatchBegins, BeginMatch, Accept, vars
  <2> QED
    BY <2>1, <2>2
<1>4. Age' = Age
  BY <1>3, AgeKept
<1>5. Resting' = Resting
  BY <1>1, MappedVariables
<1>6. Taker' = Taker
  BY <1>2, TakerIs DEF vars
<1>7. Tape' = Tape
  <2>1. CASE pc = "idle"
    BY <1>1, <2>1, TapeKept
  <2>2. CASE UNCHANGED vars
    <3>1. Event.symbol' = Event.symbol
      BY <2>2 DEF Event, vars
    <3> QED
      BY <1>1, <3>1, MappedVariables
  <2> QED
    BY <1>2, <2>1, <2>2
<1> QED
  BY <1>1, <1>4, <1>5, <1>6, <1>7 DEF Market!vars

-----------------------------------------------------------------------------
(***************************************************************************)
(* Initial states.                                                         *)
(***************************************************************************)
LEMMA InitIsInit == ASSUME Init PROVE Market!Init
<1>1. /\ orders = NoEntries /\ books = NoEntries
      /\ executions = <<>> /\ trades = <<>> /\ pc = "idle"
  BY DEF Init
<1>2. DOMAIN NoEntries = {}
  BY DEF NoEntries
<1>3. AgeOf(eventLog, orders) = NoEntries
  BY <1>1, <1>2 DEF AgeOf, NoEntries
<1>4. RestingOf(books) = [s \in Symbols |-> {}]
  BY <1>1, <1>2 DEF RestingOf
<1>5. TapeOf(<<>>, <<>>, Event.symbol) = <<>>
  <2>1. <<>> \in Seq(ExecutionRecord) /\ EntriesOf(<<>>) = <<>>
    BY EmptySeq DEF EntriesOf
  <2> QED
    BY <2>1, NothingPending
<1>6. Taker = NoTaker
  BY <1>1 DEF Taker
<1> QED
  BY <1>1, <1>3, <1>4, <1>5, <1>6, MappedVariables, SameOperators
     DEF Market!Init

-----------------------------------------------------------------------------
(***************************************************************************)
(* Calls that do not enter match.                                          *)
(***************************************************************************)

\* An Add of a new id is an arrival.
LEMMA BeginIsArrival ==
  ASSUME IInv, HistoryInv, MatchBegins
  PROVE  Market!ArriveAny
<1>1. PICK e \in Offered({"Add"}) :
        /\ Accept(e)
        /\ e.payload.order_id \notin DOMAIN orders
        /\ orders' = Put(orders, e.payload.order_id,
                         NewOrder(e.payload.side, e.payload.price,
                                  e.payload.quantity))
        /\ books' = GetOrCreate(e.symbol)
        /\ pc' = "matching" /\ trades' = <<>> /\ executions' = executions
  BY DEF MatchBegins, BeginMatch
<1> DEFINE id == e.payload.order_id
           order == NewOrder(e.payload.side, e.payload.price, e.payload.quantity)
           n == Len(eventLog) + 1
<1>2. /\ e \in MarketEvent /\ IsValid(e) /\ e.payload.type = "Add"
      /\ e.symbol \in Symbols
      /\ e.payload.side \in Side
      /\ e.payload.price \in Int /\ e.payload.price > 0
      /\ e.payload.quantity \in Int /\ e.payload.quantity > 0
  BY <1>1, OfferedEvent, AddFields DEF IInv, TypeOK
<1>3. /\ eventLog' = Append(eventLog, e) /\ pc = "idle"
      /\ eventLog \in Seq(MarketEvent) /\ Len(eventLog) \in Nat
  BY <1>1, LenProperties DEF Accept, IInv, TypeOK
<1>4. AddsOf(eventLog, id) = {}
  BY <1>1 DEF HistoryInv, AddsAreOrders
<1>5. /\ ArrivedAt(eventLog', id) = n
      /\ eventLog'[n] = e /\ Len(eventLog') = n
  BY <1>2, <1>3, <1>4, ArrivalOfNew, AppendProperties
<1>6. Event' = e /\ incomingId' = id
  <2>1. Last(Append(eventLog, e)) = e
    BY <1>2, <1>3, <1>5 DEF Last
  <2> QED
    BY <1>3, <2>1 DEF Event, incomingId
<1>7. Taker' = [id |-> id, symbol |-> e.symbol]
  BY <1>1, <1>6 DEF Taker
<1>8. Taker = NoTaker
  BY <1>3, TakerIs
<1>9. DOMAIN orders' = DOMAIN orders \cup {id} /\ orders'[id] = order
  BY <1>1 DEF Put
<1>10. \A x \in DOMAIN orders : /\ ArrivedAt(eventLog', x) = ArrivedAt(eventLog, x)
                                /\ ArrivedAt(eventLog, x) \in Nat
                                /\ ArrivedAt(eventLog, x) < n
  <2>1. [Step]_vars
    BY DEF Step
  <2> SUFFICES ASSUME NEW x \in DOMAIN orders
      PROVE /\ ArrivedAt(eventLog', x) = ArrivedAt(eventLog, x)
            /\ ArrivedAt(eventLog, x) \in Nat
            /\ ArrivedAt(eventLog, x) < n
    OBVIOUS
  <2>2. AddsOf(eventLog, x) # {}
    BY DEF HistoryInv, OrdersArrived
  <2>3. ArrivedAt(eventLog, x) \in 1 .. Len(eventLog)
    BY <1>3, <2>2, ArrivalProperties
  <2>4. ArrivedAt(eventLog', x) = ArrivedAt(eventLog, x)
    BY <2>1, <2>2, HistoryKept
  <2> QED
    BY <1>3, <2>3, <2>4
<1>11. Age' = Put(Age, id, n) /\ Age'[id] = n
       /\ DOMAIN Age = DOMAIN orders
       /\ \A x \in DOMAIN orders : Age[x] < n
  <2>1. AgeOf(eventLog', orders') = Put(AgeOf(eventLog, orders), id, n)
    BY <1>1, <1>5, <1>9, <1>10 DEF AgeOf, Put
  <2>2. \A x \in DOMAIN orders : AgeOf(eventLog, orders)[x] < n
    BY <1>10 DEF AgeOf
  <2>3. DOMAIN AgeOf(eventLog, orders) = DOMAIN orders
    BY DEF AgeOf
  <2>4. Put(AgeOf(eventLog, orders), id, n)[id] = n
    BY DEF Put
  <2> QED
    BY <2>1, <2>2, <2>3, <2>4, MappedVariables
<1>12. Resting' = Resting
  <2>1. RestingOf(GetOrCreate(e.symbol)) = RestingOf(books)
    BY DEF RestingOf, GetOrCreate, Put, EmptyBook, NoEntries
  <2> QED
    BY <1>1, <2>1, MappedVariables
<1>13. Tape' = Tape
  <2>1. trades = <<>>
    BY <1>3 DEF HistoryInv, TradesInHand
  <2> QED
    BY <1>1, <1>3, <2>1, TapeKept
<1>14. /\ order.side = e.payload.side /\ order.price = e.payload.price
       /\ order.quantity = e.payload.quantity
       /\ order = NewOrder(order.side, order.price, order.quantity)
  BY DEF NewOrder
<1> HIDE DEF id, order, n
<1>15. Market!Arrive(id, e.symbol, order.side, order.price, order.quantity,
                     Age'[id])
  <2>1. orders' = Market!Put(orders, id,
                    Market!NewOrder(order.side, order.price, order.quantity))
    BY <1>1, <1>14, SameOperators DEF id, order
  <2>2. Age' = Market!Put(Age, id, Age'[id])
    BY <1>11, SameOperators
  <2>3. id \notin DOMAIN orders
    BY <1>1 DEF id
  <2> QED
    BY <1>7, <1>8, <1>11, <1>12, <1>13, <2>1, <2>2, <2>3, SameOperators
       DEF Market!Arrive
<1>16. /\ order.side \in Market!Side /\ order.price > 0 /\ order.quantity > 0
       /\ id \in DOMAIN orders' \ DOMAIN orders
  BY <1>1, <1>2, <1>9, <1>14, SameOperators DEF id
<1> QED
  BY <1>2, <1>9, <1>15, <1>16 DEF Market!ArriveAny

\* A Cancel that its book can serve withdraws the order.
LEMMA CancelIsWithdrawal ==
  ASSUME IInv, HistoryInv, BookedCancelled
  PROVE  \E id \in DOMAIN orders : \E s \in Symbols : Market!Withdraw(id, s)
<1>1. PICK e \in Offered({"Cancel"}) :
        LET id == e.payload.order_id
        IN  /\ Accept(e)
            /\ e.symbol \in DOMAIN books
            /\ CanCancel(orders, id)
            /\ CanRemove(books[e.symbol], id)
            /\ orders' = Cancel(orders, id)
            /\ books' = [books EXCEPT ![e.symbol] = BookRemove(@, id)]
            /\ Return(TRUE)
            /\ UNCHANGED <<executions, trades>>
  BY DEF BookedCancelled, CancelBooked
<1> DEFINE id == e.payload.order_id
           s == e.symbol
<1>2. /\ pc = "idle" /\ pc' = "idle" /\ id \in DOMAIN orders /\ s \in DOMAIN books
      /\ id \in DOMAIN books[s].lookup /\ s \in Symbols
      /\ executions' = executions /\ trades' = trades
  BY <1>1 DEF Accept, Return, CanCancel, CanRemove, BookContains, IInv, TypeOK
<1>3. [Step]_vars /\ ~MatchBegins
  BY <1>2 DEF Step, MatchBegins, BeginMatch
<1>4. Age' = Age /\ Tape' = Tape /\ Taker = NoTaker /\ Taker' = NoTaker
  BY <1>2, <1>3, AgeKept, TapeKept, TakerIs
<1>5. Resting' = [Resting EXCEPT ![s] = @ \ {id}]
  BY <1>1, <1>2, RestingRemoved
<1>6. id \in Resting[s]
  BY <1>2 DEF Resting, Booked
<1> HIDE DEF id, s
<1>7. Market!Withdraw(id, s)
  BY <1>1, <1>4, <1>5, <1>6, SameOperators DEF Market!Withdraw, id, s
<1> QED
  BY <1>2, <1>7

\* A Cancel that names a book without the order cancels it by its id.
LEMMA CancelIsById ==
  ASSUME IInv, HistoryInv, CancelMissesBook
  PROVE  \E id \in DOMAIN orders : Market!CancelById(id)
<1>1. PICK e \in Offered({"Cancel"}) :
        LET id == e.payload.order_id
        IN  /\ Accept(e)
            /\ CanCancel(orders, id)
            /\ orders' = Cancel(orders, id)
            /\ Return(FALSE)
            /\ UNCHANGED <<books, executions, trades>>
  BY DEF CancelMissesBook, CancelNotInBook
<1> DEFINE id == e.payload.order_id
<1>2. /\ pc = "idle" /\ pc' = "idle" /\ id \in DOMAIN orders
      /\ books' = books /\ executions' = executions /\ trades' = trades
  BY <1>1 DEF Accept, Return, CanCancel
<1>3. [Step]_vars /\ ~MatchBegins
  BY <1>2 DEF Step, MatchBegins, BeginMatch
<1>4. Age' = Age /\ Tape' = Tape /\ Taker = NoTaker /\ Taker' = NoTaker
  BY <1>2, <1>3, AgeKept, TapeKept, TakerIs
<1>5. Resting' = Resting
  BY <1>2, MappedVariables
<1> HIDE DEF id
<1>6. Market!CancelById(id)
  BY <1>1, <1>4, <1>5, SameOperators DEF Market!CancelById, id
<1> QED
  BY <1>2, <1>6

\* An Execute event fills the order by its id.
LEMMA ExecuteIsById ==
  ASSUME IInv, HistoryInv, OrderExecuted
  PROVE  \E id \in DOMAIN orders : Market!FillById(id)
<1>1. PICK e \in Offered({"Execute"}) :
        /\ Accept(e)
        /\ CanExecute(orders, e.payload.order_id, e.payload.quantity)
        /\ orders' = Execute(orders, e.payload.order_id, e.payload.quantity)
        /\ Return(TRUE)
        /\ UNCHANGED <<books, executions, trades>>
  BY DEF OrderExecuted, ExecuteOrder
<1> DEFINE id == e.payload.order_id
           q == e.payload.quantity
<1>2. /\ pc = "idle" /\ pc' = "idle" /\ id \in DOMAIN orders
      /\ books' = books /\ executions' = executions /\ trades' = trades
  BY <1>1 DEF Accept, Return, CanExecute
<1>3. [Step]_vars /\ ~MatchBegins
  BY <1>2 DEF Step, MatchBegins, BeginMatch
<1>4. Age' = Age /\ Tape' = Tape /\ Taker = NoTaker /\ Taker' = NoTaker
  BY <1>2, <1>3, AgeKept, TapeKept, TakerIs
<1>5. Resting' = Resting
  BY <1>2, MappedVariables
<1>6. q \in 1 .. orders[id].remaining
  <2>1. q \in Int
    BY <1>1, OfferedEvent, ExecuteFields DEF IInv, TypeOK
  <2>2. q > 0 /\ q <= orders[id].remaining
    BY <1>1 DEF CanExecute, CanFill
  <2>3. orders[id].remaining \in Int
    BY <1>2 DEF IInv, TypeOK, IsMap, Order
  <2> QED
    BY <2>1, <2>2, <2>3
<1>7. /\ Market!CanExecute(orders, id, q)
      /\ orders' = Market!Execute(orders, id, q)
  BY <1>1, SameOperators
<1> HIDE DEF id, q
<1>8. Market!FillById(id)
  BY <1>4, <1>5, <1>6, <1>7, SameOperators DEF Market!FillById
<1> QED
  BY <1>2, <1>8

-----------------------------------------------------------------------------
(***************************************************************************)
(* Turns of the matching loop.                                             *)
(***************************************************************************)
LEMMA MarketOfMatch ==
  ASSUME IInv, pc = "matching"
  PROVE  /\ Taker.id = incomingId /\ Taker.symbol = Event.symbol
         /\ Taker # Market!NoTaker
         /\ Event.symbol \in Symbols
         /\ Resting[Event.symbol] = Booked(Event.symbol)
         /\ Market!Opposite = {id \in Booked(Event.symbol) :
                                 orders[id].side # incoming.side}
<1>1. Event.symbol \in DOMAIN books /\ Event.symbol \in Symbols
  BY MatchFacts DEF IInv, TypeOK
<1>2. Resting[Event.symbol] = Booked(Event.symbol)
  BY <1>1 DEF Resting
<1>3. Taker.id = incomingId /\ Taker.symbol = Event.symbol /\ Taker # NoTaker
  BY TakerIs
<1> QED
  BY <1>1, <1>2, <1>3, SameOperators DEF Market!Opposite, incoming

\* The order at the front of the best level is the one that the market asks
\* for, and there is one exactly when the loop goes on.
LEMMA CounterpartyIsResting ==
  ASSUME IInv, HistoryInv, BooksInOrder, pc = "matching"
  PROVE  /\ MayMatch => restingId \in Market!Counterparty
         /\ ~MayMatch => Market!Counterparty = {}
<1>1. /\ \A x \in DOMAIN orders : Age[x] = ArrivedAt(eventLog, x)
      /\ Booked(Event.symbol) \subseteq DOMAIN orders
  <2>1. \A x \in DOMAIN orders : AgeOf(eventLog, orders)[x] = ArrivedAt(eventLog, x)
    BY DEF AgeOf
  <2>2. Booked(Event.symbol) \subseteq DOMAIN orders
    BY MatchFacts, BookedIsKnown
  <2> QED
    BY <2>1, <2>2, MappedVariables
<1>2. ASSUME MayMatch PROVE restingId \in Market!Counterparty
  <2>1. restingId # NoOrder /\ incoming.remaining > 0
        /\ Crosses(incoming, resting)
    BY <1>2 DEF MayMatch
  <2>2. /\ restingId \in Booked(Event.symbol)
        /\ resting.side # incoming.side
        /\ \A x \in Booked(Event.symbol) :
             orders[x].side # incoming.side /\ x # restingId =>
               \/ IF resting.side = "Buy"
                  THEN resting.price > orders[x].price
                  ELSE resting.price < orders[x].price
               \/ /\ resting.price = orders[x].price
                  /\ ArrivedAt(eventLog, restingId) < ArrivedAt(eventLog, x)
    BY <2>1, RestingIsBest
  <2>3. restingId \in Market!Opposite
    BY <2>2, MarketOfMatch DEF resting
  <2>4. ASSUME NEW x \in Market!Opposite, x # restingId
        PROVE  Market!Better(restingId, x)
    <3>1. x \in Booked(Event.symbol) /\ orders[x].side # incoming.side
      BY MarketOfMatch
    <3>2. \/ IF resting.side = "Buy"
             THEN resting.price > orders[x].price
             ELSE resting.price < orders[x].price
          \/ /\ resting.price = orders[x].price
             /\ Age[restingId] < Age[x]
      BY <1>1, <2>2, <2>4, <3>1
    <3> QED
      BY <3>2 DEF Market!Better, resting
  <2>5. restingId \in Market!Best
    BY <2>3, <2>4 DEF Market!Best
  <2>6. Market!Agree(incomingId, restingId)
    BY <2>1 DEF Crosses, Market!Agree, incoming, resting
  <2> QED
    BY <2>1, <2>5, <2>6, MarketOfMatch DEF Market!Counterparty, incoming
<1>3. ASSUME ~MayMatch, NEW x \in Market!Counterparty PROVE FALSE
  <2>1. /\ x \in Market!Opposite /\ Market!Agree(incomingId, x)
        /\ incoming.remaining > 0
    BY MarketOfMatch DEF Market!Counterparty, Market!Best, incoming
  <2>2. /\ x \in Booked(Event.symbol) /\ orders[x].side # incoming.side
        /\ x \in DOMAIN orders
    BY <1>1, <2>1, MarketOfMatch
  <2>3. /\ GoodBook(book, orders)
        /\ incoming \in Order /\ orders[x] \in Order
        /\ incoming.side = "Buy" =>
             \A p \in DOMAIN book.asks : incoming.price < p
        /\ incoming.side = "Sell" =>
             \A p \in DOMAIN book.bids : p < incoming.price
    BY <1>3, <2>1, <2>2, MatchFacts DEF IInv, TypeOK, IsMap
  <2>4. x \in DOMAIN book.lookup
        /\ book.lookup[x] = [side |-> orders[x].side, price |-> orders[x].price]
    BY <2>2, <2>3 DEF GoodBook, BookAgrees, Booked, book
  <2>5. /\ orders[x].side = "Sell" => orders[x].price \in DOMAIN book.asks
        /\ orders[x].side = "Buy" => orders[x].price \in DOMAIN book.bids
    BY <2>3, <2>4 DEF GoodBook, BookAgrees, SideAgrees
  <2>6. orders[x].price \in Int /\ incoming.price \in Int
        /\ orders[x].side \in {"Buy", "Sell"}
        /\ incoming.side \in {"Buy", "Sell"}
    BY <2>3 DEF Order, Side
  <2>7. CASE incoming.side = "Buy"
    BY <2>1, <2>2, <2>3, <2>5, <2>6, <2>7 DEF Market!Agree, incoming
  <2>8. CASE incoming.side = "Sell"
    BY <2>1, <2>2, <2>3, <2>5, <2>6, <2>8 DEF Market!Agree, incoming
  <2> QED
    BY <2>6, <2>7, <2>8
<1> QED
  BY <1>2, <1>3

LEMMA QuantityIsMatched == Market!Quantity(incomingId, restingId) = matchQuantity
BY DEF Market!Quantity, matchQuantity, incoming, resting

\* A turn that trades.
LEMMA TurnIsTrade ==
  ASSUME IInv, HistoryInv, BooksInOrder, MatchTrade
  PROVE  Market!Trade
<1>1. /\ pc = "matching" /\ MayMatch
      /\ CanFill(resting, matchQuantity)
      /\ orders' = Execute(Execute(orders, incomingId, matchQuantity),
                           restingId, matchQuantity)
      /\ books' = IF orders'[restingId].state = "Filled"
                  THEN [books EXCEPT ![Event.symbol] = BookRemove(@, restingId)]
                  ELSE books
      /\ trades' = Append(trades,
                          [incoming |-> incomingId, resting |-> restingId,
                           price |-> resting.price, quantity |-> matchQuantity])
      /\ UNCHANGED <<nextExpected, eventLog, executions, pc, returned>>
  BY DEF MatchTrade, TradePrice
<1>2. /\ restingId \in Market!Counterparty
      /\ Taker.id = incomingId /\ Taker.symbol = Event.symbol
      /\ Taker # Market!NoTaker
      /\ Event.symbol \in Symbols /\ Event.symbol \in DOMAIN books
  BY <1>1, CounterpartyIsResting, MarketOfMatch, MatchFacts
<1>3. Age' = Age /\ Taker' = Taker
  <2>1. [Step]_vars /\ ~MatchBegins
    BY <1>1 DEF Step, Match, MatchBegins, BeginMatch, Accept
  <2> QED
    BY <1>1, <2>1, AgeKept, TakerIs
<1>4. /\ matchQuantity \in Int
      /\ incomingId \in DOMAIN orders /\ restingId \in DOMAIN orders
      /\ resting \in Order
      /\ orders'[restingId] = Fill(resting, matchQuantity)
  BY <1>1, MatchTradeFacts, MatchFacts
<1>5. Resting' = IF matchQuantity < resting.remaining THEN Resting
                 ELSE [Resting EXCEPT ![Event.symbol] = @ \ {restingId}]
  <2>1. orders'[restingId].state = "Filled" <=> matchQuantity = resting.remaining
    BY <1>4 DEF Fill, Order
  <2>2. matchQuantity < resting.remaining <=> ~(matchQuantity = resting.remaining)
    BY <1>1, <1>4 DEF CanFill, Order
  <2>3. CASE matchQuantity < resting.remaining
    <3>1. books' = books
      BY <1>1, <2>1, <2>2, <2>3
    <3> QED
      BY <2>3, <3>1, MappedVariables
  <2>4. CASE ~(matchQuantity < resting.remaining)
    <3>1. books' = [books EXCEPT ![Event.symbol] = BookRemove(@, restingId)]
      BY <1>1, <2>1, <2>2, <2>4
    <3> QED
      BY <1>2, <2>4, <3>1, RestingRemoved
  <2> QED
    BY <2>3, <2>4
<1>6. Tape' = Append(Tape, [symbol |-> Event.symbol, incoming |-> incomingId,
                            resting |-> restingId, price |-> resting.price,
                            quantity |-> matchQuantity])
  <2> DEFINE t == [incoming |-> incomingId, resting |-> restingId,
                   price |-> resting.price, quantity |-> matchQuantity]
  <2>1. t \in TradeRecord
    <3>1. incomingId \in OrderId /\ restingId \in OrderId /\ resting.price \in Int
      BY <1>4 DEF IInv, TypeOK, IsMap, Order
    <3> QED
      BY <1>4, <3>1 DEF TradeRecord
  <2>2. TapeEntry(Event.symbol, t) =
          [symbol |-> Event.symbol, incoming |-> incomingId,
           resting |-> restingId, price |-> resting.price,
           quantity |-> matchQuantity]
    BY DEF TapeEntry
  <2>3. executions \in Seq(ExecutionRecord) /\ trades \in Seq(TradeRecord)
    BY DEF IInv, TypeOK
  <2>4. trades' = Append(trades, t)
    BY <1>1
  <2> HIDE DEF t
  <2>5. TapeOf(executions, Append(trades, t), Event.symbol) =
          Append(TapeOf(executions, trades, Event.symbol),
                 TapeEntry(Event.symbol, t))
    BY <1>2, <2>1, <2>3, TapeAppend
  <2>6. Event.symbol' = Event.symbol
    BY <1>1 DEF Event
  <2> QED
    BY <1>1, <2>2, <2>4, <2>5, <2>6, MappedVariables
<1>7. orders' = Market!Execute(Market!Execute(orders, incomingId, matchQuantity),
                               restingId, matchQuantity)
      /\ Market!CanFill(orders[restingId], matchQuantity)
  BY <1>1, SameOperators DEF resting
<1>8. Market!Quantity(Taker.id, restingId) = matchQuantity
  BY <1>2, QuantityIsMatched
<1> QED
  BY <1>2, <1>3, <1>5, <1>6, <1>7, <1>8 DEF Market!Trade, resting

\* A match that gives up, with or without a fill of the incoming order.
LEMMA AbandonIsGivingUp ==
  ASSUME IInv, HistoryInv, BooksInOrder, AbandonOnExhausted \/ AbandonHalfDone
  PROVE  Market!GiveUp
<1>1. /\ pc = "matching" /\ MayMatch /\ FinishMatch
      /\ eventLog' = eventLog /\ books' = books
  BY DEF AbandonOnExhausted, AbandonHalfDone
<1>2. /\ restingId \in Market!Counterparty
      /\ Taker.id = incomingId /\ Taker # Market!NoTaker
  BY <1>1, CounterpartyIsResting, MarketOfMatch
<1>3. Age' = Age /\ Taker' = NoTaker /\ Resting' = Resting /\ Tape' = Tape
  <2>1. [Step]_vars /\ ~MatchBegins
    BY <1>1 DEF Step, Match, MatchBegins, BeginMatch, Accept
  <2>2. pc' = "idle"
    BY <1>1 DEF FinishMatch, Return
  <2> QED
    BY <1>1, <2>1, <2>2, AgeKept, TakerIs, TapeFinished, MappedVariables
<1>4. /\ incoming \in Order /\ resting \in Order /\ Consistent(resting)
      /\ incoming.remaining > 0
  BY <1>1, MatchFacts
<1>5. /\ ~CanFill(resting, matchQuantity)
      /\ orders' = IF matchQuantity > 0
                   THEN Execute(orders, incomingId, matchQuantity) ELSE orders
  <2>1. CASE AbandonOnExhausted
    <3>1. resting.remaining <= 0 /\ orders' = orders
      BY <2>1 DEF AbandonOnExhausted
    <3>2. ~(matchQuantity > 0)
      BY <1>4, <3>1 DEF matchQuantity, Order
    <3> QED
      BY <3>1, <3>2 DEF CanFill
  <2>2. CASE AbandonHalfDone
    <3>1. /\ ~CanFill(resting, matchQuantity)
          /\ orders' = Execute(orders, incomingId, matchQuantity)
      BY <2>2 DEF AbandonHalfDone
    <3>2. matchQuantity > 0
      BY <2>2, HalfDoneFacts
    <3> QED
      BY <3>1, <3>2
  <2> QED
    BY <2>1, <2>2
<1>6. /\ ~Market!CanFill(orders[restingId], matchQuantity)
      /\ orders' = IF matchQuantity > 0
                   THEN Market!Execute(orders, Taker.id, matchQuantity)
                   ELSE orders
  BY <1>2, <1>5, SameOperators DEF resting
<1>7. Market!Quantity(Taker.id, restingId) = matchQuantity
  BY <1>2, QuantityIsMatched
<1> QED
  BY <1>2, <1>3, <1>6, <1>7, SameOperators DEF Market!GiveUp

\* The end of the matching loop.
LEMMA EndIsRest ==
  ASSUME IInv, HistoryInv, BooksInOrder, RestIfNeeded
  PROVE  Market!Rest
<1>1. /\ pc = "matching" /\ ~MayMatch /\ FinishMatch
      /\ books' = IF incoming.remaining > 0 /\ CanAdd(book, incomingId, incoming)
                  THEN [books EXCEPT ![Event.symbol] =
                                       BookAdd(@, incomingId, incoming)]
                  ELSE books
      /\ eventLog' = eventLog /\ orders' = orders
  BY DEF RestIfNeeded
<1>2. /\ Market!Counterparty = {}
      /\ Taker.id = incomingId /\ Taker.symbol = Event.symbol
      /\ Taker # Market!NoTaker
  BY <1>1, CounterpartyIsResting, MarketOfMatch
<1>3. Age' = Age /\ Taker' = NoTaker /\ Tape' = Tape
  <2>1. [Step]_vars /\ ~MatchBegins
    BY <1>1 DEF Step, Match, MatchBegins, BeginMatch, Accept
  <2>2. pc' = "idle"
    BY <1>1 DEF FinishMatch, Return
  <2> QED
    BY <1>1, <2>1, <2>2, AgeKept, TakerIs, TapeFinished
<1>4. /\ incoming \in Order /\ Consistent(incoming)
      /\ incoming.state # "CancelPending"
      /\ Event.symbol \in DOMAIN books /\ incomingId \notin Booked(Event.symbol)
  BY <1>1, MatchFacts
<1>5. Resting' = IF incoming.remaining = 0 THEN Resting
                 ELSE [Resting EXCEPT ![Event.symbol] = @ \cup {incomingId}]
  <2>1. CASE incoming.remaining = 0
    <3>1. books' = books
      BY <1>1, <2>1
    <3> QED
      BY <2>1, <3>1, MappedVariables
  <2>2. CASE incoming.remaining # 0
    <3>1. incoming.remaining > 0
      BY <1>4, <2>2 DEF Consistent, Order
    <3>2. CanAdd(book, incomingId, incoming)
      BY <1>4, <3>1 DEF CanAdd, BookContains, Consistent, Booked, book, Order
    <3>3. books' = [books EXCEPT ![Event.symbol] = BookAdd(@, incomingId, incoming)]
      BY <1>1, <3>1, <3>2
    <3> QED
      BY <1>4, <2>2, <3>3, RestingAdded
  <2> QED
    BY <2>1, <2>2
<1> QED
  BY <1>1, <1>2, <1>3, <1>5, SameOperators DEF Market!Rest, incoming

-----------------------------------------------------------------------------
(***************************************************************************)
(* The refinement.                                                         *)
(***************************************************************************)
LEMMA StepIsStep ==
  ASSUME IInv, HistoryInv, BooksInOrder, [Step]_vars
  PROVE  [Market!Next]_(Market!vars)
<1>1. CASE \/ Refuse \/ DuplicateRejected \/ CancelRejected \/ ExecuteRejected
           \/ DataTaken \/ UNCHANGED vars
  BY <1>1, QuietSteps
<1>2. CASE MatchBegins
  BY <1>2, BeginIsArrival DEF Market!Next
<1>3. CASE MatchTrade
  BY <1>3, TurnIsTrade DEF Market!Next, Market!Turn
<1>4. CASE AbandonOnExhausted \/ AbandonHalfDone
  BY <1>4, AbandonIsGivingUp DEF Market!Next, Market!Turn
<1>5. CASE RestIfNeeded
  BY <1>5, EndIsRest DEF Market!Next, Market!Turn
<1>6. CASE BookedCancelled
  BY <1>6, CancelIsWithdrawal DEF Market!Next
<1>7. CASE CancelMissesBook
  BY <1>7, CancelIsById DEF Market!Next
<1>8. CASE OrderExecuted
  BY <1>8, ExecuteIsById DEF Market!Next
<1> QED
  BY <1>1, <1>2, <1>3, <1>4, <1>5, <1>6, <1>7, <1>8 DEF Step, Match

\* Every behaviour of the engine is, state by state and step by step, one of
\* the markets of PriorityMarket: the safety part of ImplementsMarket.
THEOREM EngineIsMarket == Spec => Market!Init /\ [][Market!Next]_(Market!vars)
<1>1. Init => Market!Init
  BY InitIsInit
<1>2. IInv /\ HistoryInv /\ BooksInOrder /\ [Step]_vars =>
        [Market!Next]_(Market!vars)
  BY StepIsStep
<1> QED
  BY <1>1, <1>2, SpecIsRun, InductiveInvariant, HistoryInvariant,
     BooksAlwaysInOrder, PTL DEF Run

=============================================================================
