--------------------------- MODULE SimulatedProofs ----------------------------
(***************************************************************************)
(* An engine fed by the simulator, for every configuration: what its calls *)
(* may lose, and which orders its events name.                             *)
(***************************************************************************)
EXTENDS SimulatedMarket, HistoryProofs, FiniteSetTheorems

-----------------------------------------------------------------------------
(***************************************************************************)
(* Counting the Add events of a sequence.                                  *)
(***************************************************************************)
IsAdd(e) == e.payload.type = "Add"

\* How many of the first n events are Adds.
AddPlaces(s, n) == {i \in 1 .. n : IsAdd(s[i])}
AddsTo(s, n) == Cardinality(AddPlaces(s, n))

LEMMA AddPlacesFinite ==
  ASSUME NEW s, NEW n \in Nat
  PROVE  IsFiniteSet(AddPlaces(s, n)) /\ AddsTo(s, n) \in Nat
<1>1. IsFiniteSet(1 .. n)
  BY FS_Interval
<1>2. AddPlaces(s, n) \subseteq 1 .. n
  BY DEF AddPlaces
<1>3. IsFiniteSet(AddPlaces(s, n))
  BY <1>1, <1>2, FS_Subset
<1> QED
  BY <1>3, FS_CardinalityType DEF AddsTo

LEMMA NoAdds == ASSUME NEW s PROVE AddsTo(s, 0) = 0
<1>1. AddPlaces(s, 0) = {}
  BY DEF AddPlaces
<1> QED
  BY <1>1, FS_EmptySet DEF AddsTo

\* One event more counts one more when it is an Add.
LEMMA AddsToStep ==
  ASSUME NEW s, NEW n \in Nat
  PROVE  AddsTo(s, n + 1) = IF IsAdd(s[n + 1]) THEN AddsTo(s, n) + 1
                                               ELSE AddsTo(s, n)
<1>1. CASE IsAdd(s[n + 1])
  <2>1. AddPlaces(s, n + 1) = AddPlaces(s, n) \cup {n + 1}
    BY <1>1 DEF AddPlaces
  <2>2. n + 1 \notin AddPlaces(s, n)
    BY DEF AddPlaces
  <2>3. Cardinality(AddPlaces(s, n) \cup {n + 1})
          = Cardinality(AddPlaces(s, n)) + 1
    BY <2>2, AddPlacesFinite, FS_AddElement
  <2> QED
    BY <1>1, <2>1, <2>3 DEF AddsTo
<1>2. CASE ~IsAdd(s[n + 1])
  <2>1. AddPlaces(s, n + 1) = AddPlaces(s, n)
    BY <1>2 DEF AddPlaces
  <2> QED
    BY <1>2, <2>1 DEF AddsTo
<1> QED
  BY <1>1, <1>2

\* Sequences that begin alike count alike.
LEMMA AddsToSame ==
  ASSUME NEW s, NEW t, NEW n \in Nat, \A i \in 1 .. n : s[i] = t[i]
  PROVE  AddsTo(s, n) = AddsTo(t, n)
<1>1. AddPlaces(s, n) = AddPlaces(t, n)
  BY DEF AddPlaces
<1> QED
  BY <1>1 DEF AddsTo

LEMMA AddsIsAddsTo ==
  ASSUME NEW s \in Seq(MarketEvent)
  PROVE  Adds(s) = AddsTo(s, Len(s))
<1>1. DOMAIN s = 1 .. Len(s)
  BY LenProperties
<1> QED
  BY <1>1 DEF Adds, AddsTo, AddPlaces, IsAdd

\* The events of t count the same after those of s.
CountsFrom(u, n, t, k) == AddsTo(u, n + k) = AddsTo(u, n) + AddsTo(t, k)

LEMMA AddsToConcat ==
  ASSUME NEW u, NEW n \in Nat, NEW t, NEW m \in Nat,
         \A i \in 1 .. m : u[n + i] = t[i]
  PROVE  \A k \in 0 .. m : CountsFrom(u, n, t, k)
<1> DEFINE Bad == {k \in 0 .. m : ~CountsFrom(u, n, t, k)}
<1>1. SUFFICES ASSUME Bad # {} PROVE FALSE
  OBVIOUS
<1>2. PICK k \in Bad : \A j \in Bad : k <= j
  <2>1. Bad \in SUBSET Nat
    OBVIOUS
  <2> HIDE DEF Bad
  <2> QED
    BY <2>1, <1>1, LeastNatural
<1>3. k # 0
  <2>1. AddsTo(t, 0) = 0 /\ AddsTo(u, n) \in Nat /\ n + 0 = n
    BY NoAdds, AddPlacesFinite
  <2>2. CountsFrom(u, n, t, 0)
    BY <2>1 DEF CountsFrom
  <2> QED
    BY <1>2, <2>2
<1> DEFINE j == k - 1
<1>4. /\ j \in Nat /\ j + 1 = k /\ j \in 0 .. m /\ k \in 1 .. m
      /\ j \notin Bad /\ n + j \in Nat /\ (n + j) + 1 = n + k
  BY <1>2, <1>3
<1> HIDE DEF j
<1>5. CountsFrom(u, n, t, j)
  BY <1>4
<1>6. u[(n + j) + 1] = t[j + 1]
  BY <1>4
<1> DEFINE un == AddsTo(u, n)
           uj == AddsTo(u, n + j)
           uk == AddsTo(u, n + k)
           tj == AddsTo(t, j)
           tk == AddsTo(t, k)
<1>7. uk = (IF IsAdd(t[k]) THEN uj + 1 ELSE uj)
  BY <1>4, <1>6, AddsToStep
<1>8. tk = (IF IsAdd(t[k]) THEN tj + 1 ELSE tj)
  BY <1>4, AddsToStep
<1>9. un \in Nat /\ uj \in Nat /\ tj \in Nat
  BY <1>4, AddPlacesFinite
<1>10. uj = un + tj
  BY <1>5 DEF CountsFrom
<1> HIDE DEF un, uj, uk, tj, tk
<1>11. uk = un + tk
  BY <1>7, <1>8, <1>9, <1>10
<1>12. CountsFrom(u, n, t, k)
  BY <1>11 DEF CountsFrom, un, uk, tk
<1> QED
  BY <1>2, <1>12
-----------------------------------------------------------------------------
(***************************************************************************)
(* Sequences of events that name orders as the simulator does: each Add    *)
(* the next id, and each Cancel and Execute an id given out before it.     *)
(***************************************************************************)
Conforms(s, next) ==
  \A i \in DOMAIN s : s[i].payload \in Payloads(next + AddsTo(s, i - 1))

LEMMA ConformsConcat ==
  ASSUME NEW s \in Seq(MarketEvent), NEW t \in Seq(MarketEvent),
         NEW next \in Nat,
         Conforms(s, next), Conforms(t, next + AddsTo(s, Len(s)))
  PROVE  Conforms(s \o t, next)
<1> DEFINE u == s \o t
           n == Len(s)
           m == Len(t)
<1>1. /\ n \in Nat /\ m \in Nat /\ DOMAIN s = 1 .. n /\ DOMAIN t = 1 .. m
      /\ u \in Seq(MarketEvent) /\ DOMAIN u = 1 .. n + m
      /\ \A i \in 1 .. n : u[i] = s[i]
      /\ \A i \in 1 .. m : u[n + i] = t[i]
  BY LenProperties, ConcatProperties
<1> HIDE DEF u
<1>2. AddsTo(u, n) = AddsTo(s, n)
  BY <1>1, AddsToSame
<1>3. ASSUME NEW i \in 1 .. n
      PROVE  u[i].payload \in Payloads(next + AddsTo(u, i - 1))
  <2>1. AddsTo(u, i - 1) = AddsTo(s, i - 1)
    <3>1. i - 1 \in Nat /\ \A j \in 1 .. i - 1 : u[j] = s[j]
      BY <1>1
    <3> QED
      BY <3>1, AddsToSame
  <2> QED
    BY <1>1, <2>1 DEF Conforms
<1>4. ASSUME NEW k \in 1 .. m
      PROVE  u[n + k].payload \in Payloads(next + AddsTo(u, n + k - 1))
  <2>1. k - 1 \in 0 .. m /\ n + (k - 1) = n + k - 1 /\ k - 1 \in Nat
    BY <1>1
  <2>2. CountsFrom(u, n, t, k - 1)
    BY <1>1, <2>1, AddsToConcat
  <2>3. AddsTo(u, n + k - 1) = AddsTo(s, n) + AddsTo(t, k - 1)
    BY <1>2, <2>1, <2>2 DEF CountsFrom
  <2>4. AddsTo(s, n) \in Nat /\ AddsTo(t, k - 1) \in Nat
    BY <1>1, <2>1, AddPlacesFinite
  <2>5. next + AddsTo(u, n + k - 1) = (next + AddsTo(s, n)) + AddsTo(t, k - 1)
    BY <2>3, <2>4
  <2>6. t[k].payload \in Payloads((next + AddsTo(s, n)) + AddsTo(t, k - 1))
    BY <1>1 DEF Conforms
  <2> QED
    BY <1>1, <2>5, <2>6
<1>5. ASSUME NEW i \in DOMAIN u, i \notin 1 .. n
      PROVE  u[i].payload \in Payloads(next + AddsTo(u, i - 1))
  <2>1. i - n \in 1 .. m /\ n + (i - n) = i
    BY <1>1, <1>5
  <2> QED
    BY <1>4, <2>1
<1>6. Conforms(u, next)
  BY <1>1, <1>3, <1>5 DEF Conforms
<1> QED
  BY <1>6 DEF u

\* What begins a conforming sequence conforms.
LEMMA ConformsPrefix ==
  ASSUME NEW s \in Seq(MarketEvent), NEW t \in Seq(MarketEvent), NEW next,
         Conforms(s \o t, next)
  PROVE  Conforms(s, next)
<1> DEFINE u == s \o t
<1>1. /\ Len(s) \in Nat /\ DOMAIN s = 1 .. Len(s)
      /\ DOMAIN s \subseteq DOMAIN u
      /\ \A i \in 1 .. Len(s) : u[i] = s[i]
  BY LenProperties, ConcatProperties
<1> HIDE DEF u
<1>2. Conforms(u, next)
  BY DEF u
<1>3. ASSUME NEW i \in DOMAIN s
      PROVE  s[i].payload \in Payloads(next + AddsTo(s, i - 1))
  <2>1. i - 1 \in Nat /\ \A j \in 1 .. i - 1 : u[j] = s[j]
    BY <1>1
  <2>2. AddsTo(u, i - 1) = AddsTo(s, i - 1)
    BY <2>1, AddsToSame
  <2> QED
    BY <1>1, <1>2, <2>2 DEF Conforms
<1> QED
  BY <1>3 DEF Conforms

\* One event more, with the id that is its turn.
LEMMA ConformsAppend ==
  ASSUME NEW s \in Seq(MarketEvent), NEW e \in MarketEvent, NEW next \in Nat,
         Conforms(s, next), e.payload \in Payloads(next + AddsTo(s, Len(s)))
  PROVE  Conforms(Append(s, e), next)
<1> DEFINE u == Append(s, e)
           n == Len(s)
<1>1. /\ n \in Nat /\ DOMAIN s = 1 .. n
      /\ u \in Seq(MarketEvent) /\ DOMAIN u = 1 .. n + 1
      /\ \A i \in 1 .. n : u[i] = s[i]
      /\ u[n + 1] = e
  BY LenProperties, AppendProperties
<1> HIDE DEF u
<1>2. ASSUME NEW i \in DOMAIN u
      PROVE  u[i].payload \in Payloads(next + AddsTo(u, i - 1))
  <2>1. i - 1 \in Nat /\ \A j \in 1 .. i - 1 : u[j] = s[j]
    BY <1>1
  <2>2. AddsTo(u, i - 1) = AddsTo(s, i - 1)
    BY <2>1, AddsToSame
  <2>3. CASE i = n + 1
    <3>1. i - 1 = n
      BY <2>3, <1>1
    <3> QED
      BY <1>1, <2>2, <2>3, <3>1
  <2>4. CASE i # n + 1
    BY <1>1, <2>2, <2>4 DEF Conforms
  <2> QED
    BY <2>3, <2>4
<1>3. Conforms(u, next)
  BY <1>2 DEF Conforms
<1> QED
  BY <1>3 DEF u

\* The ids of the Adds among the first n events.
AddedIds(s, n) == {s[j].payload.order_id : j \in AddPlaces(s, n)}

LEMMA PayloadsNameOrders ==
  ASSUME NEW next \in Nat \ {0}, NEW p \in Payloads(next)
  PROVE  /\ p.type = "Add" => p.order_id = next
         /\ p.type \in {"Cancel", "Execute"} => p.order_id \in KnownIds(next)
BY DEF Payloads

\* The Adds of a conforming sequence have taken the ids 1, 2, 3 ... in turn.
LEMMA AddedIdsAreFirst ==
  ASSUME NEW s \in Seq(MarketEvent), Conforms(s, 1)
  PROVE  \A n \in 0 .. Len(s) : AddedIds(s, n) = 1 .. AddsTo(s, n)
<1> DEFINE Bad == {n \in 0 .. Len(s) : AddedIds(s, n) # 1 .. AddsTo(s, n)}
<1>0. Len(s) \in Nat /\ DOMAIN s = 1 .. Len(s)
  BY LenProperties
<1>1. SUFFICES ASSUME Bad # {} PROVE FALSE
  OBVIOUS
<1>2. PICK n \in Bad : \A j \in Bad : n <= j
  <2>1. Bad \in SUBSET Nat
    BY <1>0
  <2> HIDE DEF Bad
  <2> QED
    BY <2>1, <1>1, LeastNatural
<1>3. n # 0
  <2>1. AddsTo(s, 0) = 0
    BY NoAdds
  <2>2. AddedIds(s, 0) = {} /\ 1 .. 0 = {}
    BY DEF AddedIds, AddPlaces
  <2>3. 0 \notin Bad
    BY <2>1, <2>2
  <2> HIDE DEF Bad
  <2> QED
    BY <1>2, <2>3
<1> DEFINE m == n - 1
           k == AddsTo(s, m)
<1>4. /\ m \in Nat /\ m + 1 = n /\ m \in 0 .. Len(s) /\ n \in DOMAIN s
      /\ AddedIds(s, m) = 1 .. AddsTo(s, m)
  BY <1>0, <1>2, <1>3
<1>5. k \in Nat
  BY <1>4, AddPlacesFinite
<1>6. s[n].payload \in Payloads(1 + k)
  BY <1>4 DEF Conforms
<1> HIDE DEF m
<1>7. AddsTo(s, n) = IF IsAdd(s[n]) THEN k + 1 ELSE k
  BY <1>4, AddsToStep
<1>8. CASE IsAdd(s[n])
  <2>1. s[n].payload.order_id = k + 1
    BY <1>5, <1>6, <1>8, PayloadsNameOrders DEF IsAdd
  <2>2. AddPlaces(s, n) = AddPlaces(s, m) \cup {n}
    BY <1>4, <1>8 DEF AddPlaces
  <2>3. AddedIds(s, n) = AddedIds(s, m) \cup {k + 1}
    BY <2>1, <2>2 DEF AddedIds
  <2> HIDE DEF k
  <2>4. 1 .. k + 1 = (1 .. k) \cup {k + 1}
    BY <1>5
  <2> QED
    BY <1>2, <1>4, <1>7, <1>8, <2>3, <2>4 DEF k
<1>9. CASE ~IsAdd(s[n])
  <2>1. AddPlaces(s, n) = AddPlaces(s, m)
    BY <1>4, <1>9 DEF AddPlaces
  <2>2. AddedIds(s, n) = AddedIds(s, m)
    BY <2>1 DEF AddedIds
  <2> QED
    BY <1>2, <1>4, <1>7, <1>9, <2>2
<1> QED
  BY <1>8, <1>9

\* What a conforming log says of ids is IdsMeetOrders.
LEMMA ConformingLogMeets ==
  ASSUME eventLog \in Seq(MarketEvent), Conforms(eventLog, 1)
  PROVE  IdsMeetOrders
<1>0. Len(eventLog) \in Nat /\ DOMAIN eventLog = 1 .. Len(eventLog)
  BY LenProperties
<1>1. SUFFICES ASSUME NEW i \in DOMAIN eventLog,
                      NEW p, p = eventLog[i].payload,
                      NEW added, added = AddedIds(eventLog, i - 1)
               PROVE  /\ p.type = "Add" => p.order_id \notin added
                      /\ p.type \in {"Cancel", "Execute"} =>
                           p.order_id \in IF added = {} THEN {1} ELSE added
  BY DEF IdsMeetOrders, AddedIds, AddPlaces, IsAdd
<1> DEFINE k == AddsTo(eventLog, i - 1)
<1>2. i - 1 \in Nat /\ i - 1 \in 0 .. Len(eventLog)
  BY <1>0
<1>3. k \in Nat /\ p \in Payloads(1 + k)
  BY <1>1, <1>2, AddPlacesFinite DEF Conforms
<1>4. added = 1 .. k
  BY <1>1, <1>2, AddedIdsAreFirst
<1> HIDE DEF k
<1>5. /\ p.type = "Add" => p.order_id = 1 + k
      /\ p.type \in {"Cancel", "Execute"} => p.order_id \in KnownIds(1 + k)
  BY <1>3, PayloadsNameOrders
<1>6. KnownIds(1 + k) = IF added = {} THEN {1} ELSE added
  <2>1. 1 .. (1 + k) - 1 = 1 .. k
    BY <1>3
  <2>2. 1 .. k = {} <=> ~(1 + k > 1)
    BY <1>3
  <2> QED
    BY <1>4, <2>1, <2>2 DEF KnownIds
<1> QED
  BY <1>3, <1>4, <1>5, <1>6

-----------------------------------------------------------------------------
(***************************************************************************)
(* The events that the simulator makes.                                    *)
(***************************************************************************)
CountersTyped ==
  /\ generated \in Nat /\ nextNumber \in Nat /\ nextOrderId \in Nat \ {0}
  /\ clock \in Times

LEMMA PayloadsTyped ==
  ASSUME NEW next \in Nat \ {0}, NEW p \in Payloads(next)
  PROVE  p \in TradeEvent \cup QuoteEvent \cup AddOrderEvent
               \cup CancelOrderEvent \cup ExecuteOrderEvent
<1>1. /\ \A x \in DrawnPrices : x \in Nat
      /\ \A x \in DrawnQuantities : x \in Nat
      /\ \A x \in Spreads : x \in Nat
  BY DrawsAssumption
<1>2. KnownIds(next) \subseteq Nat
  BY DEF KnownIds
<1>3. CASE p \in [type : {"Trade"}, price : DrawnPrices,
                  quantity : DrawnQuantities]
  BY <1>1, <1>3 DEF TradeEvent
<1>4. CASE p \in {[type |-> "Quote", bid_price |-> x, bid_quantity |-> q,
                   asking_price |-> x + spread, asking_quantity |-> r] :
                    x \in DrawnPrices, spread \in Spreads,
                    q \in DrawnQuantities, r \in DrawnQuantities}
  BY <1>1, <1>4 DEF QuoteEvent
<1>5. CASE p \in [type : {"Add"}, order_id : {next}, side : Side,
                  price : DrawnPrices, quantity : DrawnQuantities]
  BY <1>1, <1>5 DEF AddOrderEvent
<1>6. CASE p \in [type : {"Cancel"}, order_id : KnownIds(next),
                  quantity : DrawnQuantities]
  BY <1>1, <1>2, <1>6 DEF CancelOrderEvent
<1>7. CASE p \in [type : {"Execute"}, order_id : KnownIds(next),
                  price : DrawnPrices, quantity : DrawnQuantities]
  BY <1>1, <1>2, <1>7 DEF ExecuteOrderEvent
<1> QED
  BY <1>3, <1>4, <1>5, <1>6, <1>7 DEF Payloads

LEMMA GeneratedGood ==
  ASSUME clock \in Times, NEW n \in Nat, NEW next \in Nat \ {0},
         NEW e \in Generated(n, next)
  PROVE  /\ e \in MarketEvent
         /\ e.sequence_number = n
         /\ e.payload \in Payloads(next)
<1>1. /\ e = [event_id |-> e.event_id, sequence_number |-> e.sequence_number,
              timestamp |-> e.timestamp, symbol |-> e.symbol,
              payload |-> e.payload]
      /\ e.event_id = n /\ e.sequence_number = n /\ e.timestamp = clock
      /\ e.symbol \in ConfigSymbols /\ e.payload \in Payloads(next)
  BY DEF Generated
<1>2. e.symbol \in Symbols \cup {NoSymbol} /\ clock \in Int
  BY <1>1, ConfigAssumption, DrawsAssumption
<1>3. e.payload \in TradeEvent \cup QuoteEvent \cup AddOrderEvent
                    \cup CancelOrderEvent \cup ExecuteOrderEvent
  BY <1>1, PayloadsTyped
<1>4. e \in MarketEvent
  BY <1>1, <1>2, <1>3 DEF MarketEvent
<1> QED
  BY <1>1, <1>4

\* Events numbered and naming orders as the simulator's counters have it.
Batch(s) ==
  /\ s \in Seq(MarketEvent)
  /\ \A i \in DOMAIN s : s[i].sequence_number = (nextNumber + i) - 1
  /\ Conforms(s, nextOrderId)

LEMMA ExtendedGood ==
  ASSUME CountersTyped, NEW s, Batch(s), NEW t \in Extended(s)
  PROVE  Batch(t)
<1>1. /\ s \in Seq(MarketEvent) /\ Len(s) \in Nat
      /\ DOMAIN s = 1 .. Len(s)
  BY LenProperties DEF Batch
<1>2. SUFFICES ASSUME NEW e \in Generated(nextNumber + Len(s),
                                          nextOrderId + Adds(s)),
                      t = Append(s, e)
               PROVE  Batch(t)
  BY DEF Extended
<1>3. Adds(s) = AddsTo(s, Len(s)) /\ AddsTo(s, Len(s)) \in Nat
  BY <1>1, AddsIsAddsTo, AddPlacesFinite
<1>4. /\ e \in MarketEvent
      /\ e.sequence_number = nextNumber + Len(s)
      /\ e.payload \in Payloads(nextOrderId + AddsTo(s, Len(s)))
  <2>1. /\ nextNumber + Len(s) \in Nat
        /\ nextOrderId + AddsTo(s, Len(s)) \in Nat \ {0}
    BY <1>1, <1>3 DEF CountersTyped
  <2> QED
    BY <2>1, <1>3, GeneratedGood DEF CountersTyped
<1>5. Conforms(t, nextOrderId)
  BY <1>1, <1>2, <1>4, ConformsAppend DEF Batch, CountersTyped
<1>6. /\ t \in Seq(MarketEvent)
      /\ DOMAIN t = 1 .. Len(s) + 1
      /\ \A i \in 1 .. Len(s) : t[i] = s[i]
      /\ t[Len(s) + 1] = e
  BY <1>1, <1>2, <1>4, AppendProperties, LenProperties
<1>7. ASSUME NEW i \in DOMAIN t
      PROVE  t[i].sequence_number = (nextNumber + i) - 1
  <2>1. CASE i = Len(s) + 1
    <3>1. (nextNumber + i) - 1 = nextNumber + Len(s)
      BY <2>1, <1>1 DEF CountersTyped
    <3> QED
      BY <2>1, <3>1, <1>4, <1>6
  <2>2. CASE i # Len(s) + 1
    BY <2>2, <1>1, <1>6 DEF Batch
  <2> QED
    BY <2>1, <2>2
<1> QED
  BY <1>5, <1>6, <1>7 DEF Batch

\* What the recursion of Drawn says, up to n.
Longer(S) == UNION {Extended(s) : s \in S}
Draws(f, n) ==
  f = [m \in 0 .. n |-> IF m = 0 THEN {<<>>} ELSE Longer(f[m - 1])]

LEMMA DrawsExist ==
  ASSUME NEW N \in Nat
  PROVE  \E f : Draws(f, N)
<1> DEFINE Bad == {n \in 0 .. N : ~ \E f : Draws(f, n)}
<1>1. SUFFICES ASSUME Bad # {} PROVE FALSE
  <2>1. N \in 0 .. N
    OBVIOUS
  <2> QED
    BY <2>1
<1>2. PICK n \in Bad : \A m \in Bad : n <= m
  <2>1. Bad \in SUBSET Nat
    OBVIOUS
  <2> HIDE DEF Bad
  <2> QED
    BY <2>1, <1>1, LeastNatural
<1>3. n # 0
  <2> DEFINE f == [m \in 0 .. 0 |-> {<<>>}]
  <2>1. Draws(f, 0)
    BY DEF Draws
  <2> HIDE DEF f
  <2> QED
    BY <2>1
<1>4. n \in 1 .. N /\ n - 1 \in 0 .. N /\ n - 1 \notin Bad
  BY <1>2, <1>3
<1>5. PICK f : Draws(f, n - 1)
  BY <1>4
<1> DEFINE f2 == [m \in 0 .. n |-> IF m = n THEN Longer(f[n - 1]) ELSE f[m]]
<1>6. \A m \in 0 .. n - 1 : f[m] = IF m = 0 THEN {<<>>} ELSE Longer(f[m - 1])
  BY <1>5 DEF Draws
<1>7. \A m \in 1 .. n : f2[m - 1] = f[m - 1]
  BY <1>4
<1>8. \A m \in 0 .. n :
        f2[m] = IF m = 0 THEN {<<>>} ELSE Longer(f2[m - 1])
  <2>1. TAKE m \in 0 .. n
  <2>2. CASE m = 0
    BY <2>2, <1>4, <1>6
  <2>3. CASE m \in 1 .. n - 1
    BY <2>3, <1>4, <1>6, <1>7
  <2>4. CASE m = n
    BY <2>4, <1>4, <1>7
  <2> QED
    BY <1>4, <2>2, <2>3, <2>4
<1>9. Draws(f2, n)
  <2>1. f2 = [m \in 0 .. n |-> f2[m]]
    OBVIOUS
  <2> HIDE DEF f2
  <2> QED
    BY <2>1, <1>8 DEF Draws
<1> HIDE DEF f2
<1> QED
  BY <1>2, <1>9

LEMMA DrawnIsDraws == Draws(Drawn, MaxBatch)
<1>1. MaxBatch \in Nat
  BY DrawsAssumption
<1>2. Drawn = CHOOSE f : Draws(f, MaxBatch)
  BY DEF Drawn, Draws, Longer
<1>3. \E f : Draws(f, MaxBatch)
  BY <1>1, DrawsExist
<1> QED
  BY <1>2, <1>3

\* Whatever next_batch may make is numbered and names orders in turn.
LEMMA DrawnGood ==
  ASSUME CountersTyped, NEW max \in 0 .. MaxBatch, NEW events \in Drawn[max]
  PROVE  Batch(events)
<1> DEFINE Bad == {m \in 0 .. MaxBatch : \E s \in Drawn[m] : ~Batch(s)}
<1>0. MaxBatch \in Nat
  BY DrawsAssumption
<1>1. SUFFICES ASSUME Bad # {} PROVE FALSE
  OBVIOUS
<1>2. PICK n \in Bad : \A m \in Bad : n <= m
  <2>1. Bad \in SUBSET Nat
    BY <1>0
  <2> HIDE DEF Bad
  <2> QED
    BY <2>1, <1>1, LeastNatural
<1>3. PICK t \in Drawn[n] : ~Batch(t)
  BY <1>2
<1>4. Drawn[n] = IF n = 0 THEN {<<>>}
                 ELSE UNION {Extended(s) : s \in Drawn[n - 1]}
  BY <1>2, DrawnIsDraws DEF Draws, Longer
<1>5. CASE n = 0
  <2>1. Batch(<<>>)
    BY DEF Batch, Conforms
  <2> QED
    BY <1>3, <1>4, <1>5, <2>1
<1>6. CASE n # 0
  <2>1. PICK s \in Drawn[n - 1] : t \in Extended(s)
    BY <1>3, <1>4, <1>6
  <2>2. n - 1 \in 0 .. MaxBatch /\ n - 1 \notin Bad
    BY <1>0, <1>2, <1>6
  <2>3. Batch(s)
    BY <2>1, <2>2
  <2> QED
    BY <1>3, <2>1, <2>3, ExtendedGood
<1> QED
  BY <1>5, <1>6

-----------------------------------------------------------------------------
(***************************************************************************)
(* Where the simulator stands to the engine.  A log, the number that is    *)
(* expected next, the rest of the batch under way, and the simulator's     *)
(* counters: the rest of the batch is the last that the simulator made, no *)
(* number is skipped unless something was dropped, and as long as none is  *)
(* skipped the log and the rest together name orders in turn.              *)
(***************************************************************************)
InTurn(made, orderId) ==
  Conforms(made, 1) /\ orderId = 1 + AddsTo(made, Len(made))

Sound(log, expected, rest, number, orderId, dropped) ==
  /\ rest \in Seq(MarketEvent)
  /\ \A i \in DOMAIN rest :
       /\ rest[i].sequence_number = ((number - Len(rest)) + i) - 1
       /\ IsValid(rest[i])
  /\ number - Len(rest) >= expected
  /\ number - Len(rest) > expected => dropped
  /\ Conforms(log, 1)
  /\ number - Len(rest) = expected => InTurn(log \o rest, orderId)

CallsTyped ==
  /\ call \in {"none", "process", "process_batch"}
  /\ cut \in BOOLEAN /\ threw \in BOOLEAN
  /\ call # "process_batch" => batch = <<>>
  /\ call = "process_batch" /\ pc = "idle" => batch # <<>>

MarketInv ==
  /\ IInv
  /\ CountersTyped
  /\ CallsTyped
  /\ Sound(eventLog, nextExpected, batch, nextNumber, nextOrderId, Dropped)

\* Leaving the rest of a batch drops it.
LEMMA LeaveRest ==
  ASSUME NEW log \in Seq(MarketEvent), NEW x \in Nat, NEW rest, NEW n \in Nat,
         NEW o, NEW d \in BOOLEAN, Sound(log, x, rest, n, o, d)
  PROVE  Sound(log, x, <<>>, n, o, d \/ rest # <<>>)
<1>1. CASE rest = <<>>
  BY <1>1
<1>2. CASE rest # <<>>
  <2>1. Len(rest) \in Nat \ {0}
    BY <1>2, EmptySeq DEF Sound
  <2>2. <<>> \in Seq(MarketEvent) /\ Len(<<>>) = 0 /\ DOMAIN <<>> = {}
    BY EmptySeq
  <2>3. n - Len(<<>>) > x
    BY <2>1, <2>2 DEF Sound
  <2> QED
    BY <1>2, <2>2, <2>3 DEF Sound
<1> QED
  BY <1>1, <1>2

\* The simulator makes a batch when none is under way.
LEMMA MakeBatch ==
  ASSUME NEW log \in Seq(MarketEvent), NEW x \in Nat, NEW n \in Nat,
         NEW o \in Nat, NEW d, Sound(log, x, <<>>, n, o, d),
         NEW events \in Seq(MarketEvent),
         \A i \in DOMAIN events :
           events[i].sequence_number = (n + i) - 1 /\ IsValid(events[i]),
         Conforms(events, o)
  PROVE  Sound(log, x, events, n + Len(events), o + Adds(events), d)
<1> DEFINE k == Len(events)
<1>1. k \in Nat /\ DOMAIN events = 1 .. k /\ Len(log) \in Nat
  BY LenProperties
<1>2. (n + k) - k = n
  BY <1>1
<1>3. /\ Len(<<>>) = 0 /\ n - 0 = n
      /\ log \o <<>> = log
  BY EmptySeq, ConcatEmptySeq
<1>4. /\ n >= x
      /\ n > x => d
      /\ Conforms(log, 1)
      /\ n = x => InTurn(log, o)
  BY <1>3 DEF Sound
<1>5. ASSUME n = x PROVE InTurn(log \o events, o + Adds(events))
  <2> DEFINE u == log \o events
  <2>1. o = 1 + AddsTo(log, Len(log))
    BY <1>4, <1>5 DEF InTurn
  <2>2. Conforms(u, 1)
    BY <1>4, <2>1, ConformsConcat
  <2>3. /\ Len(u) = Len(log) + k
        /\ \A i \in 1 .. Len(log) : u[i] = log[i]
        /\ \A i \in 1 .. k : u[Len(log) + i] = events[i]
    BY <1>1, ConcatProperties
  <2> HIDE DEF u
  <2>4. AddsTo(u, Len(log)) = AddsTo(log, Len(log))
    BY <1>1, <2>3, AddsToSame
  <2>5. CountsFrom(u, Len(log), events, k)
    <3>1. \A j \in 0 .. k : CountsFrom(u, Len(log), events, j)
      BY <1>1, <2>3, AddsToConcat
    <3>2. k \in 0 .. k
      BY <1>1
    <3> HIDE DEF k
    <3> QED
      BY <3>1, <3>2
  <2>6. AddsTo(u, Len(u)) = AddsTo(log, Len(log)) + AddsTo(events, k)
    BY <2>3, <2>4, <2>5 DEF CountsFrom
  <2>7. AddsTo(log, Len(log)) \in Nat /\ AddsTo(events, k) \in Nat
    BY <1>1, AddPlacesFinite
  <2>8. o + Adds(events) = 1 + AddsTo(u, Len(u))
    BY <2>1, <2>6, <2>7, AddsIsAddsTo
  <2>9. InTurn(u, o + Adds(events))
    BY <2>2, <2>8 DEF InTurn
  <2> QED
    BY <2>9 DEF u
<1> QED
  BY <1>1, <1>2, <1>4, <1>5 DEF Sound

\* process gets the first event of the rest, which it takes when the number
\* is the expected one.
LEMMA TakeHead ==
  ASSUME NEW log \in Seq(MarketEvent), NEW x \in Nat, NEW rest, rest # <<>>,
         NEW n \in Nat, NEW o, NEW d, Sound(log, x, rest, n, o, d),
         Head(rest).sequence_number = x
  PROVE  Sound(Append(log, Head(rest)), x + 1, Tail(rest), n, o, d)
<1> DEFINE e == Head(rest)
           k == Len(rest)
           tail == Tail(rest)
           log2 == Append(log, e)
<1>1. rest \in Seq(MarketEvent)
  BY DEF Sound
<1>2. /\ k \in Nat \ {0} /\ DOMAIN rest = 1 .. k
      /\ e \in MarketEvent /\ e = rest[1]
      /\ tail \in Seq(MarketEvent) /\ Len(tail) = k - 1
      /\ DOMAIN tail = 1 .. k - 1
      /\ \A i \in 1 .. k - 1 : tail[i] = rest[i + 1]
  BY <1>1, EmptySeq, LenProperties, HeadTailProperties
<1>3. log2 \o tail = log \o rest
  <2>1. /\ <<e>> \in Seq(MarketEvent) /\ Len(<<e>>) = 1 /\ <<e>>[1] = e
    BY <1>2
  <2>2. log2 = log \o <<e>>
    BY <1>2, AppendIsConcat
  <2>3. log2 \o tail = log \o (<<e>> \o tail)
    BY <1>2, <2>1, <2>2, ConcatAssociative
  <2>4. /\ <<e>> \o tail \in Seq(MarketEvent)
        /\ Len(<<e>> \o tail) = k
        /\ \A i \in 1 .. k : (<<e>> \o tail)[i]
                               = IF i <= 1 THEN e ELSE tail[i - 1]
    BY <1>2, <2>1, ConcatProperties
  <2>5. \A i \in 1 .. k : (<<e>> \o tail)[i] = rest[i]
    BY <1>2, <2>4
  <2>6. <<e>> \o tail = rest
    BY <1>1, <1>2, <2>4, <2>5, SeqEqual
  <2> QED
    BY <2>3, <2>6
<1>4. log2 \in Seq(MarketEvent)
  BY <1>2, AppendProperties
<1>5. n - k = x
  <2>1. e.sequence_number = ((n - k) + 1) - 1
    BY <1>2 DEF Sound
  <2> QED
    BY <1>2, <2>1
<1> HIDE DEF e, log2, tail
<1>6. n - Len(tail) = x + 1
  BY <1>2, <1>5
<1>7. InTurn(log2 \o tail, o)
  BY <1>3, <1>5 DEF Sound
<1>8. Conforms(log2, 1)
  BY <1>2, <1>4, <1>7, ConformsPrefix DEF InTurn
<1>9. \A i \in DOMAIN tail :
        /\ tail[i].sequence_number = ((n - Len(tail)) + i) - 1
        /\ IsValid(tail[i])
  <2>1. TAKE i \in DOMAIN tail
  <2>2. i + 1 \in DOMAIN rest /\ tail[i] = rest[i + 1] /\ i \in Nat
    BY <1>2
  <2>3. rest[i + 1].sequence_number = ((n - k) + (i + 1)) - 1
        /\ IsValid(rest[i + 1])
    BY <2>2 DEF Sound
  <2>4. ((n - k) + (i + 1)) - 1 = ((n - Len(tail)) + i) - 1
    BY <1>2, <2>2
  <2> QED
    BY <2>2, <2>3, <2>4
<1>10. Sound(log2, x + 1, tail, n, o, d)
  BY <1>2, <1>6, <1>7, <1>8, <1>9 DEF Sound
<1> QED
  BY <1>10 DEF e, log2, tail

\* It refuses the event otherwise, and by then something was dropped.
LEMMA RefuseHead ==
  ASSUME NEW log \in Seq(MarketEvent), NEW x \in Nat, NEW rest, rest # <<>>,
         NEW n \in Nat, NEW o, NEW d, Sound(log, x, rest, n, o, d),
         Head(rest).sequence_number # x
  PROVE  Sound(log, x, Tail(rest), n, o, d) /\ n - Len(rest) > x
<1> DEFINE k == Len(rest)
           tail == Tail(rest)
<1>1. rest \in Seq(MarketEvent)
  BY DEF Sound
<1>2. /\ k \in Nat \ {0} /\ DOMAIN rest = 1 .. k
      /\ Head(rest) = rest[1]
      /\ tail \in Seq(MarketEvent) /\ Len(tail) = k - 1
      /\ DOMAIN tail = 1 .. k - 1
      /\ \A i \in 1 .. k - 1 : tail[i] = rest[i + 1]
  BY <1>1, EmptySeq, LenProperties, HeadTailProperties
<1>3. n - k > x
  <2>1. rest[1].sequence_number = ((n - k) + 1) - 1
    BY <1>2 DEF Sound
  <2>2. n - k # x
    BY <1>2, <2>1
  <2> QED
    BY <1>2, <2>2 DEF Sound
<1> HIDE DEF tail
<1>4. n - Len(tail) > x
  BY <1>2, <1>3
<1>5. \A i \in DOMAIN tail :
        /\ tail[i].sequence_number = ((n - Len(tail)) + i) - 1
        /\ IsValid(tail[i])
  <2>1. TAKE i \in DOMAIN tail
  <2>2. i + 1 \in DOMAIN rest /\ tail[i] = rest[i + 1] /\ i \in Nat
    BY <1>2
  <2>3. rest[i + 1].sequence_number = ((n - k) + (i + 1)) - 1
        /\ IsValid(rest[i + 1])
    BY <2>2 DEF Sound
  <2>4. ((n - k) + (i + 1)) - 1 = ((n - Len(tail)) + i) - 1
    BY <1>2, <2>2
  <2> QED
    BY <2>2, <2>3, <2>4
<1>6. d /\ Conforms(log, 1)
  BY <1>3 DEF Sound
<1>7. Sound(log, x, tail, n, o, d)
  BY <1>2, <1>4, <1>5, <1>6 DEF Sound
<1> QED
  BY <1>3, <1>7 DEF tail

-----------------------------------------------------------------------------
(***************************************************************************)
(* Steps.                                                                  *)
(***************************************************************************)

\* What process does with a valid event, as far as its number goes.
LEMMA ProcessByNumber ==
  ASSUME NEW e, IsValid(e), Process(e)
  PROVE  \/ /\ e.sequence_number # nextExpected
            /\ UNCHANGED <<nextExpected, eventLog>> /\ pc' = "idle"
         \/ /\ e.sequence_number = nextExpected
            /\ nextExpected' = nextExpected + 1
            /\ eventLog' = Append(eventLog, e)
<1>1. CASE Refuses(e) /\ Refuse
  BY <1>1 DEF Refuses, Refuse
<1>2. CASE Accept(e)
  BY <1>2 DEF Accept, Refuses
<1>3. CASE Take(e)
  BY <1>2, <1>3
     DEF Take, RejectDuplicateAdd, BeginMatch, RejectCancel, CancelNotInBook,
         CancelBooked, RejectExecute, ExecuteOrder, MarketData
<1> QED
  BY <1>1, <1>3 DEF Process

\* A turn of matching touches neither the log nor the numbers.
LEMMA MatchKeepsLog ==
  ASSUME Match
  PROVE  UNCHANGED <<nextExpected, eventLog>>
BY DEF Match, MatchTrade, AbandonOnExhausted, AbandonHalfDone, RestIfNeeded

\* Whatever the loop does with the rest of the batch keeps what was sound.
LEMMA AfterStepKeeps ==
  ASSUME eventLog' \in Seq(MarketEvent), nextExpected' \in Nat,
         nextNumber' \in Nat, cut \in BOOLEAN, threw \in BOOLEAN,
         threw' = threw, NEW rest, AfterStep(rest),
         call \in {"process", "process_batch"},
         call = "process" => rest = <<>>,
         pc' \in {"idle", "matching"},
         Sound(eventLog', nextExpected', rest, nextNumber', nextOrderId',
               Dropped)
  PROVE  /\ CallsTyped'
         /\ Sound(eventLog', nextExpected', batch', nextNumber', nextOrderId',
                  Dropped')
<1>1. CASE call' = "none" /\ batch' = <<>> /\ cut' = (cut \/ rest # <<>>)
  <2>1. Dropped \in BOOLEAN
    BY DEF Dropped
  <2>2. Sound(eventLog', nextExpected', <<>>, nextNumber', nextOrderId',
              Dropped \/ rest # <<>>)
    BY <2>1, LeaveRest
  <2>3. (Dropped \/ rest # <<>>) = Dropped'
    BY <1>1 DEF Dropped
  <2>4. CallsTyped'
    BY <1>1 DEF CallsTyped
  <2> QED
    BY <1>1, <2>2, <2>3, <2>4
<1>2. CASE /\ call' = call /\ batch' = rest /\ cut' = cut
           /\ ~(pc' = "idle" /\ (~returned' \/ (call = "process_batch"
                                                /\ rest = <<>>)))
  <2>1. Dropped' = Dropped
    BY <1>2 DEF Dropped
  <2>2. CallsTyped'
    BY <1>2 DEF CallsTyped
  <2> QED
    BY <1>2, <2>1, <2>2
<1> QED
  BY <1>1, <1>2 DEF AfterStep

\* Every step of the market is a step of its engine, or leaves it alone.
LEMMA MarketStepIsStep ==
  ASSUME MarketInv, [MarketNext]_marketVars
  PROVE  [Step]_vars
<1>0. CountersTyped /\ clock \in Times /\ nextNumber \in Nat
      /\ nextOrderId \in Nat \ {0}
  BY DEF MarketInv, CountersTyped
<1>1. CASE MatchTurn
  BY <1>1 DEF MatchTurn, Step
<1>2. CASE ProcessNext
  <2>1. PICK e \in Generated(nextNumber, nextOrderId) : Process(e)
    BY <1>2 DEF ProcessNext, ProcessTakes
  <2>2. e \in MarketEvent
    BY <1>0, GeneratedGood
  <2> QED
    BY <2>1, <2>2, ProcessIsStep
<1>3. CASE BatchNext
  <2>1. batch # <<>> /\ batch \in Seq(MarketEvent) /\ Process(Head(batch))
    BY <1>3 DEF BatchNext, MarketInv, CallsTyped, Sound
  <2>2. Head(batch) \in MarketEvent
    BY <2>1, HeadTailProperties
  <2> QED
    BY <2>1, <2>2, ProcessIsStep
<1>4. CASE UNCHANGED vars
  BY <1>4
<1>5. ASSUME NEW max, CallBatch(max) \/ CallBatchThrows(max)
      PROVE  UNCHANGED vars
  BY <1>5 DEF CallBatch, CallProcessBatch, CallBatchThrows, engineVars
<1>6. CASE Call \/ ProcessThrows \/ ProcessDone \/ AdvanceClock
           \/ UNCHANGED marketVars
  <2>1. UNCHANGED vars
    BY <1>6 DEF Call, CallProcess, ProcessThrows, ProcessDone, ProcessEnds,
                AdvanceClock, engineVars, marketVars
  <2> QED
    BY <2>1
<1> QED
  BY <1>1, <1>2, <1>3, <1>4, <1>5, <1>6 DEF MarketNext, InCall

\* The counters go up by what was made.
LEMMA CountedTyped ==
  ASSUME CountersTyped, NEW events \in Seq(MarketEvent), Counted(events)
  PROVE  CountersTyped'
<1>1. Len(events) \in Nat
  BY LenProperties
<1>2. Adds(events) \in Nat
  BY <1>1, AddsIsAddsTo, AddPlacesFinite
<1> QED
  BY <1>1, <1>2 DEF Counted, CountersTyped

\* The events of a draw, when all are valid, follow on from what was made.
LEMMA DrawSound ==
  ASSUME IInv, CountersTyped, NEW d,
         Sound(eventLog, nextExpected, <<>>, nextNumber, nextOrderId, d),
         NEW events, Batch(events), Counted(events),
         \A i \in DOMAIN events : IsValid(events[i])
  PROVE  Sound(eventLog, nextExpected, events, nextNumber', nextOrderId', d)
<1>1. /\ eventLog \in Seq(MarketEvent) /\ nextExpected \in Nat
      /\ nextNumber \in Nat /\ nextOrderId \in Nat
  BY DEF IInv, TypeOK, CountersTyped
<1>2. /\ events \in Seq(MarketEvent)
      /\ \A i \in DOMAIN events :
           events[i].sequence_number = (nextNumber + i) - 1
      /\ Conforms(events, nextOrderId)
  BY DEF Batch
<1>3. Sound(eventLog, nextExpected, events, nextNumber + Len(events),
            nextOrderId + Adds(events), d)
  BY <1>1, <1>2, MakeBatch
<1> QED
  BY <1>3 DEF Counted

\* When events are lost in a throw, that is a drop.
LEMMA ThrowSound ==
  ASSUME NEW log, NEW x \in Nat, NEW n \in Nat, NEW o, NEW d,
         Sound(log, x, <<>>, n, o, d), NEW k \in Nat \ {0}, NEW o2
  PROVE  Sound(log, x, <<>>, n + k, o2, TRUE)
<1>1. <<>> \in Seq(MarketEvent) /\ Len(<<>>) = 0 /\ DOMAIN <<>> = {}
  BY EmptySeq
<1>2. (n + k) - Len(<<>>) > x /\ Conforms(log, 1)
  BY <1>1 DEF Sound
<1> QED
  BY <1>1, <1>2 DEF Sound

\* The next of the events in hand, processed.
LEMMA HeadSound ==
  ASSUME IInv, nextNumber \in Nat, nextNumber' \in Nat, NEW d, NEW rest,
         rest # <<>>, Process(Head(rest)),
         Sound(eventLog, nextExpected, rest, nextNumber', nextOrderId', d)
  PROVE  Sound(eventLog', nextExpected', Tail(rest), nextNumber', nextOrderId',
               d)
<1>1. eventLog \in Seq(MarketEvent) /\ nextExpected \in Nat
  BY DEF IInv, TypeOK
<1>2. /\ rest \in Seq(MarketEvent)
      /\ \A i \in DOMAIN rest : IsValid(rest[i])
  BY DEF Sound
<1>3. 1 \in DOMAIN rest /\ Head(rest) = rest[1]
  BY <1>2, EmptySeq, LenProperties
<1>4. IsValid(Head(rest))
  BY <1>2, <1>3
<1>5. CASE /\ Head(rest).sequence_number = nextExpected
           /\ nextExpected' = nextExpected + 1
           /\ eventLog' = Append(eventLog, Head(rest))
  BY <1>1, <1>5, TakeHead
<1>6. CASE /\ Head(rest).sequence_number # nextExpected
           /\ UNCHANGED <<nextExpected, eventLog>>
  <2>1. Sound(eventLog, nextExpected, Tail(rest), nextNumber', nextOrderId', d)
    BY <1>1, <1>6, RefuseHead
  <2> QED
    BY <1>6, <2>1
<1> QED
  BY <1>4, <1>5, <1>6, ProcessByNumber

\* What the steps of the market keep beside the engine's own invariant.
CallsSound ==
  /\ CountersTyped
  /\ CallsTyped
  /\ Sound(eventLog, nextExpected, batch, nextNumber, nextOrderId, Dropped)

\* After a turn of matching.
LEMMA MatchTurnKeeps ==
  ASSUME MarketInv, IInv', MatchTurn, UNCHANGED simVars
  PROVE  CallsSound'
<1>1. /\ eventLog' = eventLog /\ nextExpected' = nextExpected
      /\ nextNumber' = nextNumber /\ nextOrderId' = nextOrderId
      /\ clock' = clock /\ generated' = generated /\ threw' = threw
  BY MatchKeepsLog DEF MatchTurn, simVars
<1>2. /\ eventLog' \in Seq(MarketEvent) /\ nextExpected' \in Nat
      /\ pc' \in {"idle", "matching"}
  BY DEF IInv, TypeOK
<1>3. /\ call \in {"process", "process_batch"}
      /\ call = "process" => batch = <<>>
      /\ cut \in BOOLEAN /\ threw \in BOOLEAN /\ AfterStep(batch)
  BY DEF MatchTurn, MarketInv, CallsTyped
<1>4. Sound(eventLog', nextExpected', batch, nextNumber', nextOrderId', Dropped)
  BY <1>1 DEF MarketInv
<1>5. CountersTyped' /\ nextNumber' \in Nat
  BY <1>1 DEF MarketInv, CountersTyped
<1> QED
  BY <1>1, <1>2, <1>3, <1>4, <1>5, AfterStepKeeps DEF CallsSound

\* After an event that process(source) has got.
LEMMA ProcessNextKeeps ==
  ASSUME MarketInv, IInv', ProcessNext
  PROVE  CallsSound'
<1>0. CountersTyped /\ CallsTyped /\ IInv
  BY DEF MarketInv
<1>1. PICK e \in Generated(nextNumber, nextOrderId) :
             IsValid(e) /\ ProcessTakes(e) /\ Counted(<<e>>)
  BY DEF ProcessNext
<1>2. /\ e \in MarketEvent /\ e.sequence_number = nextNumber
      /\ e.payload \in Payloads(nextOrderId)
      /\ nextNumber \in Nat /\ nextOrderId \in Nat
  BY <1>0, GeneratedGood DEF CountersTyped
<1>3. /\ call = "process" /\ batch = <<>> /\ AfterStep(<<>>) /\ Process(e)
      /\ cut \in BOOLEAN /\ threw \in BOOLEAN /\ threw' = threw
  BY <1>0, <1>1 DEF ProcessTakes, CallsTyped, ProcessNext
<1> DEFINE s == <<e>>
<1>4. /\ s \in Seq(MarketEvent) /\ DOMAIN s = {1} /\ s[1] = e
      /\ s # <<>> /\ Head(s) = e /\ Tail(s) = <<>> /\ Counted(s)
  BY <1>1, <1>2
<1> HIDE DEF s
<1>5. Batch(s)
  <2>1. (nextNumber + 1) - 1 = nextNumber
    BY <1>2
  <2>2. AddsTo(s, 1 - 1) = 0
    BY NoAdds
  <2>3. nextOrderId + 0 = nextOrderId
    BY <1>2
  <2>4. Conforms(s, nextOrderId)
    BY <1>2, <1>4, <2>2, <2>3 DEF Conforms
  <2> QED
    BY <1>2, <1>4, <2>1, <2>4 DEF Batch
<1>6. Sound(eventLog, nextExpected, s, nextNumber', nextOrderId', Dropped)
  <2>1. Sound(eventLog, nextExpected, <<>>, nextNumber, nextOrderId, Dropped)
    BY <1>3 DEF MarketInv
  <2>2. \A i \in DOMAIN s : IsValid(s[i])
    BY <1>1, <1>4
  <2> QED
    BY <1>0, <1>4, <1>5, <2>1, <2>2, DrawSound
<1>7. CountersTyped' /\ nextNumber' \in Nat
  <2>1. CountersTyped'
    BY <1>0, <1>4, CountedTyped
  <2> QED
    BY <2>1 DEF CountersTyped
<1>8. Sound(eventLog', nextExpected', <<>>, nextNumber', nextOrderId', Dropped)
  <2>1. Sound(eventLog', nextExpected', Tail(s), nextNumber', nextOrderId',
              Dropped)
    BY <1>0, <1>2, <1>3, <1>4, <1>6, <1>7, HeadSound
  <2> QED
    BY <1>4, <2>1
<1>9. /\ eventLog' \in Seq(MarketEvent) /\ nextExpected' \in Nat
      /\ pc' \in {"idle", "matching"}
  BY DEF IInv, TypeOK
<1> QED
  BY <1>3, <1>7, <1>8, <1>9, AfterStepKeeps DEF CallsSound

\* After an event of the batch under way.
LEMMA BatchNextKeeps ==
  ASSUME MarketInv, IInv', BatchNext, UNCHANGED simVars
  PROVE  CallsSound'
<1>0. CountersTyped /\ CallsTyped /\ IInv
  BY DEF MarketInv
<1>1. /\ nextNumber' = nextNumber /\ nextOrderId' = nextOrderId
      /\ clock' = clock /\ generated' = generated /\ threw' = threw
  BY DEF simVars
<1>2. /\ call = "process_batch" /\ batch # <<>>
      /\ Process(Head(batch)) /\ AfterStep(Tail(batch))
      /\ cut \in BOOLEAN /\ threw \in BOOLEAN
  BY <1>0 DEF BatchNext, CallsTyped
<1>3. Sound(eventLog, nextExpected, batch, nextNumber', nextOrderId', Dropped)
  BY <1>1 DEF MarketInv
<1>4. CountersTyped' /\ nextNumber \in Nat /\ nextNumber' \in Nat
  BY <1>0, <1>1 DEF CountersTyped
<1>5. Sound(eventLog', nextExpected', Tail(batch), nextNumber', nextOrderId',
            Dropped)
  BY <1>0, <1>2, <1>3, <1>4, HeadSound
<1>6. /\ eventLog' \in Seq(MarketEvent) /\ nextExpected' \in Nat
      /\ pc' \in {"idle", "matching"}
  BY DEF IInv, TypeOK
<1> QED
  BY <1>1, <1>2, <1>4, <1>5, <1>6, AfterStepKeeps DEF CallsSound

\* After a call of process_batch that got a batch.
LEMMA CallBatchKeeps ==
  ASSUME MarketInv, NEW max \in 1 .. MaxBatch, CallBatch(max)
  PROVE  CallsSound'
<1>0. CountersTyped /\ CallsTyped /\ IInv
  BY DEF MarketInv
<1>1. PICK events \in Drawn[max] :
             /\ \A i \in DOMAIN events : IsValid(events[i])
             /\ CallProcessBatch(events)
             /\ Counted(events)
  BY DEF CallBatch
<1>2. /\ call = "none" /\ batch = <<>> /\ events # <<>>
      /\ call' = "process_batch" /\ batch' = events
      /\ cut' = cut /\ threw' = threw
      /\ eventLog' = eventLog /\ nextExpected' = nextExpected /\ pc' = pc
  BY <1>0, <1>1
     DEF CallProcessBatch, Between, CallsTyped, CallBatch, vars
<1>3. Batch(events)
  <2>1. max \in 0 .. MaxBatch
    BY DrawsAssumption
  <2> QED
    BY <1>0, <2>1, DrawnGood
<1>4. Sound(eventLog, nextExpected, events, nextNumber', nextOrderId', Dropped)
  <2>1. Sound(eventLog, nextExpected, <<>>, nextNumber, nextOrderId, Dropped)
    BY <1>2 DEF MarketInv
  <2> QED
    BY <1>0, <1>1, <1>3, <2>1, DrawSound
<1>5. Dropped' = Dropped
  BY <1>2 DEF Dropped
<1>6. CallsTyped'
  BY <1>0, <1>2 DEF CallsTyped
<1>7. CountersTyped'
  BY <1>0, <1>1, <1>3, CountedTyped DEF Batch
<1> QED
  BY <1>2, <1>4, <1>5, <1>6, <1>7 DEF CallsSound

\* After next_event threw, having made events that are lost.
LEMMA LostKeeps ==
  ASSUME MarketInv, NEW events, Batch(events), events # <<>>, Counted(events),
         batch = <<>>, batch' = <<>>, threw' = TRUE, cut' = cut,
         call' = "none",
         UNCHANGED <<nextExpected, eventLog, pc>>
  PROVE  CallsSound'
<1>0. CountersTyped /\ CallsTyped /\ IInv
  BY DEF MarketInv
<1>1. events \in Seq(MarketEvent) /\ Len(events) \in Nat \ {0}
  BY EmptySeq DEF Batch
<1>2. CountersTyped'
  BY <1>0, <1>1, CountedTyped
<1>3. nextExpected \in Nat /\ nextNumber \in Nat
  BY <1>0 DEF IInv, TypeOK, CountersTyped
<1>4. Sound(eventLog, nextExpected, <<>>, nextNumber, nextOrderId, Dropped)
  BY DEF MarketInv
<1>5. Sound(eventLog, nextExpected, <<>>, nextNumber + Len(events),
            nextOrderId', TRUE)
  BY <1>1, <1>3, <1>4, ThrowSound
<1>6. Dropped' = TRUE
  BY DEF Dropped
<1>7. Sound(eventLog', nextExpected', batch', nextNumber', nextOrderId',
            Dropped')
  BY <1>5, <1>6 DEF Counted
<1>8. CallsTyped'
  BY <1>0 DEF CallsTyped
<1> QED
  BY <1>2, <1>7, <1>8 DEF CallsSound

LEMMA ThrowsKeep ==
  ASSUME MarketInv,
         ProcessThrows \/ \E max \in 1 .. MaxBatch : CallBatchThrows(max)
  PROVE  CallsSound'
<1>0. CountersTyped /\ CallsTyped /\ IInv
  BY DEF MarketInv
<1>1. CASE ProcessThrows
  <2>1. PICK e \in Generated(nextNumber, nextOrderId) : Counted(<<e>>)
    BY <1>1 DEF ProcessThrows
  <2>2. /\ e \in MarketEvent /\ e.sequence_number = nextNumber
        /\ e.payload \in Payloads(nextOrderId)
        /\ nextNumber \in Nat /\ nextOrderId \in Nat
    BY <1>0, GeneratedGood DEF CountersTyped
  <2> DEFINE s == <<e>>
  <2>3. /\ s \in Seq(MarketEvent) /\ DOMAIN s = {1} /\ s[1] = e
        /\ s # <<>> /\ Counted(s)
    BY <2>1, <2>2
  <2> HIDE DEF s
  <2>4. Batch(s)
    <3>1. (nextNumber + 1) - 1 = nextNumber
      BY <2>2
    <3>2. AddsTo(s, 1 - 1) = 0
      BY NoAdds
    <3>3. nextOrderId + 0 = nextOrderId
      BY <2>2
    <3>4. Conforms(s, nextOrderId)
      BY <2>2, <2>3, <3>2, <3>3 DEF Conforms
    <3> QED
      BY <2>2, <2>3, <3>1, <3>4 DEF Batch
  <2>5. /\ batch = <<>> /\ batch' = <<>> /\ threw' = TRUE /\ cut' = cut
        /\ call' = "none"
        /\ UNCHANGED <<nextExpected, eventLog, pc>>
    BY <1>0, <1>1 DEF ProcessThrows, CallsTyped, vars
  <2> QED
    BY <2>3, <2>4, <2>5, LostKeeps
<1>2. CASE \E max \in 1 .. MaxBatch : CallBatchThrows(max)
  <2>1. PICK max \in 1 .. MaxBatch : CallBatchThrows(max)
    BY <1>2
  <2>2. PICK events \in Drawn[max] : events # <<>> /\ Counted(events)
    BY <2>1 DEF CallBatchThrows
  <2>3. Batch(events)
    <3>1. max \in 0 .. MaxBatch
      BY DrawsAssumption
    <3> QED
      BY <1>0, <3>1, DrawnGood
  <2>4. /\ batch = <<>> /\ batch' = <<>> /\ threw' = TRUE /\ cut' = cut
        /\ call' = "none"
        /\ UNCHANGED <<nextExpected, eventLog, pc>>
    BY <1>0, <2>1
       DEF CallBatchThrows, Between, CallsTyped, engineVars, vars
  <2> QED
    BY <2>2, <2>3, <2>4, LostKeeps
<1> QED
  BY <1>1, <1>2

\* Steps that make no event and touch no batch.
LEMMA IdleStepsKeep ==
  ASSUME MarketInv,
         Call \/ ProcessDone \/ AdvanceClock \/ UNCHANGED marketVars
  PROVE  CallsSound'
<1>0. CountersTyped /\ CallsTyped
  BY DEF MarketInv
<1>1. /\ UNCHANGED <<nextExpected, eventLog, pc, batch, cut, threw>>
      /\ UNCHANGED <<generated, nextNumber, nextOrderId>>
  BY DEF Call, CallProcess, ProcessDone, ProcessEnds, AdvanceClock,
         engineVars, simVars, marketVars, vars
<1>2. clock' \in Times
  BY <1>0 DEF Call, ProcessDone, AdvanceClock, simVars, marketVars,
              CountersTyped
<1>3. CountersTyped'
  BY <1>0, <1>1, <1>2 DEF CountersTyped
<1>4. /\ call' \in {"none", "process", "process_batch"}
      /\ call' # "process_batch" => batch' = <<>>
      /\ call' = "process_batch" /\ pc' = "idle" => batch' # <<>>
  BY <1>0, <1>1
     DEF CallsTyped, Call, CallProcess, Between, ProcessDone, ProcessEnds,
         AdvanceClock, engineVars, marketVars
<1>5. CallsTyped'
  BY <1>0, <1>1, <1>4 DEF CallsTyped
<1>6. Sound(eventLog', nextExpected', batch', nextNumber', nextOrderId',
            Dropped')
  BY <1>1 DEF MarketInv, Dropped
<1> QED
  BY <1>3, <1>5, <1>6 DEF CallsSound

LEMMA MarketStepKeeps ==
  ASSUME MarketInv, [MarketNext]_marketVars
  PROVE  MarketInv'
<1>1. IInv'
  BY MarketStepIsStep, StepKeeps DEF MarketInv
<1>2. CASE MatchTurn /\ UNCHANGED simVars
  BY <1>1, <1>2, MatchTurnKeeps DEF CallsSound, MarketInv
<1>3. CASE ProcessNext
  BY <1>1, <1>3, ProcessNextKeeps DEF CallsSound, MarketInv
<1>4. CASE BatchNext /\ UNCHANGED simVars
  BY <1>1, <1>4, BatchNextKeeps DEF CallsSound, MarketInv
<1>5. CASE \E max \in 1 .. MaxBatch : CallBatch(max)
  BY <1>1, <1>5, CallBatchKeeps DEF CallsSound, MarketInv
<1>6. CASE ProcessThrows \/ \E max \in 1 .. MaxBatch : CallBatchThrows(max)
  BY <1>1, <1>6, ThrowsKeep DEF CallsSound, MarketInv
<1>7. CASE Call \/ ProcessDone \/ AdvanceClock \/ UNCHANGED marketVars
  BY <1>1, <1>7, IdleStepsKeep DEF CallsSound, MarketInv
<1> QED
  BY <1>2, <1>3, <1>4, <1>5, <1>6, <1>7 DEF MarketNext, InCall

LEMMA MarketInitGood == MarketInit => MarketInv
<1>1. SUFFICES ASSUME MarketInit PROVE MarketInv
  OBVIOUS
<1>2. Init /\ IInv
  BY <1>1, InitGood DEF MarketInit, CallsInit
<1>3. CountersTyped
  BY <1>1 DEF MarketInit, CountersTyped
<1>4. CallsTyped
  BY <1>1 DEF MarketInit, CallsInit, CallsTyped
<1>5. Sound(eventLog, nextExpected, batch, nextNumber, nextOrderId, Dropped)
  <2>1. /\ eventLog = <<>> /\ nextExpected = 1 /\ batch = <<>>
        /\ nextNumber = 1 /\ nextOrderId = 1
    BY <1>1, <1>2 DEF Init, MarketInit, CallsInit
  <2>2. /\ <<>> \in Seq(MarketEvent) /\ Len(<<>>) = 0 /\ DOMAIN <<>> = {}
        /\ <<>> \o <<>> = <<>>
    BY EmptySeq, ConcatEmptySeq
  <2>3. Conforms(<<>>, 1) /\ AddsTo(<<>>, 0) = 0
    BY <2>2, NoAdds DEF Conforms
  <2> QED
    BY <2>1, <2>2, <2>3 DEF Sound, InTurn
<1> QED
  BY <1>2, <1>3, <1>4, <1>5 DEF MarketInv

-----------------------------------------------------------------------------
(***************************************************************************)
(* Theorems.                                                               *)
(***************************************************************************)

\* The simulator's counters, the batch under way and the engine's log stand to
\* each other as MarketInv says, in every state.
THEOREM MarketInvariant == MarketSpec => []MarketInv
<1>1. MarketInit => MarketInv
  BY MarketInitGood
<1>2. MarketInv /\ [MarketNext]_marketVars => MarketInv'
  BY MarketStepKeeps
<1> QED
  BY <1>1, <1>2, PTL DEF MarketSpec

\* An engine in the hands of process(source), process_batch and the simulator
\* does what an engine does in the hands of any caller, so that what is proved
\* of a Run holds of it.
THEOREM MarketIsRun == MarketSpec => Run
<1>1. MarketInit => Init
  BY DEF MarketInit, CallsInit
<1>2. MarketInv /\ [MarketNext]_marketVars => [Step]_vars
  BY MarketStepIsStep
<1> QED
  BY <1>1, <1>2, MarketInvariant, PTL DEF MarketSpec, Run

\* The engine falls behind the simulator only when next_event threw or a failed
\* event cost the rest of a batch.
THEOREM GapsAreDrops == MarketSpec => []GapOnlyByDrop
<1>1. MarketInv => GapOnlyByDrop
  BY DEF MarketInv, Sound, GapOnlyByDrop, Gap
<1> QED
  BY <1>1, MarketInvariant, PTL

\* Events name orders as the simulator gave out their ids, and a drop of events
\* does not bring an id back.
THEOREM IdsKeepMeetingOrders == MarketSpec => []IdsMeetOrders
<1>1. MarketInv => IdsMeetOrders
  BY ConformingLogMeets DEF MarketInv, Sound, IInv, TypeOK
<1> QED
  BY <1>1, MarketInvariant, PTL

\* Once behind, the engine takes no event again.
LEMMA BehindLogsNothing ==
  ASSUME MarketInv, [MarketNext]_marketVars, Gap
  PROVE  eventLog' = eventLog
<1>1. CASE MatchTurn
  BY <1>1, MatchKeepsLog DEF MatchTurn
<1>2. CASE ProcessNext
  <2>1. PICK e \in Generated(nextNumber, nextOrderId) : IsValid(e) /\ Process(e)
    BY <1>2 DEF ProcessNext, ProcessTakes
  <2>2. e.sequence_number = nextNumber
    BY GeneratedGood DEF MarketInv, CountersTyped
  <2>3. batch = <<>> /\ Len(<<>>) = 0 /\ nextNumber - 0 = nextNumber
    BY <1>2, EmptySeq
       DEF ProcessNext, ProcessTakes, MarketInv, CallsTyped, CountersTyped
  <2>4. e.sequence_number # nextExpected
    BY <2>2, <2>3 DEF Gap, MarketInv, CountersTyped, IInv, TypeOK
  <2> QED
    BY <2>1, <2>4, ProcessByNumber
<1>3. CASE BatchNext
  <2>1. batch # <<>> /\ batch \in Seq(MarketEvent) /\ Process(Head(batch))
    BY <1>3 DEF BatchNext, MarketInv, CallsTyped, Sound
  <2>2. 1 \in DOMAIN batch /\ Head(batch) = batch[1] /\ Len(batch) \in Nat
    BY <2>1, EmptySeq, LenProperties
  <2>3. /\ Head(batch).sequence_number = ((nextNumber - Len(batch)) + 1) - 1
        /\ IsValid(Head(batch))
    BY <2>2 DEF MarketInv, Sound
  <2>4. Head(batch).sequence_number # nextExpected
    BY <2>2, <2>3 DEF Gap, MarketInv, CountersTyped, IInv, TypeOK
  <2> QED
    BY <2>1, <2>3, <2>4, ProcessByNumber
<1>4. ASSUME NEW max, CallBatch(max) \/ CallBatchThrows(max)
      PROVE  eventLog' = eventLog
  BY <1>4 DEF CallBatch, CallProcessBatch, CallBatchThrows, engineVars, vars
<1>5. CASE Call \/ ProcessThrows \/ ProcessDone \/ AdvanceClock
           \/ UNCHANGED marketVars
  BY <1>5 DEF Call, CallProcess, ProcessThrows, ProcessDone, ProcessEnds,
              AdvanceClock, engineVars, marketVars, vars
<1> QED
  BY <1>1, <1>2, <1>3, <1>4, <1>5 DEF MarketNext, InCall

\* A gap is for ever: nothing that is generated after it is taken.
THEOREM GapsAreForever == MarketSpec => GapIsForever
<1>1. MarketInv /\ [MarketNext]_marketVars =>
        [Gap => eventLog' = eventLog]_marketVars
  BY BehindLogsNothing
<1> QED
  BY <1>1, MarketInvariant, PTL DEF MarketSpec, GapIsForever

=============================================================================
