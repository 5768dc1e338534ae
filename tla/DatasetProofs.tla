----------------------------- MODULE DatasetProofs -----------------------------
(***************************************************************************)
(* The features, targets and partitions, for every stream of events, every *)
(* window and all fractions.                                               *)
(***************************************************************************)
EXTENDS TradeDatasets, FunctionTheorems, FiniteSetTheorems, SequenceTheorems,
        WellFoundedInduction, TLAPS

-----------------------------------------------------------------------------
(***************************************************************************)
(* Sorting a finite set by a strict order, given as the set of its pairs.  *)
(***************************************************************************)
StrictOrder(R, S) ==
  /\ \A x \in S : <<x, x>> \notin R
  /\ \A x, y, z \in S : <<x, y>> \in R /\ <<y, z>> \in R => <<x, z>> \in R
  /\ \A x, y \in S : x = y \/ <<x, y>> \in R \/ <<y, x>> \in R

Below(x, R, S) == {y \in S : <<y, x>> \in R}

\* t lists the members of S, each one before all that follow it.
Lists(t, R, S) ==
  /\ t \in [1 .. Cardinality(S) -> S]
  /\ \A i, j \in 1 .. Cardinality(S) : i < j => <<t[i], t[j]>> \in R
  /\ \A x \in S : \E i \in 1 .. Cardinality(S) : t[i] = x

\* Whoever is later has more before it.
LEMMA RankGrows ==
  ASSUME NEW S, IsFiniteSet(S), NEW R, StrictOrder(R, S),
         NEW x \in S, NEW y \in S, <<x, y>> \in R
  PROVE  /\ Cardinality(Below(x, R, S)) \in Nat
         /\ Cardinality(Below(y, R, S)) \in Nat
         /\ Cardinality(Below(x, R, S)) < Cardinality(Below(y, R, S))
<1> DEFINE A == Below(x, R, S)
           B == Below(y, R, S)
<1>1. A \in SUBSET B /\ B \in SUBSET S /\ x \in B /\ x \notin A
  BY DEF Below, StrictOrder
<1> HIDE DEF A, B
<1>2. IsFiniteSet(B)
  BY <1>1, FS_Subset
<1>3. IsFiniteSet(A) /\ Cardinality(A) <= Cardinality(B)
      /\ (Cardinality(B) = Cardinality(A) => B = A)
  BY <1>1, <1>2, FS_Subset
<1>4. Cardinality(A) \in Nat /\ Cardinality(B) \in Nat
  BY <1>2, <1>3, FS_CardinalityType
<1>5. A # B
  BY <1>1
<1> QED
  BY <1>3, <1>4, <1>5 DEF A, B

LEMMA RankedLists ==
  ASSUME NEW S, IsFiniteSet(S), NEW R, StrictOrder(R, S)
  PROVE  Lists(Sorted(S, R), R, S)
<1> DEFINE n == Cardinality(S)
           r == [x \in S |-> Cardinality(Below(x, R, S))]
           t == Sorted(S, R)
<1>1. n \in Nat
  BY FS_CardinalityType
<1>2. ASSUME NEW x \in S PROVE r[x] \in 0 .. n - 1
  <2>1. Below(x, R, S) \in SUBSET (S \ {x})
    BY DEF Below, StrictOrder
  <2>2. IsFiniteSet(S \ {x}) /\ Cardinality(S \ {x}) = n - 1
    BY FS_RemoveElement
  <2>3. /\ IsFiniteSet(Below(x, R, S))
        /\ Cardinality(Below(x, R, S)) <= Cardinality(S \ {x})
    BY <2>1, <2>2, FS_Subset
  <2>4. Cardinality(Below(x, R, S)) \in Nat
    BY <2>3, FS_CardinalityType
  <2> QED
    BY <1>1, <2>2, <2>3, <2>4
<1>3. ASSUME NEW x \in S, NEW y \in S, <<x, y>> \in R PROVE r[x] < r[y]
  BY <1>3, RankGrows
<1>4. \A x, y \in S : r[x] = r[y] => x = y
  <2> SUFFICES ASSUME NEW x \in S, NEW y \in S, r[x] = r[y], x # y PROVE FALSE
    OBVIOUS
  <2>1. <<x, y>> \in R \/ <<y, x>> \in R
    BY DEF StrictOrder
  <2>2. r[x] \in Int /\ r[y] \in Int /\ (r[x] < r[y] \/ r[y] < r[x])
    BY <1>2, <1>3, <2>1
  <2> HIDE DEF r
  <2> QED
    BY <2>2
<1>5. \A i \in 1 .. n : t[i] = CHOOSE x \in S : r[x] = i - 1
  <2> DEFINE place(x) == Cardinality({y \in S : <<y, x>> \in R})
  <2>1. \A i \in 1 .. n : t[i] = CHOOSE x \in S : place(x) = i - 1
    BY DEF Sorted
  <2>2. \A x \in S : r[x] = place(x)
    BY DEF Below
  <2> HIDE DEF place, r, t, n
  <2>3. ASSUME NEW i
        PROVE  (CHOOSE x \in S : place(x) = i - 1) = CHOOSE x \in S : r[x] = i - 1
    BY <2>2
  <2> QED
    BY <2>1, <2>3, Zenon
<1>6. r \in [S -> 0 .. n - 1] /\ DOMAIN r = S
  BY <1>2
<1> HIDE DEF r, t
<1>7. r \in Injection(S, 0 .. n - 1)
  BY <1>4, <1>6 DEF Injection, IsInjective
<1>8. IsFiniteSet(0 .. n - 1) /\ Cardinality(0 .. n - 1) = n
  <2>1. 0 \in Int /\ n - 1 \in Int
    BY <1>1
  <2>2. /\ IsFiniteSet(0 .. n - 1)
        /\ Cardinality(0 .. n - 1) = IF 0 > n - 1 THEN 0 ELSE (n - 1) - 0 + 1
    BY <2>1, FS_Interval
  <2> HIDE DEF n
  <2> QED
    BY <1>1, <2>2
<1>9. r \in Surjection(S, 0 .. n - 1)
  BY <1>7, <1>8, FS_Injection
<1>10. ASSUME NEW i \in 1 .. n PROVE t[i] \in S /\ r[t[i]] = i - 1
  <2>1. i - 1 \in 0 .. n - 1
    BY <1>1
  <2>2. \E x \in S : r[x] = i - 1
    BY <1>9, <2>1 DEF Surjection
  <2> QED
    BY <1>5, <2>2
<1>11. t \in [1 .. n -> S]
  <2> DEFINE at(i) == CHOOSE x \in S : Cardinality({y \in S : <<y, x>> \in R}) = i - 1
  <2>1. t = [i \in 1 .. n |-> at(i)]
    BY DEF t, n, Sorted
  <2> HIDE DEF at, n
  <2> QED
    BY <1>10, <2>1
<1>12. ASSUME NEW i \in 1 .. n, NEW j \in 1 .. n, i < j
       PROVE  <<t[i], t[j]>> \in R
  <2>1. t[i] \in S /\ t[j] \in S /\ r[t[i]] = i - 1 /\ r[t[j]] = j - 1
    BY <1>10
  <2>2. t[i] # t[j]
    BY <1>1, <1>12, <2>1
  <2>3. CASE <<t[j], t[i]>> \in R
    <3>1. r[t[j]] < r[t[i]]
      BY <1>3, <2>1, <2>3
    <3> QED
      BY <1>1, <1>12, <2>1, <3>1
  <2> QED
    BY <2>1, <2>2, <2>3 DEF StrictOrder
<1>13. ASSUME NEW x \in S PROVE \E i \in 1 .. n : t[i] = x
  <2>1. PICK i \in 1 .. n : i - 1 = r[x]
    <3>1. PICK k \in 0 .. n - 1 : k = r[x]
      BY <1>2
    <3>2. k + 1 \in 1 .. n /\ (k + 1) - 1 = k
      BY <1>1
    <3> QED
      BY <3>1, <3>2
  <2>2. t[i] \in S /\ r[t[i]] = r[x]
    BY <1>10, <2>1
  <2> QED
    BY <1>4, <2>2
<1> QED
  BY <1>11, <1>12, <1>13 DEF Lists, n, t

-----------------------------------------------------------------------------
(***************************************************************************)
(* The trades of a symbol.                                                 *)
(***************************************************************************)

\* The events of a stream are numbered in order and have integer times.
IsStream(s) ==
  /\ \E S : s \in Seq(S)
  /\ \A n \in 1 .. Len(s) : s[n].sequence_number = n /\ s[n].timestamp \in Int

Trades(symbol, stream) ==
  {e \in Range(stream) : e.type = "Trade" /\ e.symbol = symbol}

LEMMA StreamFacts ==
  ASSUME NEW s, IsStream(s)
  PROVE  /\ Len(s) \in Nat /\ DOMAIN s = 1 .. Len(s)
         /\ IsFiniteSet(Range(s))
         /\ \A e \in Range(s) : /\ e.sequence_number \in 1 .. Len(s)
                                /\ s[e.sequence_number] = e
                                /\ e.timestamp \in Int
<1>1. PICK S : s \in Seq(S)
  BY DEF IsStream
<1>2. Len(s) \in Nat /\ DOMAIN s = 1 .. Len(s)
  BY <1>1, LenProperties
<1>3. s \in Surjection(1 .. Len(s), Range(s))
  <2>1. s = [i \in 1 .. Len(s) |-> s[i]]
    BY <1>1, <1>2
  <2>2. \A i \in 1 .. Len(s) : s[i] \in Range(s)
    BY <1>2 DEF Range
  <2>3. s \in [1 .. Len(s) -> Range(s)]
    BY <2>1, <2>2
  <2>4. \A e \in Range(s) : \E i \in 1 .. Len(s) : s[i] = e
    BY <1>2 DEF Range
  <2> QED
    BY <2>3, <2>4 DEF Surjection
<1>4. IsFiniteSet(1 .. Len(s))
  BY <1>2, FS_Interval
<1>5. IsFiniteSet(Range(s))
  BY <1>3, <1>4, FS_Surjection
<1>6. ASSUME NEW e \in Range(s)
      PROVE  /\ e.sequence_number \in 1 .. Len(s) /\ s[e.sequence_number] = e
             /\ e.timestamp \in Int
  BY <1>2 DEF Range, IsStream
<1> QED
  BY <1>2, <1>5, <1>6

\* Before is a strict order on the events of a stream: no two of them have the
\* same number.
LEMMA BeforeOrders ==
  ASSUME NEW s, IsStream(s), NEW S \in SUBSET Range(s)
  PROVE  StrictOrder(BeforePairs(S), S)
<1>1. \A e \in S : e.timestamp \in Int /\ e.sequence_number \in Int
  BY StreamFacts
<1>2. \A x, y \in S : x.sequence_number = y.sequence_number => x = y
  BY StreamFacts
<1>3. \A x, y \in S : <<x, y>> \in BeforePairs(S) <=> Before(x, y)
  BY DEF BeforePairs
<1>4. \A x \in S : ~Before(x, x)
  BY <1>1 DEF Before
<1>5. \A x, y, z \in S : Before(x, y) /\ Before(y, z) => Before(x, z)
  BY <1>1 DEF Before
<1>6. \A x, y \in S : x = y \/ Before(x, y) \/ Before(y, x)
  BY <1>1, <1>2 DEF Before
<1> QED
  BY <1>3, <1>4, <1>5, <1>6 DEF StrictOrder

\* t lists the trades in T, each one before all that follow it.
Listing(t, T) ==
  /\ Cardinality(T) \in Nat
  /\ t \in [1 .. Cardinality(T) -> T]
  /\ \A i, j \in 1 .. Cardinality(T) : i < j => Before(t[i], t[j])
  /\ \A e \in T : \E i \in 1 .. Cardinality(T) : t[i] = e

LEMMA TradesListed ==
  ASSUME NEW stream, IsStream(stream), NEW symbol
  PROVE  Listing(TradesOf(symbol, stream), Trades(symbol, stream))
<1> DEFINE T == Trades(symbol, stream)
           R == BeforePairs(T)
<1>1. T \in SUBSET Range(stream)
  BY DEF Trades
<1>2. TradesOf(symbol, stream) = Sorted(T, R)
  BY DEF TradesOf, Trades
<1> HIDE DEF T
<1>3. IsFiniteSet(T) /\ Cardinality(T) \in Nat
  BY <1>1, StreamFacts, FS_Subset, FS_CardinalityType
<1>4. StrictOrder(R, T)
  BY <1>1, BeforeOrders
<1>5. \A x, y \in T : <<y, x>> \in R <=> Before(y, x)
  BY DEF BeforePairs
<1> HIDE DEF R
<1>6. Lists(Sorted(T, R), R, T)
  BY <1>3, <1>4, RankedLists
<1>7. Listing(Sorted(T, R), T)
  BY <1>3, <1>5, <1>6 DEF Listing, Lists
<1> QED
  BY <1>2, <1>7 DEF T

-----------------------------------------------------------------------------
(***************************************************************************)
(* One more event in a stream.                                             *)
(***************************************************************************)
LEMMA LessThanRelation ==
  \A x, y \in Nat : x < y => <<x, y>> \in OpToRel(<, Nat)
BY Zenon DEF OpToRel

LEMMA LeastNatural ==
  ASSUME NEW T \in SUBSET Nat, T # {}
  PROVE  \E t \in T : \A u \in T : t <= u
<1>1. PICK t \in T : \A u \in T : <<u, t>> \notin OpToRel(<, Nat)
  BY NatLessThanWellFounded, WFMin
<1>2. \A u \in T : ~(u < t)
  BY <1>1, LessThanRelation, Zenon
<1> QED
  BY <1>2

\* Where x is put among some trades, the ones before it keep their places.
LEMMA ListingsAgree ==
  ASSUME NEW s, IsStream(s), NEW x \in Range(s),
         NEW T, NEW U \in SUBSET Range(s), T \subseteq U, U \subseteq T \cup {x},
         NEW t, Listing(t, T), NEW u, Listing(u, U),
         NEW i \in 1 .. Cardinality(T), Before(t[i], x)
  PROVE  /\ i \in 1 .. Cardinality(U)
         /\ \A j \in 1 .. i : t[j] = u[j]
<1> DEFINE n == Cardinality(T)
           m == Cardinality(U)
           A == Range(s)
           Bad == {j \in 1 .. i : t[j] # u[j]}
<1>1. n \in Nat /\ m \in Nat /\ n <= m
  <2>1. IsFiniteSet(U)
    BY StreamFacts, FS_Subset
  <2> QED
    BY <2>1, FS_Subset DEF Listing
<1>2. /\ \A j \in 1 .. n : t[j] \in T /\ t[j] \in A
      /\ \A j, k \in 1 .. n : j < k => Before(t[j], t[k])
      /\ \A e \in T : \E j \in 1 .. n : t[j] = e
  BY DEF Listing
<1>3. /\ \A j \in 1 .. m : u[j] \in U /\ u[j] \in A
      /\ \A j, k \in 1 .. m : j < k => Before(u[j], u[k])
      /\ \A e \in U : \E j \in 1 .. m : u[j] = e
  BY DEF Listing
<1>4. /\ \A e \in A : ~Before(e, e)
      /\ \A e, f, g \in A : Before(e, f) /\ Before(f, g) => Before(e, g)
  <2>1. StrictOrder(BeforePairs(A), A)
    BY BeforeOrders
  <2>2. \A e, f \in A : <<e, f>> \in BeforePairs(A) <=> Before(e, f)
    BY DEF BeforePairs
  <2> QED
    BY <2>1, <2>2 DEF StrictOrder
<1>5. i \in 1 .. n /\ i \in 1 .. m
  BY <1>1
<1> HIDE DEF n, m, A
<1>6. ASSUME Bad # {} PROVE FALSE
  <2>1. PICK j \in Bad : \A k \in Bad : j <= k
    <3>1. Bad \in SUBSET Nat
      OBVIOUS
    <3> HIDE DEF Bad
    <3> QED
      BY <3>1, <1>6, LeastNatural
  <2>2. j \in 1 .. i /\ j \in 1 .. n /\ j \in 1 .. m /\ t[j] # u[j]
    BY <1>1, <1>5, <2>1
  <2>3. \A k \in 1 .. j - 1 : k \in 1 .. n /\ k \in 1 .. m /\ t[k] = u[k]
    BY <1>1, <1>5, <2>1, <2>2
  <2>4. PICK p \in 1 .. m : u[p] = t[j]
    BY <1>2, <1>3, <2>2
  <2>5. j < p
    <3>1. p # j
      BY <2>2, <2>4
    <3>2. CASE p < j
      <4>1. p \in 1 .. j - 1
        BY <1>1, <2>2, <3>2
      <4>2. t[p] = t[j] /\ Before(t[p], t[j]) /\ t[j] \in A
        BY <1>2, <2>2, <2>3, <2>4, <3>2, <4>1
      <4> QED
        BY <1>4, <4>2
    <3> QED
      BY <1>1, <2>2, <3>1, <3>2
  <2>6. Before(u[j], t[j]) /\ u[j] \in A /\ t[j] \in A
    BY <1>2, <1>3, <2>2, <2>4, <2>5
  <2>7. CASE u[j] = x
    <3>1. Before(t[j], x)
      <4>1. t[j] = t[i] \/ Before(t[j], t[i])
        BY <1>1, <1>2, <1>5, <2>2
      <4> QED
        BY <1>2, <1>4, <1>5, <2>6, <2>7, <4>1
    <3> QED
      BY <1>4, <2>6, <2>7, <3>1
  <2>8. CASE u[j] \in T
    <3>1. PICK q \in 1 .. n : t[q] = u[j]
      BY <1>2, <2>8
    <3>2. CASE q < j
      <4>1. q \in 1 .. j - 1
        BY <1>1, <2>2, <3>2
      <4>2. u[q] = u[j] /\ Before(u[q], u[j])
        BY <1>3, <2>2, <2>3, <3>1, <3>2, <4>1
      <4> QED
        BY <1>4, <2>6, <4>2
    <3>3. CASE q = j
      BY <2>2, <3>1, <3>3
    <3>4. CASE j < q
      <4>1. Before(t[j], u[j])
        BY <1>2, <2>2, <3>1, <3>4
      <4> QED
        BY <1>4, <2>6, <4>1
    <3> QED
      BY <1>1, <2>2, <3>2, <3>3, <3>4
  <2>9. u[j] = x \/ u[j] \in T
    BY <1>3, <2>2
  <2> QED
    BY <2>7, <2>8, <2>9
<1> QED
  BY <1>5, <1>6 DEF m

\* A row is computed from the trades up to its own.
LEMMA RowsAgree ==
  ASSUME NEW n \in Nat, NEW t, DOMAIN t = 1 .. n,
         NEW m \in Nat, NEW u, DOMAIN u = 1 .. m,
         NEW i \in 1 .. n, i \in 1 .. m, \A j \in 1 .. i : t[j] = u[j]
  PROVE  FeatureRow(t, i) = FeatureRow(u, i)
<1> DEFINE W == {j \in 1 .. i : InWindow(i, j)}
<1>1. /\ {j \in DOMAIN t : InWindow(i, j)} = W
      /\ {j \in DOMAIN u : InWindow(i, j)} = W
  BY ParametersAssumption DEF InWindow
<1>2. \A j \in W : t[j] = u[j]
  OBVIOUS
<1>3. \A j \in W \ {1} : t[j - 1] = u[j - 1]
  OBVIOUS
<1>4. t[i] = u[i]
  OBVIOUS
<1> HIDE DEF W
<1>5. {<<t[j - 1].sequence_number, t[j].sequence_number>> : j \in W \ {1}} =
      {<<u[j - 1].sequence_number, u[j].sequence_number>> : j \in W \ {1}}
  BY <1>2, <1>3
<1>6. {t[j].sequence_number : j \in W} = {u[j].sequence_number : j \in W}
  BY <1>2
<1> QED
  BY <1>1, <1>4, <1>5, <1>6 DEF FeatureRow

-----------------------------------------------------------------------------
(***************************************************************************)
(* Rows and their groups.                                                  *)
(***************************************************************************)
RowsOf(symbol, stream) ==
  [i \in DOMAIN TradesOf(symbol, stream) |->
     FeatureRow(TradesOf(symbol, stream), i)]

LEMMA GroupIsRows ==
  ASSUME NEW stream, NEW rows \in FeatureGroups(stream)
  PROVE  \E symbol : rows = RowsOf(symbol, stream)
BY DEF FeatureGroups, Groups, RowsOf

LEMMA RowsAreGroup ==
  ASSUME NEW stream, IsStream(stream), NEW symbol,
         NEW i \in DOMAIN TradesOf(symbol, stream)
  PROVE  RowsOf(symbol, stream) \in FeatureGroups(stream)
<1> DEFINE t == TradesOf(symbol, stream)
           T == Trades(symbol, stream)
<1>1. Listing(t, T)
  BY TradesListed
<1> HIDE DEF t
<1>2. t[i] \in T
  BY <1>1 DEF Listing, t
<1>3. symbol \in {e.symbol : e \in Range(stream)}
  BY <1>2 DEF Trades
<1>4. t # <<>>
  BY DEF t
<1>5. t \in Groups(stream)
  BY <1>3, <1>4 DEF Groups, t
<1>6. RowsOf(symbol, stream) = [j \in DOMAIN t |-> FeatureRow(t, j)]
  BY DEF RowsOf, t
<1> QED
  BY <1>5, <1>6 DEF FeatureGroups

\* What a row of trade i says of itself.
LEMMA RowFacts ==
  ASSUME NEW stream, IsStream(stream), NEW symbol,
         NEW i \in DOMAIN TradesOf(symbol, stream)
  PROVE  LET t == TradesOf(symbol, stream)
             row == FeatureRow(t, i)
         IN  /\ RowsOf(symbol, stream)[i] = row
             /\ t[i] \in Range(stream) /\ t[i].symbol = symbol
             /\ row.sequence_number = t[i].sequence_number
             /\ row.timestamp = t[i].timestamp /\ row.timestamp \in Int
             /\ row.symbol = symbol
<1> DEFINE t == TradesOf(symbol, stream)
           T == Trades(symbol, stream)
<1>1. Listing(t, T)
  BY TradesListed
<1> HIDE DEF t
<1>2. t[i] \in Range(stream) /\ t[i].symbol = symbol
  BY <1>1 DEF Listing, t, Trades
<1>3. t[i].timestamp \in Int
  BY <1>2, StreamFacts
<1>4. /\ FeatureRow(t, i).sequence_number = t[i].sequence_number
      /\ FeatureRow(t, i).timestamp = t[i].timestamp
      /\ FeatureRow(t, i).symbol = t[i].symbol
  BY DEF FeatureRow
<1>5. RowsOf(symbol, stream)[i] = FeatureRow(t, i)
  BY DEF RowsOf, t
<1> QED
  BY <1>2, <1>3, <1>4, <1>5 DEF t

LEMMA FeatureIsRow ==
  ASSUME NEW stream, NEW row \in Features(stream)
  PROVE  \E symbol : \E i \in DOMAIN TradesOf(symbol, stream) :
           row = FeatureRow(TradesOf(symbol, stream), i)
<1>1. PICK rows \in FeatureGroups(stream) : row \in Range(rows)
  BY DEF Features
<1>2. PICK symbol : rows = RowsOf(symbol, stream)
  BY <1>1, GroupIsRows
<1>3. PICK i \in DOMAIN rows : row = rows[i]
  BY <1>1 DEF Range
<1> QED
  BY <1>2, <1>3 DEF RowsOf

LEMMA RowIsFeature ==
  ASSUME NEW stream, IsStream(stream), NEW symbol,
         NEW i \in DOMAIN TradesOf(symbol, stream)
  PROVE  FeatureRow(TradesOf(symbol, stream), i) \in Features(stream)
<1>1. RowsOf(symbol, stream) \in FeatureGroups(stream)
  BY RowsAreGroup
<1>2. FeatureRow(TradesOf(symbol, stream), i) \in Range(RowsOf(symbol, stream))
  BY DEF RowsOf, Range
<1> QED
  BY <1>1, <1>2 DEF Features

-----------------------------------------------------------------------------
(***************************************************************************)
(* The stream grows.                                                       *)
(***************************************************************************)
LEMMA InitIsStream ==
  ASSUME Init
  PROVE  IsStream(events)
<1>1. Past \in Seq(Range(Past)) /\ DOMAIN Past = 1 .. Len(Past)
  BY StreamAssumption, LenProperties
<1> QED
  BY <1>1, StreamAssumption DEF Init, IsStream

\* What is behind the events so far.
LEMMA StepGrows ==
  ASSUME IsStream(events), Next
  PROVE  /\ IsStream(events')
         /\ Last(events') \in Range(events')
         /\ Last(events').sequence_number = Len(events) + 1
         /\ Range(events) \subseteq Range(events')
         /\ Range(events') \subseteq Range(events) \cup {Last(events')}
<1>1. PICK step \in Steps : events' = Append(events, Event(step))
  BY DEF Next
<1> DEFINE new == Event(step)
           n == Len(events)
<1>2. n \in Nat /\ DOMAIN events = 1 .. n
  BY StreamFacts
<1>3. PICK S : events \in Seq(S)
  BY DEF IsStream
<1>4. new.sequence_number = n + 1 /\ new.timestamp \in Int
  <2>1. step.delta \in Int
    BY StreamAssumption
  <2>2. events # <<>> => Last(events).timestamp \in Int
    <3>1. events # <<>> => n \in 1 .. n
      <4>1. n = 0 => events = <<>>
        BY <1>3, EmptySeq
      <4> QED
        BY <1>2, <4>1
    <3> QED
      BY <3>1 DEF IsStream, Last
  <2>3. new.timestamp = step.delta + (IF events = <<>> THEN 0
                                      ELSE Last(events).timestamp)
    BY DEF Event
  <2>4. new.sequence_number = n + 1
    BY DEF Event
  <2> QED
    BY <2>1, <2>2, <2>3, <2>4
<1> HIDE DEF new, n
<1>5. events \in Seq(S \cup {new}) /\ new \in S \cup {new}
  BY <1>3
<1>6. /\ events' \in Seq(S \cup {new}) /\ Len(events') = n + 1
      /\ \A i \in 1 .. n : events'[i] = events[i]
      /\ events'[n + 1] = new
  BY <1>1, <1>5, AppendProperties DEF new, n
<1>7. IsStream(events')
  <2>1. ASSUME NEW i \in 1 .. Len(events')
        PROVE  events'[i].sequence_number = i /\ events'[i].timestamp \in Int
    <3>1. CASE i \in 1 .. n
      BY <1>6, <3>1 DEF IsStream, n
    <3>2. CASE i = n + 1
      BY <1>4, <1>6, <3>2
    <3> QED
      BY <1>2, <1>6, <3>1, <3>2
  <2> QED
    BY <1>6, <2>1 DEF IsStream
<1>8. DOMAIN events' = 1 .. n + 1
  BY <1>6, <1>7, StreamFacts
<1>9. Last(events') = new
  BY <1>6 DEF Last
<1>10. n + 1 \in 1 .. n + 1 /\ \A i \in 1 .. n + 1 : i \in 1 .. n \/ i = n + 1
  BY <1>2
<1>11. Last(events') \in Range(events')
  BY <1>6, <1>8, <1>9, <1>10 DEF Range
<1>12. Range(events) \subseteq Range(events')
  BY <1>2, <1>6, <1>8 DEF Range
<1>13. Range(events') \subseteq Range(events) \cup {new}
  BY <1>2, <1>6, <1>8, <1>10 DEF Range
<1> QED
  BY <1>4, <1>7, <1>9, <1>11, <1>12, <1>13 DEF n

\* However the market goes on, the events are numbered in order.
THEOREM StreamInvariant == Spec => []IsStream(events)
<1>1. Init => IsStream(events)
  BY InitIsStream
<1>2. IsStream(events) /\ [Next]_events => IsStream(events)'
  <2>1. CASE events' = events
    BY <2>1
  <2> QED
    BY <2>1, StepGrows
<1> QED
  BY <1>1, <1>2, PTL DEF Spec

\* The rows of the trades before the new event stay.
LEMMA EarlierRowsStay ==
  ASSUME IsStream(events), Next, NEW symbol,
         NEW i \in DOMAIN TradesOf(symbol, events),
         Before(TradesOf(symbol, events)[i], Last(events'))
  PROVE  /\ i \in DOMAIN TradesOf(symbol, events')
         /\ \A j \in 1 .. i : /\ j \in DOMAIN TradesOf(symbol, events)
                              /\ FeatureRow(TradesOf(symbol, events), j)
                                   = FeatureRow(TradesOf(symbol, events'), j)
<1>1. PICK more \in {events'}, x \in {Last(events')} :
             more = events' /\ x = Last(events')
  OBVIOUS
<1>2. /\ IsStream(more) /\ x \in Range(more)
      /\ Range(events) \subseteq Range(more)
      /\ Range(more) \subseteq Range(events) \cup {x}
  BY <1>1, StepGrows
<1> DEFINE t == TradesOf(symbol, events)
           u == TradesOf(symbol, more)
           T == Trades(symbol, events)
           U == Trades(symbol, more)
<1>3. T \subseteq U /\ U \subseteq T \cup {x} /\ U \in SUBSET Range(more)
  BY <1>2 DEF Trades
<1>4. Listing(t, T) /\ Listing(u, U)
  BY <1>2, TradesListed
<1>5. i \in DOMAIN t /\ Before(t[i], x)
  BY <1>1
<1> HIDE DEF t, u, T, U
<1>6. /\ Cardinality(T) \in Nat /\ DOMAIN t = 1 .. Cardinality(T)
      /\ Cardinality(U) \in Nat /\ DOMAIN u = 1 .. Cardinality(U)
  BY <1>4 DEF Listing
<1>7. i \in 1 .. Cardinality(T)
  BY <1>5, <1>6
<1>8. i \in 1 .. Cardinality(U) /\ \A j \in 1 .. i : t[j] = u[j]
  BY <1>2, <1>3, <1>4, <1>5, <1>7, ListingsAgree
<1>9. ASSUME NEW j \in 1 .. i
      PROVE  j \in DOMAIN t /\ FeatureRow(t, j) = FeatureRow(u, j)
  <2>1. /\ j \in 1 .. Cardinality(T) /\ j \in 1 .. Cardinality(U)
        /\ \A k \in 1 .. j : t[k] = u[k]
    BY <1>6, <1>7, <1>8
  <2> QED
    BY <1>6, <2>1, RowsAgree
<1> QED
  BY <1>1, <1>6, <1>8, <1>9 DEF t, u

\* No feature looks ahead: a trade changes no row of the trades before it in time,
\* whatever the window and however the clock moves.
THEOREM FeaturesNeverLookAhead == Spec => FeaturesLookBack
<1>1. IsStream(events) /\ [Next]_events =>
        [\A row \in Features(events) :
           Before(row, Last(events')) => row \in Features(events')]_events
  <2> SUFFICES ASSUME IsStream(events), Next, NEW row \in Features(events),
                      Before(row, Last(events'))
               PROVE  row \in Features(events')
    OBVIOUS
  <2>1. PICK symbol, i : /\ i \in DOMAIN TradesOf(symbol, events)
                         /\ row = FeatureRow(TradesOf(symbol, events), i)
    BY FeatureIsRow
  <2> DEFINE t == TradesOf(symbol, events)
  <2>2. row.sequence_number = t[i].sequence_number /\ row.timestamp = t[i].timestamp
    BY <2>1, RowFacts
  <2>3. Before(t[i], Last(events'))
    BY <2>2 DEF Before
  <2>4. /\ i \in DOMAIN TradesOf(symbol, events')
        /\ \A j \in 1 .. i : FeatureRow(t, j) = FeatureRow(TradesOf(symbol, events'), j)
    BY <2>1, <2>3, EarlierRowsStay
  <2>5. i \in 1 .. i
    <3>1. Listing(t, Trades(symbol, events))
      BY TradesListed
    <3> QED
      BY <2>1, <3>1 DEF Listing
  <2>6. row = FeatureRow(TradesOf(symbol, events'), i)
    BY <2>1, <2>4, <2>5
  <2>7. IsStream(events')
    BY StepGrows
  <2> QED
    BY <2>4, <2>6, <2>7, RowIsFeature
<1> QED
  BY <1>1, StreamInvariant, PTL DEF Spec, FeaturesLookBack

\* A row of a dataset is that of a trade with one more behind it.
LEMMA DatasetIsRow ==
  ASSUME NEW stream, IsStream(stream), NEW row \in Dataset(stream)
  PROVE  \E symbol, i :
           /\ i \in DOMAIN TradesOf(symbol, stream)
           /\ i + 1 \in DOMAIN TradesOf(symbol, stream)
           /\ IsFinite(FeatureRow(TradesOf(symbol, stream), i))
           /\ row = Labelled(FeatureRow(TradesOf(symbol, stream), i),
                             FeatureRow(TradesOf(symbol, stream), i + 1))
<1>1. PICK rows \in FeatureGroups(stream) : \E i \in DOMAIN rows :
             /\ NextPrice(i) \in DOMAIN rows /\ IsFinite(rows[i])
             /\ row = Labelled(rows[i], rows[NextPrice(i)])
  BY DEF Dataset
<1>2. PICK symbol : rows = RowsOf(symbol, stream)
  BY GroupIsRows
<1>3. PICK i \in DOMAIN rows : /\ NextPrice(i) \in DOMAIN rows /\ IsFinite(rows[i])
                               /\ row = Labelled(rows[i], rows[NextPrice(i)])
  BY <1>1
<1>4. NextPrice(i) = i + 1
  BY DEF NextPrice
<1>5. DOMAIN rows = DOMAIN TradesOf(symbol, stream)
  BY <1>2 DEF RowsOf
<1>6. /\ rows[i] = FeatureRow(TradesOf(symbol, stream), i)
      /\ rows[i + 1] = FeatureRow(TradesOf(symbol, stream), i + 1)
  BY <1>2, <1>3, <1>4, <1>5 DEF RowsOf
<1> QED
  BY <1>3, <1>4, <1>5, <1>6

LEMMA RowIsInDataset ==
  ASSUME NEW stream, IsStream(stream), NEW symbol, NEW i,
         i \in DOMAIN TradesOf(symbol, stream),
         i + 1 \in DOMAIN TradesOf(symbol, stream),
         IsFinite(FeatureRow(TradesOf(symbol, stream), i))
  PROVE  Labelled(FeatureRow(TradesOf(symbol, stream), i),
                  FeatureRow(TradesOf(symbol, stream), i + 1)) \in Dataset(stream)
<1> DEFINE rows == RowsOf(symbol, stream)
<1>1. rows \in FeatureGroups(stream)
  BY RowsAreGroup
<1>2. /\ DOMAIN rows = DOMAIN TradesOf(symbol, stream)
      /\ rows[i] = FeatureRow(TradesOf(symbol, stream), i)
      /\ rows[i + 1] = FeatureRow(TradesOf(symbol, stream), i + 1)
  BY DEF RowsOf
<1>3. NextPrice(i) = i + 1
  BY DEF NextPrice
<1> HIDE DEF rows
<1> QED
  BY <1>1, <1>2, <1>3 DEF Dataset

\* While the clock does not go back, a dataset built later only adds rows: the
\* features and the target of a row never change.
THEOREM RowsStayFinal == Spec => RowsAreFinal
<1>1. IsStream(events) /\ [Next]_events =>
        [~ClockGoesBack => Dataset(events) \subseteq Dataset(events')]_events
  <2> SUFFICES ASSUME IsStream(events), Next, ~ClockGoesBack,
                      NEW row \in Dataset(events)
               PROVE  row \in Dataset(events')
    OBVIOUS
  <2>1. PICK symbol, i :
           /\ i \in DOMAIN TradesOf(symbol, events)
           /\ i + 1 \in DOMAIN TradesOf(symbol, events)
           /\ IsFinite(FeatureRow(TradesOf(symbol, events), i))
           /\ row = Labelled(FeatureRow(TradesOf(symbol, events), i),
                             FeatureRow(TradesOf(symbol, events), i + 1))
    BY DatasetIsRow
  <2> DEFINE t == TradesOf(symbol, events)
             u == TradesOf(symbol, events')
  <2>2. i \in Nat \ {0}
    <3>1. Listing(t, Trades(symbol, events))
      BY TradesListed
    <3> QED
      BY <2>1, <3>1 DEF Listing
  <2>3. t[i + 1] \in Range(events)
    BY <2>1, RowFacts
  <2>4. Before(t[i + 1], Last(events'))
    <3>1. PICK e \in Range(events), x \in {Last(events')} :
               e = t[i + 1] /\ x = Last(events')
      BY <2>3
    <3>2. /\ e.sequence_number \in 1 .. Len(events) /\ e.timestamp \in Int
          /\ Len(events) \in Nat
      BY StreamFacts
    <3>3. ~(x.timestamp < e.timestamp)
      BY <3>1 DEF ClockGoesBack
    <3>4. x.sequence_number = Len(events) + 1
      BY <3>1, StepGrows
    <3>5. x.timestamp \in Int
      <4>1. IsStream(events') /\ Last(events') \in Range(events')
        BY StepGrows
      <4> QED
        BY <3>1, <4>1, StreamFacts
    <3>6. Before(e, x)
      BY <3>2, <3>3, <3>4, <3>5 DEF Before
    <3> QED
      BY <3>1, <3>6
  <2>5. /\ i + 1 \in DOMAIN u
        /\ \A j \in 1 .. i + 1 : FeatureRow(t, j) = FeatureRow(u, j)
    BY <2>1, <2>4, EarlierRowsStay
  <2>6. i \in DOMAIN u
    <3>1. Listing(u, Trades(symbol, events'))
      <4>1. IsStream(events')
        BY StepGrows
      <4> QED
        BY <4>1, TradesListed
    <3> HIDE DEF u
    <3> QED
      BY <2>2, <2>5, <3>1 DEF Listing
  <2>7. FeatureRow(t, i) = FeatureRow(u, i) /\ FeatureRow(t, i + 1) = FeatureRow(u, i + 1)
    <3>1. i \in 1 .. i + 1 /\ i + 1 \in 1 .. i + 1
      BY <2>2
    <3> QED
      BY <2>5, <3>1
  <2>8. row = Labelled(FeatureRow(u, i), FeatureRow(u, i + 1))
        /\ IsFinite(FeatureRow(u, i))
    BY <2>1, <2>7
  <2>9. IsStream(events')
    BY StepGrows
  <2> QED
    BY <2>5, <2>6, <2>8, <2>9, RowIsInDataset
<1> QED
  BY <1>1, StreamInvariant, PTL DEF Spec, RowsAreFinal

-----------------------------------------------------------------------------
(***************************************************************************)
(* The split.                                                              *)
(***************************************************************************)
LEMMA DatasetFacts ==
  ASSUME NEW stream, IsStream(stream)
  PROVE  /\ \A row \in Dataset(stream) : row.timestamp \in Int
         /\ IsFiniteSet({row.timestamp : row \in Dataset(stream)})
<1> DEFINE D == Dataset(stream)
           S == {row.timestamp : row \in D}
           E == Range(stream)
           f == [e \in E |-> e.timestamp]
<1>1. ASSUME NEW row \in D
      PROVE  row.timestamp \in Int /\ \E e \in E : row.timestamp = e.timestamp
  <2>1. PICK symbol, i :
           /\ i \in DOMAIN TradesOf(symbol, stream)
           /\ row = Labelled(FeatureRow(TradesOf(symbol, stream), i),
                             FeatureRow(TradesOf(symbol, stream), i + 1))
    BY DatasetIsRow
  <2>2. row.timestamp = FeatureRow(TradesOf(symbol, stream), i).timestamp
    BY <2>1 DEF Labelled
  <2> QED
    BY <2>1, <2>2, RowFacts
<1>2. IsFiniteSet(E)
  BY StreamFacts
<1> HIDE DEF D, E
<1>3. f \in Surjection(E, Range(f))
  BY DEF Surjection, Range
<1>4. IsFiniteSet(Range(f))
  BY <1>2, <1>3, FS_Surjection
<1>5. S \in SUBSET Range(f)
  BY <1>1 DEF Range
<1>6. IsFiniteSet(S)
  BY <1>4, <1>5, FS_Subset
<1> QED
  BY <1>1, <1>6 DEF D

\* The times of some rows, each one once, in order.
LEMMA TimesListed ==
  ASSUME NEW rows, \A row \in rows : row.timestamp \in Int,
         IsFiniteSet({row.timestamp : row \in rows})
  PROVE  LET stamps == Timestamps(rows)
         IN  /\ Len(stamps) \in Nat
             /\ \A i \in 1 .. Len(stamps) : \E row \in rows : row.timestamp = stamps[i]
             /\ \A i, j \in 1 .. Len(stamps) : i < j => stamps[i] < stamps[j]
             /\ \A i \in 1 .. Len(stamps) : stamps[i] \in Int
<1> DEFINE S == {row.timestamp : row \in rows}
           R == {p \in S \X S : p[1] < p[2]}
           stamps == Timestamps(rows)
<1>1. Timestamps(rows) = Sorted(S, R)
  BY DEF Timestamps
<1>2. S \in SUBSET Int /\ IsFiniteSet(S)
  OBVIOUS
<1>3. \A i : (\E row \in rows : row.timestamp = i) <=> i \in S
  OBVIOUS
<1> HIDE DEF S, stamps
<1>4. Cardinality(S) \in Nat
  BY <1>2, FS_CardinalityType
<1>5. \A x, y \in S : <<y, x>> \in R <=> y < x
  OBVIOUS
<1> HIDE DEF R
<1>6. StrictOrder(R, S)
  <2>1. \A x \in S : ~(x < x)
    BY <1>2
  <2>2. \A x, y, z \in S : x < y /\ y < z => x < z
    BY <1>2
  <2>3. \A x, y \in S : x = y \/ x < y \/ y < x
    BY <1>2
  <2> QED
    BY <1>5, <2>1, <2>2, <2>3 DEF StrictOrder
<1>7. Lists(stamps, R, S)
  BY <1>1, <1>2, <1>6, RankedLists DEF stamps
<1>8. Len(stamps) = Cardinality(S)
  BY <1>1, <1>4 DEF stamps, Sorted
<1>9. \A i \in 1 .. Cardinality(S) : stamps[i] \in S
  BY <1>7 DEF Lists
<1>10. \A i, j \in 1 .. Cardinality(S) : i < j => stamps[i] < stamps[j]
  BY <1>5, <1>7, <1>9 DEF Lists
<1> QED
  BY <1>2, <1>3, <1>4, <1>8, <1>9, <1>10 DEF stamps

\* The cutoffs of a split are times of rows, and there are earlier ones.
LEMMA SplitFacts ==
  ASSUME NEW rows, \A row \in rows : row.timestamp \in Int,
         IsFiniteSet({row.timestamp : row \in rows}),
         NEW split \in Splits(rows)
  PROVE  \E first \in Int, train \in Int, validation \in Int :
           /\ first < train /\ train < validation
           /\ \A time \in {first, train, validation} :
                \E row \in rows : row.timestamp = time
           /\ split.cutoff.train = train /\ split.cutoff.validation = validation
           /\ split.train = {r \in rows : r.timestamp < train}
           /\ split.validation = {r \in rows : train <= r.timestamp
                                               /\ r.timestamp < validation}
           /\ split.test = {r \in rows : validation <= r.timestamp}
<1> DEFINE stamps == Timestamps(rows)
           count == Len(stamps)
<1>1. PICK end \in Truncated(count, TrainShare)
                     \X Truncated(count, TrainShare + ValidationShare) :
        /\ 1 <= end[1] /\ end[1] < end[2] /\ end[2] < count
        /\ split.cutoff.train = stamps[end[1] + 1]
        /\ split.cutoff.validation = stamps[end[2] + 1]
        /\ split.train = {r \in rows : r.timestamp < stamps[end[1] + 1]}
        /\ split.validation = {r \in rows : /\ stamps[end[1] + 1] <= r.timestamp
                                            /\ r.timestamp < stamps[end[2] + 1]}
        /\ split.test = {r \in rows : stamps[end[2] + 1] <= r.timestamp}
  BY DEF Splits
<1>2. /\ count \in Nat
      /\ \A i \in 1 .. count : \E row \in rows : row.timestamp = stamps[i]
      /\ \A i, j \in 1 .. count : i < j => stamps[i] < stamps[j]
      /\ \A i \in 1 .. count : stamps[i] \in Int
  BY TimesListed
<1> HIDE DEF stamps, count
<1>3. end[1] \in Int /\ end[2] \in Int
  <2>1. /\ count * TrainShare \in Int
        /\ count * (TrainShare + ValidationShare) \in Int
        /\ Whole \in Nat \ {0}
    BY <1>2, ParametersAssumption
  <2>2. ASSUME NEW k \in Int PROVE k \div Whole \in Int /\ k \div Whole - 1 \in Int
    BY <2>1
  <2> QED
    BY <1>1, <2>1, <2>2 DEF Truncated
<1>4. /\ 1 \in 1 .. count /\ end[1] + 1 \in 1 .. count /\ end[2] + 1 \in 1 .. count
      /\ 1 < end[1] + 1 /\ end[1] + 1 < end[2] + 1
  BY <1>1, <1>2, <1>3
<1> QED
  BY <1>1, <1>2, <1>4

\* The partitions have every row, none is empty, and each one is over before the
\* next begins, for all fractions and however their products are rounded.
THEOREM PartitionsStayChronological == Spec => []PartitionsChronological
<1>1. IsStream(events) => PartitionsChronological
  <2> SUFFICES ASSUME IsStream(events), NEW split \in Splits(Dataset(events))
               PROVE  LET earlier(p, q) == /\ p # {} /\ q # {}
                                           /\ \A x \in p, y \in q :
                                                x.timestamp < y.timestamp
                      IN  /\ split.train \cup split.validation \cup split.test
                               = Dataset(events)
                          /\ earlier(split.train, split.validation)
                          /\ earlier(split.validation, split.test)
    BY DEF PartitionsChronological
  <2> DEFINE rows == Dataset(events)
  <2>1. /\ \A row \in rows : row.timestamp \in Int
        /\ IsFiniteSet({row.timestamp : row \in rows})
    BY DatasetFacts
  <2> HIDE DEF rows
  <2>2. PICK first \in Int, train \in Int, validation \in Int :
           /\ first < train /\ train < validation
           /\ \A time \in {first, train, validation} :
                \E row \in rows : row.timestamp = time
           /\ split.train = {r \in rows : r.timestamp < train}
           /\ split.validation = {r \in rows : train <= r.timestamp
                                               /\ r.timestamp < validation}
           /\ split.test = {r \in rows : validation <= r.timestamp}
    BY <2>1, SplitFacts DEF rows
  <2>3. split.train \cup split.validation \cup split.test = rows
    BY <2>1, <2>2
  <2>4. split.train # {} /\ split.validation # {} /\ split.test # {}
    <3>1. \E row \in rows : row.timestamp = first
      BY <2>2
    <3>2. \E row \in rows : row.timestamp = train
      BY <2>2
    <3>3. \E row \in rows : row.timestamp = validation
      BY <2>2
    <3> QED
      BY <2>1, <2>2, <3>1, <3>2, <3>3
  <2>5. /\ \A x \in split.train, y \in split.validation : x.timestamp < y.timestamp
        /\ \A x \in split.validation, y \in split.test : x.timestamp < y.timestamp
    BY <2>1, <2>2
  <2> QED
    BY <2>3, <2>4, <2>5 DEF rows
<1> QED
  BY <1>1, StreamInvariant, PTL

-----------------------------------------------------------------------------
(***************************************************************************)
(* What the rows of the training set know.                                 *)
(***************************************************************************)

\* A trade is not later than those behind it in the list.
LEMMA ListedByTime ==
  ASSUME NEW stream, IsStream(stream), NEW symbol,
         NEW i \in DOMAIN TradesOf(symbol, stream),
         NEW j \in DOMAIN TradesOf(symbol, stream), i <= j
  PROVE  LET t == TradesOf(symbol, stream)
         IN  t[i].timestamp <= t[j].timestamp
<1> DEFINE t == TradesOf(symbol, stream)
<1>1. Listing(t, Trades(symbol, stream))
  BY TradesListed
<1>2. t[i] \in Range(stream) /\ t[j] \in Range(stream)
  BY RowFacts
<1>3. t[i].timestamp \in Int /\ t[j].timestamp \in Int
  BY <1>2, StreamFacts
<1> HIDE DEF t
<1>4. i = j \/ Before(t[i], t[j])
  BY <1>1 DEF Listing, t
<1> QED
  BY <1>3, <1>4 DEF Before, t

\* Features are computed from the trades up to that of the row.
LEMMA FeatureSources ==
  ASSUME NEW stream, IsStream(stream), NEW symbol,
         NEW i \in DOMAIN TradesOf(symbol, stream), NEW n,
         LET row == FeatureRow(TradesOf(symbol, stream), i)
         IN  n \in row.volumes \cup UNION {{r[1], r[2]} : r \in row.returns}
  PROVE  \E j \in DOMAIN TradesOf(symbol, stream) :
           j <= i /\ n = TradesOf(symbol, stream)[j].sequence_number
<1> DEFINE t == TradesOf(symbol, stream)
           W == {j \in DOMAIN t : InWindow(i, j)}
           row == FeatureRow(t, i)
<1>1. /\ row.volumes = {t[j].sequence_number : j \in W}
      /\ row.returns = {<<t[j - 1].sequence_number, t[j].sequence_number>> :
                          j \in W \ {1}}
  BY DEF FeatureRow
<1>2. PICK m \in Nat : DOMAIN t = 1 .. m
  <2>1. Listing(t, Trades(symbol, stream))
    BY TradesListed
  <2> HIDE DEF t
  <2> QED
    BY <2>1 DEF Listing
<1>3. n \in row.volumes \/ \E r \in row.returns : n = r[1] \/ n = r[2]
  OBVIOUS
<1> HIDE DEF t, row
<1>4. W \in SUBSET (1 .. m) /\ i \in 1 .. m /\ \A j \in W : j <= i
  BY <1>2, ParametersAssumption DEF InWindow, t
<1>5. CASE n \in row.volumes
  BY <1>1, <1>2, <1>4, <1>5 DEF t
<1>6. CASE \E r \in row.returns : n = r[1] \/ n = r[2]
  <2>1. PICK j \in W \ {1} : \/ n = t[j - 1].sequence_number
                             \/ n = t[j].sequence_number
    BY <1>1, <1>6
  <2>2. j \in 1 .. m /\ j - 1 \in 1 .. m /\ j <= i /\ j - 1 <= i
    BY <1>4, <2>1
  <2> QED
    BY <1>2, <2>1, <2>2 DEF t
<1> QED
  BY <1>3, <1>5, <1>6

\* What a row of the training set knows is from before the cutoff, but for the
\* target of the last row of each symbol there.
THEOREM OnlyCutoffLeaks == Spec => []LeaksOnlyAtCutoff
<1>1. IsStream(events) => LeaksOnlyAtCutoff
  <2> SUFFICES ASSUME IsStream(events), NEW split \in Splits(Dataset(events)),
                      NEW row \in split.train
               PROVE  /\ \A n \in row.volumes
                                  \cup UNION {{r[1], r[2]} : r \in row.returns} :
                           TimeOf(n) < split.cutoff.train
                      /\ row.known_at >= split.cutoff.train =>
                           \A other \in split.train :
                             other.symbol = row.symbol =>
                               other = row \/ Before(other, row)
    BY DEF LeaksOnlyAtCutoff
  <2>1. PICK cutoff \in Int :
           /\ split.cutoff.train = cutoff
           /\ split.train = {r \in Dataset(events) : r.timestamp < cutoff}
    <3>1. /\ \A r \in Dataset(events) : r.timestamp \in Int
          /\ IsFiniteSet({r.timestamp : r \in Dataset(events)})
      BY DatasetFacts
    <3> QED
      BY <3>1, SplitFacts
  <2>2. row \in Dataset(events) /\ row.timestamp < cutoff
    BY <2>1
  <2>3. PICK symbol, i :
           /\ i \in DOMAIN TradesOf(symbol, events)
           /\ i + 1 \in DOMAIN TradesOf(symbol, events)
           /\ row = Labelled(FeatureRow(TradesOf(symbol, events), i),
                             FeatureRow(TradesOf(symbol, events), i + 1))
    BY <2>2, DatasetIsRow
  <2> DEFINE t == TradesOf(symbol, events)
             Row(k) == Labelled(FeatureRow(t, k), FeatureRow(t, k + 1))
  <2>4. PICK m \in Nat : DOMAIN t = 1 .. m
    <3>1. Listing(t, Trades(symbol, events))
      BY TradesListed
    <3> HIDE DEF t
    <3> QED
      BY <3>1 DEF Listing
  <2>5. ASSUME NEW k \in DOMAIN t, k + 1 \in DOMAIN t
        PROVE  /\ Row(k).timestamp = t[k].timestamp
               /\ Row(k).sequence_number = t[k].sequence_number
               /\ Row(k).known_at = t[k + 1].timestamp
               /\ Row(k).symbol = symbol
               /\ t[k].timestamp \in Int /\ t[k + 1].timestamp \in Int
    BY <2>5, RowFacts DEF Labelled
  <2>6. i \in 1 .. m /\ i + 1 \in 1 .. m
    BY <2>3, <2>4
  <2>7. ASSUME NEW n \in row.volumes \cup UNION {{r[1], r[2]} : r \in row.returns}
        PROVE  TimeOf(n) < split.cutoff.train
    <3>1. /\ row.volumes = FeatureRow(t, i).volumes
          /\ row.returns = FeatureRow(t, i).returns
      BY <2>3 DEF Labelled
    <3>2. PICK j \in DOMAIN t : j <= i /\ n = t[j].sequence_number
      BY <2>3, <3>1, FeatureSources
    <3>3. t[j].timestamp <= t[i].timestamp
      BY <2>3, <3>2, ListedByTime
    <3>4. t[j] \in Range(events)
      BY RowFacts
    <3>5. TimeOf(n) = t[j].timestamp /\ t[j].timestamp \in Int
      BY <3>2, <3>4, StreamFacts DEF TimeOf
    <3>6. t[i].timestamp < cutoff /\ t[i].timestamp \in Int
      BY <2>2, <2>3, <2>5
    <3> HIDE DEF t
    <3> QED
      BY <2>1, <3>3, <3>5, <3>6
  <2>8. ASSUME row.known_at >= split.cutoff.train,
               NEW other \in split.train, other.symbol = row.symbol
        PROVE  other = row \/ Before(other, row)
    <3>1. other \in Dataset(events) /\ other.timestamp < cutoff
      BY <2>1
    <3>2. PICK tag, k :
             /\ k \in DOMAIN TradesOf(tag, events)
             /\ k + 1 \in DOMAIN TradesOf(tag, events)
             /\ other = Labelled(FeatureRow(TradesOf(tag, events), k),
                                 FeatureRow(TradesOf(tag, events), k + 1))
      BY <3>1, DatasetIsRow
    <3>3. other.symbol = tag
      BY <3>2, RowFacts DEF Labelled
    <3>4. row.symbol = symbol
      BY <2>3, <2>5
    <3>5. k \in DOMAIN t /\ k + 1 \in DOMAIN t /\ other = Row(k) /\ row = Row(i)
      BY <2>3, <2>8, <3>2, <3>3, <3>4
    <3>6. k \in 1 .. m /\ k + 1 \in 1 .. m
      BY <2>4, <3>5
    <3>7. CASE k < i
      <4>1. Before(t[k], t[i])
        <5>1. Listing(t, Trades(symbol, events))
          BY TradesListed
        <5> HIDE DEF t
        <5> QED
          BY <2>3, <3>5, <3>7, <5>1 DEF Listing, t
      <4> QED
        BY <2>3, <2>5, <3>5, <4>1 DEF Before
    <3>8. CASE k = i
      BY <3>5, <3>8
    <3>9. CASE i < k
      <4>1. t[i + 1].timestamp <= t[k].timestamp
        <5>1. i + 1 <= k
          BY <2>6, <3>6, <3>9
        <5> QED
          BY <2>3, <3>5, <5>1, ListedByTime
      <4>2. /\ row.known_at = t[i + 1].timestamp /\ t[i + 1].timestamp \in Int
            /\ other.timestamp = t[k].timestamp /\ t[k].timestamp \in Int
        BY <2>3, <2>5, <3>5
      <4> QED
        BY <2>1, <2>8, <3>1, <4>1, <4>2
    <3> QED
      BY <2>6, <3>6, <3>7, <3>8, <3>9
  <2> QED
    BY <2>7, <2>8
<1> QED
  BY <1>1, StreamInvariant, PTL

=============================================================================
