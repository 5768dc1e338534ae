---------------------------- MODULE TradeDatasets ----------------------------
(***************************************************************************)
(* The Python pipeline from events to the partitions a model is trained    *)
(* and judged on: build_trade_features (aegisml/features/                  *)
(* market_features.py), build_supervised_dataset and chronological_split   *)
(* (aegisml/datasets).  They are functions of a stream of events, which    *)
(* grows as the market goes on: the dataset of today is compared with the  *)
(* one that was built before.                                              *)
(*                                                                         *)
(* A computed number is represented by what it is computed from: a return  *)
(* by two trades, a rolling statistic by the returns or the trades in its  *)
(* window, a target by the two trades whose prices it compares.            *)
(***************************************************************************)
EXTENDS Integers, SequencesExt

CONSTANTS
  Steps,           \* the events that may come: type, symbol, and by how much
                   \* the clock moved since the event before
  Past,            \* the stream before the first of them
  MaxEvents,       \* bound: the length of the stream
  Window,          \* the window of rolling statistics
  TrainShare,      \* train_fraction and validation_fraction, as
  ValidationShare, \*   parts of Whole
  Whole,
  PriceColumn      \* the dtype of the price column: "int64", or "Int64", whose
                   \* missing values are not numbers

\* The engine numbers the events in order; times are integers.
ASSUME StreamAssumption ==
  /\ Past \in Seq(Range(Past))
  /\ \A n \in DOMAIN Past : /\ Past[n].sequence_number = n
                            /\ Past[n].timestamp \in Int
  /\ \A step \in Steps : step.delta \in Int

\* With other parameters the functions raise.
ASSUME ParametersAssumption ==
  /\ MaxEvents \in Nat
  /\ Window \in Nat /\ Window >= 2
  /\ {TrainShare, ValidationShare, Whole} \subseteq Nat \ {0}
  /\ TrainShare + ValidationShare < Whole
  /\ PriceColumn \in {"int64", "Int64"}

VARIABLE events

Event(step) ==
  [sequence_number |-> Len(events) + 1,
   timestamp |-> step.delta + (IF events = <<>> THEN 0 ELSE Last(events).timestamp),
   type |-> step.type, symbol |-> step.symbol]

Init == events = Past

Next ==
  \E step \in Steps : /\ Len(events) < MaxEvents
                      /\ Event(step).timestamp >= 0
                      /\ events' = Append(events, Event(step))

Spec == Init /\ [][Next]_events

-----------------------------------------------------------------------------
\* The order by timestamp and sequence number.
Before(x, y) ==
  \/ x.timestamp < y.timestamp
  \/ x.timestamp = y.timestamp /\ x.sequence_number < y.sequence_number

BeforePairs(S) == {p \in S \X S : Before(p[1], p[2])}

\* sort_values, by an order in which no two members of S are equal, given as the
\* set of its pairs: the place of a member is decided by how many are before it.
Sorted(S, order) ==
  [i \in 1 .. Cardinality(S) |->
     CHOOSE x \in S : Cardinality({y \in S : <<y, x>> \in order}) = i - 1]

\* The rows of one group of groupby("symbol"), sorted.
TradesOf(s, stream) ==
  LET trades == {e \in Range(stream) : e.type = "Trade" /\ e.symbol = s}
  IN  Sorted(trades, BeforePairs(trades))

\* Those of each symbol that has any.
Groups(stream) ==
  {TradesOf(s, stream) : s \in {e.symbol : e \in Range(stream)}} \ {<<>>}

\* Mutant of InWindow: rolling(window, center=True).
InCentredWindow(i, j) == j \in i - Window + 2 .. i + 1

\* Row j is in the rolling window that ends with row i.
InWindow(i, j) == j \in i - Window + 1 .. i

\* The row of build_trade_features for trade i.  The first trade has no return.
FeatureRow(trades, i) ==
  LET window == {j \in DOMAIN trades : InWindow(i, j)}
  IN  [sequence_number |-> trades[i].sequence_number,
       timestamp |-> trades[i].timestamp,
       symbol |-> trades[i].symbol,
       returns |-> {<<trades[j - 1].sequence_number, trades[j].sequence_number>> :
                      j \in window \ {1}},
       volumes |-> {trades[j].sequence_number : j \in window}]

\* The rows of each symbol, in order.
FeatureGroups(stream) ==
  {[i \in DOMAIN trades |-> FeatureRow(trades, i)] : trades \in Groups(stream)}

Features(stream) == UNION {Range(rows) : rows \in FeatureGroups(stream)}

\* Two returns make a mean and a deviation (min_periods=2); with fewer they are
\* missing, and the row is dropped.
IsFinite(row) == Cardinality(row.returns) >= 2

\* Mutant of NextPrice: shift(-2).
NextPriceButOne(i) == i + 2

\* The row whose price shift(-1) puts beside row i, if there is one.
NextPrice(i) == i + 1

\* What the target compares, and when it is known (which is not a column).
Labelled(row, next) ==
  [sequence_number |-> row.sequence_number, timestamp |-> row.timestamp,
   symbol |-> row.symbol, returns |-> row.returns, volumes |-> row.volumes,
   target |-> <<row.sequence_number, next.sequence_number>>,
   known_at |-> next.timestamp]

\* Mutant of Dataset: a trade without a next one gets the target of no movement.
DatasetUnfiltered(stream) ==
  UNION {{Labelled(rows[i], IF NextPrice(i) \in DOMAIN rows THEN rows[NextPrice(i)]
                            ELSE rows[i]) :
            i \in {i \in DOMAIN rows : IsFinite(rows[i])}} :
         rows \in FeatureGroups(stream)}

\* What build_supervised_dataset returns.
Dataset(stream) ==
  UNION {{Labelled(rows[i], rows[NextPrice(i)]) :
            i \in {i \in DOMAIN rows :
                     NextPrice(i) \in DOMAIN rows /\ IsFinite(rows[i])}} :
         rows \in FeatureGroups(stream)}

\* build_supervised_dataset raises instead: in an "Int64" column next_price of
\* the last trade of a symbol is missing, so is its comparison with the price,
\* and astype("int8") refuses a missing value.
DatasetRaises(stream) ==
  /\ PriceColumn = "Int64"
  /\ \E rows \in FeatureGroups(stream) : \E i \in DOMAIN rows :
       NextPrice(i) \notin DOMAIN rows

-----------------------------------------------------------------------------
\* int() of a count times a fraction: the product of floating-point numbers may
\* fall short of a whole number that the exact one is.
Truncated(count, share) ==
  {(count * share) \div Whole}
  \cup (IF (count * share) % Whole = 0 THEN {(count * share) \div Whole - 1} ELSE {})

\* Mutant of Timestamps: no drop_duplicates.
TimestampsOfRows(rows) ==
  LET sorted == Sorted(rows, BeforePairs(rows))
  IN  [i \in DOMAIN sorted |-> sorted[i].timestamp]

Timestamps(rows) ==
  LET times == {r.timestamp : r \in rows}
  IN  Sorted(times, {p \in times \X times : p[1] < p[2]})

\* The results that chronological_split may give; none when it raises.
Splits(rows) ==
  LET stamps == Timestamps(rows)
      count == Len(stamps)
      ends == {end \in Truncated(count, TrainShare)
                         \X Truncated(count, TrainShare + ValidationShare) :
                 1 <= end[1] /\ end[1] < end[2] /\ end[2] < count}
  IN  {LET cutoff == [train |-> stamps[end[1] + 1], validation |-> stamps[end[2] + 1]]
       IN  [cutoff |-> cutoff,
            train |-> {r \in rows : r.timestamp < cutoff.train},
            validation |-> {r \in rows : /\ cutoff.train <= r.timestamp
                                         /\ r.timestamp < cutoff.validation},
            test |-> {r \in rows : cutoff.validation <= r.timestamp}] :
         end \in ends}

-----------------------------------------------------------------------------
(***************************************************************************)
(* Properties.                                                             *)
(***************************************************************************)
ClockGoesBack == \E e \in Range(events) : Last(events').timestamp < e.timestamp

\* No feature looks ahead: a trade changes no row of the trades before it in
\* time.  (When the clock goes back a new trade is put before old ones, and the
\* rows of those do change.)
FeaturesLookBack ==
  [][\A row \in Features(events) :
       Before(row, Last(events')) => row \in Features(events')]_events

\* While the clock does not go back, what was once put in the dataset, features
\* and target, stays in it as it is: a dataset built later only adds rows.
RowsAreFinal ==
  [][~ClockGoesBack => Dataset(events) \subseteq Dataset(events')]_events

\* The partitions have every row, none is empty, and no time of one is as late
\* as one of the next: rows of the same time stay together, however the
\* floating-point products fall.
PartitionsChronological ==
  \A split \in Splits(Dataset(events)) :
    LET earlier(p, q) == /\ p # {} /\ q # {}
                         /\ \A x \in p, y \in q : x.timestamp < y.timestamp
    IN  /\ split.train \cup split.validation \cup split.test = Dataset(events)
        /\ earlier(split.train, split.validation)
        /\ earlier(split.validation, split.test)

TimeOf(n) == events[n].timestamp

\* What a row of the training set knows is from before the cutoff: its features
\* always, and its target unless the row is the last one of its symbol there.
LeaksOnlyAtCutoff ==
  \A split \in Splits(Dataset(events)) : \A row \in split.train :
    /\ \A n \in row.volumes \cup UNION {{r[1], r[2]} : r \in row.returns} :
         TimeOf(n) < split.cutoff.train
    /\ row.known_at >= split.cutoff.train =>
         \A other \in split.train :
           other.symbol = row.symbol => other = row \/ Before(other, row)

\* "Explicitly prevent: train/test temporal contamination"
\* (docs/ml_layer_plan.md): no target of the training set is a price from the
\* time of the validation set.
TargetsBeforeCutoff ==
  \A split \in Splits(Dataset(events)) : \A row \in split.train :
    row.known_at < split.cutoff.train

\* "Build a reproducible pipeline: Market Core Events ... Labels, Dataset"
\* (docs/ml_layer_plan.md): the functions, called one after the other, give a
\* dataset.
PipelineGivesDataset == ~DatasetRaises(events)
=============================================================================
