# AegisML: a TLA+ verification project

AegisML is a market simulator and matching engine in C++20
(`src/cpp/market_simulator`) with a Python side that turns recorded event
streams into supervised data sets (`src/python/aegisml`).  This directory holds
TLA+ modules that model the C++ core and the Python data pipeline, the TLC
configurations that check them, and theorems that TLAPS checks for every value of
the constants: about the engine, whatever events it is given, about the abstract
market it implements, the simulator that feeds it, the replay of its log, the
event file with its two readers, and the data sets made from it.

Contents: 1 inventory, 2 plan, 3 modules and code, 4 runs, 5 fairness,
6 proofs, 7 what the project found, 8 what is not modelled.

## 1. Inventory

Everything in the repository runs in one thread.  "Hard" is what the tests
hardly reach; `PROJECT.json` lists it line by line under `hazards`.

| Component | State | Operations | Hard | Correct when |
|---|---|---|---|---|
| Order (`order.hpp`) | state, filled, remaining | `transition`, `apply_fill` | long mixes of fills and cancels | quantities add up, the state says the same, a closed order never changes |
| Order manager | orders by id | `process`, `execute`, `confirm_cancel` | changes orders that books also refer to | no id twice; a refused event changes nothing |
| Order book | bid and ask levels, lookup table with saved list iterators | `add`, `remove`, `best_bid`, `best_ask` | two structures kept in step; levels that must vanish with their last order | levels and lookup agree, arrival order kept |
| Matching engine | none of its own | `match` | a loop over other components' state, with three ways out | price-time priority, no crossed book, the remainder rests, it returns |
| Market state manager | symbol to market | `get_or_create`, `find` | events that name another market than the order's | one book per symbol, no order in two |
| Execution recorder | list of executions | `record` | recorded after the match, from its list of trades | one execution per trade, in order, of the right event |
| Sequence validator, event log | next number; events | `accept`, `append` | both change before the event is known to succeed | the log is the gapless list of accepted events |
| Trading engine | all of the above | `process(event)`, `process(source)`, `process_batch` | partial failure in the middle of an event or of a batch | the properties above, and replay |
| Event serializer | none | `serialize`, `deserialize` | order and width of fields, every malformed input | decoding gives what was encoded, everything else is refused |
| Event store | output stream and its buffer | open, `append`, `flush`, destructor | torn records, failing writes, crashes, reopening | flushed events stay |
| Persistent replay source | input stream, position, exhausted | `next_event`, `next_batch`, `reset` | truncated or damaged files, reading while the store writes | delivers what was appended, in order |
| Replay source | position in a log | `next_event`, `next_batch`, `reset` | a log that still grows; batches cut short | no event skipped |
| Market simulator, clock | generator, counters | `next_event`, `next_batch`, `advance` | counters that move before an exception, batches cut short by the engine, no reset | ids and numbers fit, no event is lost in silence |
| Python reader, validation, frame | none | decode, check, tabulate | a second implementation of the format, torn files | agrees with the C++ decoder, no torn record passes for the end |
| Python features, data sets, model | none | features, labels, split, metrics | information that leaks from later rows, clocks that go back, floating-point cuts | features look back only, rows are final, partitions are disjoint and chronological |

How they interact.  A caller, or one of the sources through
`IMarketDataSource`, gives events to the engine.  `process(event)` checks the
event, takes its number, logs it, and then calls the order manager, the market
of the event's symbol and its matching engine, and the recorder, in that order.
The order manager owns the orders; books hold only their ids; the matching
engine changes both.  `EventStore` and `PersistentReplaySource` share nothing
but a file, possibly between processes.  The Python code reads the same file.

## 2. Plan

1. Done: `Orders`, `OrderBook`, `TradingEngine`, `EngineProperties`; the
   inductive invariant of the engine in `EngineProofs`, and what
   needs the log as well in `HistoryProofs`: every invariant and action property of
   the engine that a run checks is a theorem.
2. Done: `EventSerializer` (pure) and `EventFile` (store and source on one
   file, composed over the serializer); `FileProofs` has their safety properties.
3. Done: `Replay`, which composes two engines and a replay source;
   `ReplayProofs` has its invariants.
4. Done: `EngineCalls`, the engine's loops over any source, and on it `Replay`
   and `SimulatedMarket` (the simulator with its clock, random choices as
   nondeterminism); `SimulatedProofs` has its safety properties.
5. Done: `PriorityMarket`, an abstract market without levels, queues and events,
   and `EngineMarket`, in which the engine is shown to implement it;
   `MarketProofs` has the safety part of that.
6. Done: `EventReader` (the Python decoder and validation, over the bytes of
   `EventFile`) and `TradeDatasets` (features, targets, splits); `ReaderProofs`
   has the properties of the reader and `DatasetProofs` those of the data sets.

Every safety invariant and every action property that a passing run checks is a
theorem; the liveness properties are left to TLC (end of section 6).

## 3. Modules and code

* `Orders` translates `order.hpp` and the order manager's table.  An order is
  the record of its class's fields; `CanFill`/`Fill`, `CanTransition`/
  `Transition` are guard and effect of `apply_fill` and `transition`, so that an
  action can say which of the two it takes.  The table of orders is a function
  from ids, which grows with `Put`.
* `OrderBook` translates `order_book.cpp`.  A book is a record of two functions
  from price to the queue of ids, and the lookup table.  The saved list iterator
  is the position of the id in the queue its location names: it is that
  position as long as `BooksWellFormed` holds, which is proved.
* `TradingEngine` is `process(event)` with all it calls.  One call is one
  action, except for an accepted Add: `BeginMatch` takes the event, makes the
  order and the market, and each turn of `while(true)` in
  `MatchingEngine::match` is one action (`MatchTrade`), as is each way out
  (`AbandonOnExhausted`, `AbandonHalfDone`, `RestIfNeeded`), which also records
  the executions and returns.  The steps are separate because the loop's
  termination and its partial failures are what one wants to see; no other call
  can come between them.  `Feed` is the constant that gives the events a caller
  may present under each number.  Checks that cannot fail at their place (the
  order just added is found, ids in a book are known) are left out; prices and
  quantities are integers, since the only arithmetic on them is subtraction and
  addition of quantities that never exceed an order's.
* `EngineProperties` states the engine's properties.  The event log, which is
  part of the program, serves as their history variable: `Arrival(id)` is the
  place of the Add that made an order.
* `EventSerializer` works on bytes.  A 64-bit field is the sequence of its
  eight bytes, so width and byte order are exact and no number is cut off; the
  checks of `is_valid` are on these words.  Whatever makes `deserialize` throw
  gives `Malformed`.
* `EventFile` has the file as a sequence of bytes and the store's buffer as
  another.  During a write any of the bytes in `Cuts` may reach the file; the
  writing process may die between calls (`Crash`; the destructor's flush that
  throws ends it, too), and a write may fail part way (`AppendFails`,
  `FlushFails`), after which the stream is bad.  Reopening appends to the file
  as it is.  `reader` is the source: `NextEvent` is the whole of `next_event`,
  `NextBatch` the loop of `next_batch`, and a call that throws sets `threw`.
  `delivered` are the events that were handed over; its length is `position_`.
  `appended`, `flushed`, `intact`, `sound` and `threw` are history.
  `EventsAssumption` says what the fields of an event can hold, which in C++ their
  types say; whether the event is valid is another question, and `append` is given
  both kinds.
* `PriorityMarket` is what the engine promises: a map of orders, the set of those
  that rest in each symbol's market, an age for each order, the one order that is
  trading, and the tape of trades.  A trade takes the best order of the other
  side by price and age, whatever structure finds it; and two actions,
  `CancelById` and `FillById`, say what may happen to an order without its market
  knowing, and `GiveUp` what a new order does when it meets such a one.
  `EngineMarket` maps the engine to it: the domain of a book's lookup table rests,
  the place of an order's Add in the log is its age, and executions with the
  trades of the match under way are the tape.
* `EngineCalls` is the two loops of `trading_engine.cpp` over a source.  `call`
  says in which one the engine is, `batch` what `process_batch` has left.
  `Process(e)`, of `TradingEngine`, is a call of `process(event)`.  `AfterStep` is what both loops do
  with an event that failed.
* `Replay` extends `TradingEngine` (the original engine) and instantiates
  `EngineCalls` as `B`, the engine that replays; the `ReplaySource` is
  `position`.  `whims` counts the steps of the caller that are not patient ones.
* `SimulatedMarket` extends `EngineCalls` with the `MarketSimulator` as its
  source.  `Generated(n, next)` is the set of events that the generator may make
  as number n; `Counted` moves the counters, which happens before the event is
  validated, so that `ProcessThrows` and `CallBatchThrows` lose it.  The event id
  and the sequence number are always equal, and one variable.
* `EventReader` extends `EventFile` with the Python reader.  The file only grows
  and what was read of it does not change, so a generator that stops has yielded
  what one step over the bytes then in the file would yield: `IterEvents` is an
  operator on those bytes, and its properties hold of every state of the file.
  Events are compared as Python sees them (the symbol cut at its first NUL).
* `TradeDatasets` has one variable, the stream of events, which grows; the
  functions of the pipeline are operators on it.  A computed number is
  represented by what it is computed from (a return by two trades, a rolling
  statistic by the trades in its window, a target by the two trades whose prices
  it compares), which is what leakage is about.  `int()` of a floating-point
  product may be one less than the exact product when that is whole; `Truncated`
  has both.  `PriceColumn` is the dtype of the price column: plain integers, as
  in the tests of the functions, or the nullable `Int64` of `events_to_frame`.
  Sorting is `Sorted`: the place of a row is the number of rows before it, which is
  a definition that one can reason about.  `StreamAssumption` says that the events
  a run begins with are a stream, numbered from 1 with integer times.
* `EngineProofs`, `HistoryProofs` (which extends it), `MarketProofs`,
  `SimulatedProofs`, `ReplayProofs`, `FileProofs`, `ReaderProofs` and
  `DatasetProofs` hold the theorems of section 6 and define no behaviour.
* `MCEngine`, `MCEventFile`, `MCReplay`, `MCSimulatedMarket` and
  `MCTradeDatasets` give the constants values for TLC.

Operators named as mutants in comments (`CanFillBeyond`, `OpenTruncating` ...)
are wrong variants of the operator below them.  No specification uses them: each
shows, when put in its place, that a property notices such a mistake.

## 4. Runs

| Run | Bounds | Shows |
|---|---|---|
| `engine_one_symbol` | 1 market, 4 events, prices 1-2, sizes 1-2, Adds, Cancels, Executes of 2 of any known or unknown id (a last fill, or more than is left), quotes, refused ones too | `OrdersConsistent`, `BooksWellFormed`, `BooksNeverCrossed`, `QueuesInArrivalOrder`, `ExecutionsTraceable`, `PriceTimePriority`, `ImplementsMarket` |
| `engine_two_symbols` | 2 markets, 4 events, 1 price, sizes 1-2, Executes of 1 (a partial or a last fill) | `TypeOK`, `LogIsDense`, `StaleOnlyOutOfBand`, `LiveOrdersRest`, `FillsAreTrades`, `ClosedOrdersAreFinal`, `ImplementsMarket`: here Cancels may name the wrong market |
| `simulated` | 2 symbols, 4 events of all five types, `process` and batches of 1-2, a clock that may go below zero | `GapOnlyByDrop`, `IdsMeetOrders`, `GapIsForever`, `CallsReturn`, `AllProcessed` |
| `event_file` | 3 appends of an Add, or a Trade with a foreign symbol, 2 sessions, 1 reset, batches up to 2, four cuts | `TypeOK`, `ReadsWhatWasWritten`, `FlushedSurvives`, `CleanEndIsComplete`, `ReadingEnds`, `PythonReadsWhatWasWritten`, `ReadersAgree` |
| `replay` | original engine with 3 events, sizes 1-2; any mix of `process`, `process_batch` (1-2) and `reset`, two impatient steps | `ReplayAgrees`, `AheadOnlyByCutBatch`, `ReplayCompletes` |
| `datasets` | 2 trades of each of 2 symbols, then any 6 events, the clock moving by -1, 0 or 1; window 2, fractions 1/2 and 1/4 | `FeaturesLookBack`, `RowsAreFinal`, `PartitionsChronological`, `LeaksOnlyAtCutoff` |
| `engine_booked_executable`, `engine_match_atomic`, `engine_remainder_rests`, `event_validation`, `datasets_contaminated`, `datasets_pipeline` | as above or smaller | violations, see section 7 |

Why the bounds are enough for the interesting cases.  Four events are an order
that rests, something that makes it stale, an order that meets it, and one more
that meets what this left behind; sizes 1 and 2 give full and partial fills of
either side and matches with two resting orders; two prices give levels, price
improvement and sweeps.  `MCEngine` names a new order after its event's number,
which leaves out renamings only, and lets an Add repeat id 1.  Three appends in
two sessions are a flushed record, a torn one, and one that is written after the
torn one.  The cuts (bytes of pending data that reach the file) fall before everything,
inside a length, inside a timestamp and inside the next length: the tear in the
timestamp makes an undamaged length count bytes of the next record, and then only
`is_valid` refuses the event.  A simulated run of four events has an Add, an event
that fails and so cuts a batch, and two that come too late; its prices and sizes
are single values, because what an engine does with them is the question of the
runs above.  Six trades after the first two of each symbol make up to four rows of
the dataset, and three times are what a split into 1/2, 1/4 and the rest needs.
Three events of a replayed log already hold a failed one between two that
succeed.
TLC looks for deadlock in every run but those of `TradeDatasets`, where the stream
simply ends at its bound: each other model always has a step (an event that is
refused, another call of the source).

## 5. Fairness

* `Spec` of `TradingEngine`: `WF_vars(Match)`.  A call that has entered `match`
  keeps running: the program is single-threaded and nothing in the loop waits.
  No fairness on the caller.  `ImplementsMarket` includes the fairness of the
  abstract market's turns, and rests on it.
* `Spec` of `EventFile`: `WF_vars(ReadOne)`.  The reading program keeps calling
  `next_event`; the writer may stop anywhere.
* `MarketSpec` of `SimulatedMarket`: `WF(InCall)`, a call under way goes on, for
  the same reason; and `WF(Call /\ ~Exhausted)`, the caller keeps calling
  `process(source)` while the simulator has events to make, as the loops of the
  tests do.  `CallsReturn` needs only the first.
* `ReplaySpec` of `Replay`: the steps inside calls of either engine go on (as
  above), and the caller, when neither engine is in a call, keeps calling
  `process(source)` while events are left and resets the source when there are
  none and the engine is behind.  That is an assumption on the caller, who may
  take only `MaxWhims` other steps, and a weaker caller would not do: one that
  always takes batches of two can drop the same event for ever, because a stale
  first event ends the batch.

## 6. Proofs

The theorems hold for every value of the constants that the modules' named
assumptions allow.  `SymbolsAssumption` and `FeedAssumption`: the empty symbol is
not a symbol, and an event offered as number n is a `MarketEvent` with that
number.  `EventsAssumption`: the fields of an event have their widths.
`StreamAssumption`: the events that a data set's run begins with are numbered in
order.  `ParametersAssumption`: the window and the fractions are ones that the
Python functions do not refuse.  `BoundsAssumption`: the bounds of a run are natural numbers; nothing is assumed of
how large they are.

**The engine, whatever its caller does.**  The proofs about the engine are proofs
of `Run == Init /\ [][Step]_vars`, where a step is a call of `process` with any
`MarketEvent` at all or a turn of the match under way.  `Spec` implies it
(`SpecIsRun`, for any `Feed`), and so does the engine under the simulator
(`MarketIsRun`); they share one invariant.

    EngineProofs
      InductiveInvariant   Spec => []IInv
      TypeCorrect          Spec => []TypeOK
      LogDense             Spec => []LogIsDense
      OrdersStayConsistent Spec => []OrdersConsistent
      BooksStayWellFormed  Spec => []BooksWellFormed
      NeverCrossed         Spec => []BooksNeverCrossed
      StaleNeedsOutOfBand  Spec => []StaleOnlyOutOfBand
      ClosedStaysClosed    Spec => ClosedOrdersAreFinal

The invariant `IInv` is the conjunction of the properties and of what a turn of
matching relies on.  While `match` runs, the event under way is an Add of a known order
that is in no book and not cancelled, and its market exists (`MatchUnderWay`):
without it nothing is known of the two orders that a turn changes, and a resting
order might be added twice.  Nor are the properties inductive one by one: that a book
is never crossed after `RestIfNeeded` needs the levels and the lookup table to
agree with the orders (the best order of a non-empty side exists and bears the
price of its level), and `StaleOnlyOutOfBand` needs `OrdersConsistent`, for a
match removes a resting order exactly when it is Filled.  `StepKeeps` has one
lemma for each action (`BeginMatchKeeps`, `MatchTradeKeeps`, ...), each with one
step per conjunct.

`EngineProofs` begins with the facts about a book as a value, without the engine:
`BookAddGood` and `BookRemoveGood` (levels and lookup stay in agreement),
`BestBidProperties` and `BestAskProperties` (the order found is one of the best
level, and none is found only if the side is empty), and the lemmas on queues
and on least elements below them.

**The engine and its log.**

    HistoryProofs
      HistoryInvariant         Spec => []HistoryInv
      ExecutionsAreTraceable   Spec => []ExecutionsTraceable
      LiveOrdersStayBooked     Spec => []LiveOrdersRest
      QueuesStayInArrivalOrder Spec => []QueuesInArrivalOrder
      TradesHavePriority       Spec => PriceTimePriority
      FillsStayTrades          Spec => []FillsAreTrades

`HistoryInv` ties orders, books and executions to the log: each order has an Add
with its terms and each Add its order, a booked order is in the book of its Add's
symbol, the order being matched is that of the last event, a cancelled order in a
book was cancelled under another symbol, and trades and executions fit the Adds of
their two orders.  A log only grows, and a longer log keeps the place of every
arrival, which is why nothing of this is lost again.  An execution's event context
comes only when the match is over; so the trades in hand are in the invariant as
well as the executions.  Queues are in arrival order because the one order that is
ever put behind a queue is that of the last event, and removal leaves the order of
the rest; price-time priority is that fact, the order of the levels, and
`BestBidProperties`.  `FillsAreTrades` compares sums: they are folds over sets of
trades, which the proof turns into running sums along the executions.

**The engine implements the market.**

    MarketProofs
      EngineIsMarket  Spec => Market!Init /\ [][Market!Next]_(Market!vars)

is the safety part of `ImplementsMarket`: initial states map to initial states,
and every step of the engine to the step of `PriorityMarket` that is named for it
in `StepIsStep`, or to a stutter.  It needs all three invariants: a turn of
matching is a `Trade` of the abstract market because the front of the best level
is the best of all that rest by price and age.

**The simulator.**

    SimulatedProofs
      MarketInvariant       MarketSpec => []MarketInv
      MarketIsRun           MarketSpec => Run
      GapsAreDrops          MarketSpec => []GapOnlyByDrop
      IdsKeepMeetingOrders  MarketSpec => []IdsMeetOrders
      GapsAreForever        MarketSpec => GapIsForever

The counters move when an event is made, the engine's number when it is taken,
and between the two is the rest of a batch.  `Sound` (in `MarketInv`) says that
the rest is the last that the simulator made, that its first event is the expected
one unless something was dropped, and that as long as no number is missing the log
followed by the rest names orders in turn.

**Replay.**

    ReplayProofs
      ReplayInvariant        ReplaySpec => []ReplayInv
      AheadNeedsCutBatch     ReplaySpec => []AheadOnlyByCutBatch
      ReplayIsDeterministic  ReplaySpec => []ReplayAgrees

That the replaying engine's log begins the original's is not enough for the two
to agree: one must know that a log determines an engine.  The proof writes the
engine as a function (`Taken` and `Turned`: the state after an event is taken, and
after a turn of matching), shows that each action of either engine computes it,
and then keeps the original's past: `Follows` says that its states, from the first
to the present one, are what the function makes of the log, and that the replaying
engine is in one of them.

**The event file.**

    FileProofs
      DecodedIsEncoded     Deserialize(Serialize(e)) = e, of every valid event
      FileInvariant        Spec => []FileInv
      FileTypesStay        Spec => []TypeOK
      FlushedStays         Spec => []FlushedSurvives
      ReadsStayExact       Spec => []ReadsWhatWasWritten
      CleanEndsAreComplete Spec => CleanEndIsComplete

`DecodedIsEncoded` goes through the layout of all five types, field by field.
`FileInv` has a part for the store and one for the source.  The store's (`StoreInv`):
as long as every store was opened on whole records, the file and the buffer of an
open store together are the records of what was appended, and the file of any
other is those records and at most a part of one more (`Torn`), which is what a
failed write or a crash leaves, and what `Kept` counts.  After a store was opened on
a torn file, the sound records stay at its beginning.  The source's (`SourceInv`):
it stands at the end of the records it has delivered, or else the file is damaged,
and it stands behind all the sound ones.  A source that meets a torn record, or one
whose bytes are not there yet, therefore delivers nothing that was not appended.
The writer's steps have to keep the source's part, too: a crash forgets events
that never reached the file, and the lemmas show that no source had read them
(`Moves`).

**The Python reader.**

    ReaderProofs
      ReadInvariant       Spec => []ReadInv
      ReadersStayTogether Spec => []ReadersAgree
      PythonReadsWritten  Spec => []PythonReadsWhatWasWritten

`PythonDecodes` compares the two decoders on the same bytes: `decode_event` makes
the same event of whatever `deserialize` accepts, if the symbol is ASCII, and
refuses it otherwise.  The two readers walk through the file in different ways, one
call at a time while the file grows, and all at once; so `ReadInv` adds to
`FileInv` the way that the source took: as long as no call threw, its events are
those of records that follow one another from the beginning of the file to where it
stands (`HasRead`).  What is in the file never changes (`FileGrows`), so the way
stays good, and `IterAlong` says that `iter_events` takes it too.  Nothing in this
depends on who wrote the bytes, and it holds in damaged files as well.
`PythonReadsWritten` needs only `FileInv`: the records that the file holds are a way
that `iter_events` takes up to the first symbol it refuses, and behind them is the
end of the file, that symbol, or a part of a record, at which it raises
(`WhereReadingStops`).

**The data sets.**

    DatasetProofs
      StreamInvariant               Spec => []IsStream(events)
      FeaturesNeverLookAhead        Spec => FeaturesLookBack
      RowsStayFinal                 Spec => RowsAreFinal
      PartitionsStayChronological   Spec => []PartitionsChronological
      OnlyCutoffLeaks               Spec => []LeaksOnlyAtCutoff

`IsStream` says that the events are numbered in order, with integer times; the
times themselves may go back.  So `Before` (time, then number) is a strict order of
the trades, and `RankedLists` shows that `Sorted` lists any finite set by such an
order: the later of two members has more before it (`RankGrows`), so no two share a
place and none is left empty.  One more event leaves the places of all that is
before it (`ListingsAgree`).  A row's features depend only on the trades up to its
own (`RowsAgree`, `FeatureSources`), so they stay whenever the new event is behind
the row; its target depends on one more trade, so a row of the dataset stays
when the clock does not go back (`EarlierRowsStay`).  The cuts of a split are times
of rows in increasing order (`TimesListed`, `SplitFacts`), which gives the order of
the partitions; and a training row whose target is from the cut or later has no
other row of its symbol between it and the cut, so there is one per symbol.

Recursion.  Sequences of records (`Joined`), offsets, batches, sums and
`iter_events` are recursive functions.  The library's induction theorems cannot be used here, so
each such fact is proved of the least number for which it would fail
(`LeastNatural`), including that the function exists.

**Only model-checked:**  the fairness part of `ImplementsMarket`, and the liveness
properties `CallsReturn`, `AllProcessed`, `ReadingEnds` and `ReplayCompletes`,
since liveness under fairness is beyond the proof system here.

## 7. What the project found

* `engine_booked_executable`: an Execute event fills a booked order without
  telling its book, and a Cancel that names another existing market closes an
  order that stays in its own; `docs/market_core_plan.md` wants every booked
  order to be executable.  `StaleOnlyOutOfBand` (proved) says that these two are
  the only ways.
* `engine_match_atomic`: a match with such a cancelled order fills the incoming
  order and not the resting one, and records no trade.
* `engine_remainder_rests`: an order that meets a stale one leaves `match` with
  quantity left and in no book.
* `event_validation`: `validate_event` refuses every Add event, for the side, an
  `Enum`, is not an `int`; nothing calls it yet.
* `datasets_contaminated`: the target of the last training row of a symbol is the
  price of a trade from the time of the validation set or later.
  `LeaksOnlyAtCutoff` says that this one row per symbol is all that leaks.
* `datasets_pipeline`: the functions of the pipeline, one after the other, raise
  on any stream with a trade: `events_to_frame` makes nullable columns, the next
  price of the last trade is missing, and `astype("int8")` refuses the missing
  comparison.  (That is pandas, an external library, as its casts are
  documented.)  The run `datasets` therefore is about plain columns.

Behaviours that no document speaks of, and that the models show.  A torn record
at the end of a file makes the records of the next session unreadable, or lets
bytes of the first complete it (`ReadsWhatWasWritten` bounds the damage to what
follows the tear).  After the exception for a truncated record the next call of
the source reports a clean end, so only a caller that heeds the exception knows
(`CleanEndIsComplete` says that it is always thrown); Python's generator raises
and is finished.  One `process(source)` does not replay a log that holds an event
that failed: several calls do (`ReplayCompletes`).  A simulator whose event was
lost to an exception or a cut batch can never be used with that engine again
(`GapIsForever`).  A symbol that is not ASCII, which `make_symbol` accepts, makes
the rest of a file unreadable to Python.  When the clock goes back, new trades
change features and targets of rows that exist already (`RowsAreFinal` holds only
while it does not).

## 8. What is not modelled

`confirm_cancel`, `EventSequenceValidator::reset` and `EventLog::clear`, which
nothing but tests calls.  `tools/main.cpp` and `tools/memory_probe.cpp` only
print; `make_symbol` copies a string; the baseline model and the values of the
rolling statistics are floating-point library calls.  The tabulation in
`events_to_frame` is layout, but for its dtypes.  The random generator's seed and
distributions are left out: a draw is any value.  Files that cannot be opened at
all are left out (the constructor throws and there is no object).  Overflow of
64-bit event numbers, ids and record counts is out of any run's reach and not
modelled.
