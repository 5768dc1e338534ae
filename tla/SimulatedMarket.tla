--------------------------- MODULE SimulatedMarket ---------------------------
(***************************************************************************)
(* An engine fed by the MarketSimulator                                    *)
(* (core/simulator/market_simulator.cpp), which numbers and times its      *)
(* events by its own counters and a SimulationClock, and draws the rest at *)
(* random: a draw is a nondeterministic choice.  Prices, quantities and    *)
(* spreads of the code's ranges are represented by a few small ones.       *)
(*                                                                         *)
(* Every event reaches the engine by Process, so that Feed, the constant   *)
(* of TradingEngine, is of no account here.                                *)
(***************************************************************************)
EXTENDS EngineCalls

CONSTANTS
  ConfigSymbols,   \* SimulationConfig::symbols
  EventCount,      \* SimulationConfig::event_count
  DrawnPrices,     \* bound: what price_distribution_ draws
  DrawnQuantities, \* bound: what quantity_distribution_ draws
  Spreads,         \* bound: the spreads drawn for quotes
  Times,           \* bound: the values the clock takes
  MaxBatch         \* bound: the max_events given to process_batch

\* The constructor throws when there is no symbol or no event to generate.
ASSUME ConfigAssumption ==
  /\ ConfigSymbols # {} /\ ConfigSymbols \subseteq Symbols \cup {NoSymbol}
  /\ EventCount \in Nat \ {0}

ASSUME DrawsAssumption ==
  /\ DrawnPrices \cup DrawnQuantities \cup Spreads \subseteq Nat \ {0}
  /\ Times \subseteq Int /\ 0 \in Times /\ MaxBatch \in Nat

VARIABLES
  generated,     \* events_generated_
  nextNumber,    \* next_event_id_ and next_sequence_number_, always equal
  nextOrderId,   \* next_order_id_
  clock,         \* SimulationClock::current_
  threw          \* history: next_event threw

simVars == <<generated, nextNumber, nextOrderId, clock, threw>>
marketVars == <<engineVars, simVars>>

MarketInit ==
  /\ CallsInit
  /\ generated = 0 /\ nextNumber = 1 /\ nextOrderId = 1
  /\ clock \in Times
  /\ threw = FALSE

-----------------------------------------------------------------------------
(***************************************************************************)
(* next_event, as the events that it may make, and what it counts.         *)
(***************************************************************************)
Exhausted == generated >= EventCount

\* Mutant of KnownIds: the id that the next Add will get is drawn, too.
KnownIdsAndNext(next) == 1 .. next

\* The ids drawn for Cancel and Execute events, when next is the next order id.
KnownIds(next) == IF next > 1 THEN 1 .. next - 1 ELSE {1}

Payloads(next) ==
  [type : {"Trade"}, price : DrawnPrices, quantity : DrawnQuantities]
  \cup {[type |-> "Quote", bid_price |-> p, bid_quantity |-> q,
         asking_price |-> p + spread, asking_quantity |-> r] :
          p \in DrawnPrices, spread \in Spreads,
          q \in DrawnQuantities, r \in DrawnQuantities}
  \cup [type : {"Add"}, order_id : {next}, side : Side,
        price : DrawnPrices, quantity : DrawnQuantities]
  \cup [type : {"Cancel"}, order_id : KnownIds(next),
        quantity : DrawnQuantities]
  \cup [type : {"Execute"}, order_id : KnownIds(next), price : DrawnPrices,
        quantity : DrawnQuantities]

\* Mutant of Generated: the sequence number is incremented before it is used.
GeneratedPreIncremented(n, next) ==
  [event_id : {n}, sequence_number : {n + 1}, timestamp : {clock},
   symbol : ConfigSymbols, payload : Payloads(next)]

\* The events that the generator may make as number n.
Generated(n, next) ==
  [event_id : {n}, sequence_number : {n}, timestamp : {clock},
   symbol : ConfigSymbols, payload : Payloads(next)]

Adds(events) ==
  Cardinality({i \in DOMAIN events : events[i].payload.type = "Add"})

\* Calls of next_event have made these events.  The counters have moved before
\* the last of them turns out not to be valid and the call throws.
Counted(events) ==
  /\ generated' = generated + Len(events)
  /\ nextNumber' = nextNumber + Len(events)
  /\ nextOrderId' = nextOrderId + Adds(events)
  /\ UNCHANGED clock

-----------------------------------------------------------------------------
(***************************************************************************)
(* process(source).                                                        *)
(***************************************************************************)
ProcessNext ==
  /\ ~Exhausted
  /\ \E e \in Generated(nextNumber, nextOrderId) :
       IsValid(e) /\ ProcessTakes(e) /\ Counted(<<e>>)
  /\ UNCHANGED threw

\* next_event throws, and with it process: the event is gone.
ProcessThrows ==
  /\ call = "process" /\ pc = "idle"
  /\ ~Exhausted
  /\ \E e \in Generated(nextNumber, nextOrderId) : ~IsValid(e) /\ Counted(<<e>>)
  /\ call' = "none"
  /\ threw' = TRUE
  /\ UNCHANGED <<vars, batch, cut>>

\* Mutant of ProcessDone: the last event is never asked for.
ProcessDoneEarly == generated + 1 >= EventCount /\ ProcessEnds /\ UNCHANGED simVars

ProcessDone == Exhausted /\ ProcessEnds /\ UNCHANGED simVars

-----------------------------------------------------------------------------
(***************************************************************************)
(* process_batch.                                                          *)
(***************************************************************************)

\* next_event is called again after s, unless its last event is not valid or
\* event_count is reached.
Extended(s) ==
  IF generated + Len(s) >= EventCount \/ (s # <<>> /\ ~IsValid(Last(s)))
  THEN {s}
  ELSE {Append(s, e) :
          e \in Generated(nextNumber + Len(s), nextOrderId + Adds(s))}

\* What at most max calls of next_event may make.
Drawn[max \in 0 .. MaxBatch] ==
  IF max = 0 THEN {<<>>} ELSE UNION {Extended(s) : s \in Drawn[max - 1]}

CallBatch(max) ==
  /\ \E events \in Drawn[max] :
       /\ \A i \in DOMAIN events : IsValid(events[i])
       /\ CallProcessBatch(events)
       /\ Counted(events)
  /\ UNCHANGED threw

\* next_event throws within next_batch: the whole batch is gone.
CallBatchThrows(max) ==
  /\ Between
  /\ \E events \in Drawn[max] :
       /\ events # <<>> /\ ~IsValid(Last(events))
       /\ Counted(events)
  /\ threw' = TRUE
  /\ UNCHANGED engineVars

-----------------------------------------------------------------------------
\* SimulationClock::advance, by any delta, between two calls.
AdvanceClock ==
  /\ Between
  /\ \E time \in Times \ {clock} : clock' = time
  /\ UNCHANGED <<engineVars, generated, nextNumber, nextOrderId, threw>>

Call == CallProcess /\ UNCHANGED simVars

InCall ==
  \/ MatchTurn /\ UNCHANGED simVars
  \/ ProcessNext \/ ProcessThrows \/ ProcessDone
  \/ BatchNext /\ UNCHANGED simVars

MarketNext ==
  \/ Call
  \/ \E max \in 1 .. MaxBatch : CallBatch(max) \/ CallBatchThrows(max)
  \/ InCall
  \/ AdvanceClock

\* A call under way goes on, and the caller keeps calling process(source) while
\* the simulator has events to make.
MarketSpec ==
  /\ MarketInit /\ [][MarketNext]_marketVars
  /\ WF_marketVars(InCall)
  /\ WF_marketVars(Call /\ ~Exhausted)

-----------------------------------------------------------------------------
(***************************************************************************)
(* Properties.                                                             *)
(***************************************************************************)
Dropped == cut \/ threw

\* The simulator has made events that the engine has neither taken nor got in
\* the batch under way.
Gap == nextNumber - Len(batch) > nextExpected

\* No event is lost in silence: the engine falls behind the simulator only
\* when next_event threw (its counters move before it throws) or when a failed
\* event cost the rest of a batch.
GapOnlyByDrop == Gap => Dropped

\* The simulator cannot be reset, so a gap is for ever: the engine takes none
\* of the events that are generated after it.
GapIsForever == [][Gap => eventLog' = eventLog]_marketVars

\* The Add events that the engine logs have distinct ids, and a Cancel or
\* Execute event names the order of an Add logged before it, or id 1 when there
\* is none: whatever batches and exceptions have cost.
IdsMeetOrders ==
  \A i \in DOMAIN eventLog :
    LET p == eventLog[i].payload
        added == {eventLog[j].payload.order_id :
                    j \in {j \in 1 .. i - 1 : eventLog[j].payload.type = "Add"}}
    IN  /\ p.type = "Add" => p.order_id \notin added
        /\ p.type \in {"Cancel", "Execute"} =>
             p.order_id \in IF added = {} THEN {1} ELSE added

\* Every call of process(source) and process_batch returns, and so does each
\* call of process(event) in it: although match loops without a bound and
\* process(source) goes on as long as the source does.
CallsReturn == call # "none" ~> call = "none"

\* A caller that keeps calling process(source) gets all event_count events into
\* the engine, although events that fail end calls, unless some were dropped.
AllProcessed == <>(Dropped \/ Len(eventLog) = EventCount)
=============================================================================
