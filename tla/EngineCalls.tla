----------------------------- MODULE EngineCalls -----------------------------
(***************************************************************************)
(* The two loops of core/engine/trading_engine.cpp that feed an engine     *)
(* from an IMarketDataSource: process(source), which takes event after     *)
(* event from next_event, and process_batch, which takes one batch from    *)
(* next_batch.  Both stop at the first event that process(event) refuses   *)
(* or fails.  What the source hands over comes from the module that        *)
(* composes this one with a source.                                        *)
(***************************************************************************)
EXTENDS TradingEngine

VARIABLES
  call,    \* "none", or the call under way: "process" or "process_batch"
  batch,   \* the events that the call of process_batch still has to process
  cut      \* history: a batch was left unfinished

engineVars == <<vars, call, batch, cut>>

CallsInit == Init /\ call = "none" /\ batch = <<>> /\ cut = FALSE

\* The engine is in no call.
Between == call = "none" /\ pc = "idle"

\* What the loop does after a step of the engine: an event that failed ends
\* it, and process_batch then drops the rest of its batch.
AfterStep(rest) ==
  IF pc' = "idle" /\ (~returned' \/ (call = "process_batch" /\ rest = <<>>))
  THEN call' = "none" /\ batch' = <<>> /\ cut' = (cut \/ rest # <<>>)
  ELSE call' = call /\ batch' = rest /\ cut' = cut

\* A turn of matching inside the call.
MatchTurn == call # "none" /\ Match /\ AfterStep(batch)

-----------------------------------------------------------------------------
\* process(source): the call, next_event gives e, next_event returns false.
CallProcess ==
  /\ Between
  /\ call' = "process"
  /\ UNCHANGED <<vars, batch, cut>>

ProcessTakes(e) ==
  /\ call = "process"
  /\ Process(e)
  /\ AfterStep(<<>>)

ProcessEnds ==
  /\ call = "process" /\ pc = "idle"
  /\ call' = "none"
  /\ UNCHANGED <<vars, batch, cut>>

\* process_batch: next_batch gives events (with none, nothing changes), and the
\* loop processes the next of them.
CallProcessBatch(events) ==
  /\ Between
  /\ events # <<>>
  /\ call' = "process_batch"
  /\ batch' = events
  /\ UNCHANGED <<vars, cut>>

BatchNext ==
  /\ call = "process_batch" /\ pc = "idle"
  /\ \E e \in {Head(batch)} : Process(e)
  /\ AfterStep(Tail(batch))
=============================================================================
