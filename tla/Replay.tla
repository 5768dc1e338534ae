------------------------------- MODULE Replay --------------------------------
(***************************************************************************)
(* Replay: a ReplaySource (core/events/replay_source.cpp) over the log of  *)
(* one engine, and a second engine that is fed from it through             *)
(* process(source) and process_batch.                                      *)
(*                                                                         *)
(* The variables of TradingEngine are those of the original engine; the    *)
(* instance B of EngineCalls is the engine that replays.  One thread calls *)
(* them in turn: no call of one engine begins while the other is inside a  *)
(* call.                                                                   *)
(*                                                                         *)
(* The caller is patient, but for MaxWhims steps: see Whim.                *)
(***************************************************************************)
EXTENDS TradingEngine

CONSTANTS
  MaxBatch,   \* bound: the max_events given to process_batch
  MaxWhims    \* bound: how many steps of the caller are not patient ones

ASSUME ReplayBoundsAssumption == MaxBatch \in Nat /\ MaxWhims \in Nat

VARIABLES
  bNextExpected, bEventLog, bOrders, bBooks, bExecutions, bPc, bTrades,
  bReturned, call, batch, cut,   \* the engine that replays, and its calls
  position,   \* ReplaySource::position_
  whims       \* how many steps of the caller were not patient ones

B == INSTANCE EngineCalls WITH
       nextExpected <- bNextExpected, eventLog <- bEventLog,
       orders <- bOrders, books <- bBooks, executions <- bExecutions,
       pc <- bPc, trades <- bTrades, returned <- bReturned

bVars == <<bNextExpected, bEventLog, bOrders, bBooks, bExecutions, bPc, bTrades,
           bReturned>>
replayVars == <<vars, bVars, call, batch, cut, position, whims>>

ReplayInit ==
  /\ Init /\ B!CallsInit
  /\ position = 0
  /\ whims = 0

-----------------------------------------------------------------------------
\* The original engine goes on taking events.
Original ==
  /\ call = "none"
  /\ Next
  /\ UNCHANGED <<bVars, call, batch, cut, position>>

\* ReplaySource::exhausted.
Exhausted == position >= Len(eventLog)

\* A turn of matching inside the replaying engine.
ReplayMatch ==
  /\ B!MatchTurn
  /\ UNCHANGED <<vars, position>>

CallProcess ==
  /\ pc = "idle"
  /\ B!CallProcess
  /\ UNCHANGED <<vars, position>>

\* Mutant of ProcessNext: the next event is taken before this one succeeded.
ProcessNextAhead ==
  /\ ~Exhausted
  /\ \E e \in {eventLog[position + 1]} : B!ProcessTakes(e)
  /\ position' = IF position + 2 <= Len(eventLog) /\ bPc' = "idle"
                 THEN position + 2 ELSE position + 1
  /\ UNCHANGED vars

\* next_event gives an event, and the engine takes it.
ProcessNext ==
  /\ ~Exhausted
  /\ \E e \in {eventLog[position + 1]} : B!ProcessTakes(e)
  /\ position' = position + 1
  /\ UNCHANGED vars

\* next_event returns false, and process returns.
ProcessEnds ==
  /\ Exhausted
  /\ B!ProcessEnds
  /\ UNCHANGED <<vars, position>>

\* process_batch, whose next_batch gives at most max events.
CallProcessBatch(max) ==
  LET count == IF Len(eventLog) - position < max
               THEN Len(eventLog) - position ELSE max
  IN  /\ pc = "idle"
      /\ ~Exhausted
      /\ B!CallProcessBatch(SubSeq(eventLog, position + 1, position + count))
      /\ position' = position + count
      /\ UNCHANGED vars

BatchNext ==
  /\ B!BatchNext
  /\ UNCHANGED <<vars, position>>

\* ReplaySource::reset.
ResetSource ==
  /\ pc = "idle" /\ B!Between
  /\ position > 0
  /\ position' = 0
  /\ cut' = FALSE
  /\ UNCHANGED <<vars, bVars, call, batch>>

-----------------------------------------------------------------------------
Replaying == ReplayMatch \/ ProcessNext \/ ProcessEnds \/ BatchNext

\* The source stands where the replaying engine does.
InStep == position = bNextExpected - 1

\* A patient caller asks the source for its state before it acts: it calls the
\* engine only while events are left, takes batches only in step, and resets the
\* source only at the end.  This step is of another kind.
Whim ==
  \/ position' < position /\ ~Exhausted
  \/ call = "none" /\ call' # "none" /\ Exhausted
  \/ call = "none" /\ call' = "process_batch" /\ ~InStep

ReplayNext ==
  /\ \/ Original
     \/ CallProcess
     \/ \E max \in 1 .. MaxBatch : CallProcessBatch(max)
     \/ Replaying
     \/ ResetSource
  /\ whims' = IF Whim THEN whims + 1 ELSE whims
  /\ whims' <= MaxWhims

\* Calls under way go on, in either engine.  The caller keeps calling process
\* while events are left, and goes back to the start when there are none and the
\* engine is behind.  No step of any of these kinds is a whim.
ReplaySpec ==
  /\ ReplayInit /\ [][ReplayNext]_replayVars
  /\ WF_replayVars(Original /\ pc = "matching" /\ whims' = whims)
  /\ WF_replayVars(Replaying /\ whims' = whims)
  /\ WF_replayVars(CallProcess /\ ~Exhausted /\ whims' = whims)
  /\ WF_replayVars(ResetSource /\ Exhausted /\ ~InStep /\ whims' = whims)

-----------------------------------------------------------------------------
(***************************************************************************)
(* Properties.                                                             *)
(***************************************************************************)

\* Deterministic replay: the replaying engine's log is a prefix of the
\* original's, and once it has taken the whole log its orders, books and
\* executions are those of the original, whichever calls brought it there.
\* (That rests on the log holding the events that failed, too.)
ReplayAgrees ==
  /\ IsPrefix(bEventLog, eventLog)
  /\ bEventLog = eventLog /\ pc = "idle" /\ bPc = "idle" =>
       <<bNextExpected, bOrders, bBooks, bExecutions>>
         = <<nextExpected, orders, books, executions>>

\* The source gets ahead of the engine only by a batch that was left
\* unfinished.  So the calls of process(source), which stop at every event that
\* fails, can always be resumed where they stopped.
AheadOnlyByCutBatch ==
  position - Len(batch) >= bNextExpected => cut

\* A caller that is patient from some time on brings the replaying engine to the
\* end of the log, although every failed event ends a call and may cost the rest
\* of a batch.
ReplayCompletes == []<>(bEventLog = eventLog)
=============================================================================
