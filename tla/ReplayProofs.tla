---------------------------- MODULE ReplayProofs -----------------------------
(***************************************************************************)
(* Replay of one engine's log by another, for every feed and every pattern *)
(* of calls: what the source hands over, and determinism.                  *)
(***************************************************************************)
EXTENDS Replay, HistoryProofs

-----------------------------------------------------------------------------
(***************************************************************************)
(* The source, the batch under way and the two logs.                       *)
(***************************************************************************)

\* s is a prefix of t, place by place.
Begins(s, t) ==
  /\ s \in Seq(MarketEvent)
  /\ Len(s) <= Len(t)
  /\ \A i \in 1 .. Len(s) : s[i] = t[i]

\* rest is the part of log that ends at place to.
EndsAt(rest, log, to) ==
  /\ rest \in Seq(MarketEvent)
  /\ Len(rest) <= to
  /\ \A i \in 1 .. Len(rest) : rest[i] = log[(to - Len(rest)) + i]

\* The source never hands over what the replaying engine, which has taken n
\* events, could not take next, unless a batch was cut.
NotAhead(rest, to, n) == to - Len(rest) <= n

ReplayTyped ==
  /\ bPc \in {"idle", "matching"}
  /\ call \in {"none", "process", "process_batch"}
  /\ cut \in BOOLEAN
  /\ call # "none" => pc = "idle"
  /\ call # "process_batch" => batch = <<>>
  /\ call = "process_batch" /\ bPc = "idle" => batch # <<>>
  /\ position \in Nat /\ position <= Len(eventLog)

ReplayInv ==
  /\ IInv
  /\ ReplayTyped
  /\ Begins(bEventLog, eventLog)
  /\ bNextExpected = Len(bEventLog) + 1
  /\ EndsAt(batch, eventLog, position)
  /\ ~cut => NotAhead(batch, position, Len(bEventLog))

\* What process does with a valid event, as far as its number goes.
LEMMA ReplayByNumber ==
  ASSUME NEW e, IsValid(e), B!Process(e)
  PROVE  \/ /\ e.sequence_number # bNextExpected
            /\ UNCHANGED <<bNextExpected, bEventLog>> /\ bPc' = "idle"
         \/ /\ e.sequence_number = bNextExpected
            /\ bNextExpected' = bNextExpected + 1
            /\ bEventLog' = Append(bEventLog, e)
            /\ bPc' \in {"idle", "matching"}
<1>0. B!IsValid(e) <=> IsValid(e)
  BY DEF B!IsValid, IsValid, B!IsValidPayload, IsValidPayload, B!Side, Side
<1>1. CASE B!Refuses(e) /\ B!Refuse
  BY <1>0, <1>1 DEF B!Refuses, B!Refuse
<1>2. ASSUME B!Accept(e), bPc' \in {"idle", "matching"}
      PROVE  /\ e.sequence_number = bNextExpected
             /\ bNextExpected' = bNextExpected + 1
             /\ bEventLog' = Append(bEventLog, e)
             /\ bPc' \in {"idle", "matching"}
  BY <1>2 DEF B!Accept, B!Refuses
<1>3. CASE B!Take(e)
  <2>1. B!Accept(e) /\ bPc' \in {"idle", "matching"}
    BY <1>3
       DEF B!Take, B!RejectDuplicateAdd, B!BeginMatch, B!RejectCancel,
           B!CancelNotInBook, B!CancelBooked, B!RejectExecute, B!ExecuteOrder,
           B!MarketData, B!Return
  <2> QED
    BY <1>2, <2>1
<1> QED
  BY <1>1, <1>3 DEF B!Process

\* A turn of matching touches neither the log nor the numbers.
LEMMA ReplayMatchKeepsLog ==
  ASSUME B!Match, bPc \in {"idle", "matching"}
  PROVE  /\ UNCHANGED <<bNextExpected, bEventLog>>
         /\ bPc' \in {"idle", "matching"}
BY DEF B!Match, B!MatchTrade, B!AbandonOnExhausted, B!AbandonHalfDone,
       B!RestIfNeeded, B!FinishMatch, B!Return

-----------------------------------------------------------------------------
(***************************************************************************)
(* Prefixes and ends of the log, as values.                                *)
(***************************************************************************)

\* A log that grows at its end keeps its prefixes and parts.
LEMMA PrefixGrows ==
  ASSUME NEW s, NEW t, NEW u, Begins(s, t), Begins(t, u)
  PROVE  Begins(s, u)
<1>1. Len(s) \in Nat /\ Len(t) \in Nat
  BY LenProperties DEF Begins
<1>2. u = u /\ Len(s) <= Len(t) /\ Len(t) <= Len(u)
  BY DEF Begins
<1> QED
  BY <1>1, <1>2 DEF Begins

LEMMA PartKept ==
  ASSUME NEW rest, NEW s, NEW t, NEW to \in Nat, to <= Len(s),
         EndsAt(rest, s, to), Begins(s, t)
  PROVE  EndsAt(rest, t, to)
<1>1. Len(s) \in Nat /\ Len(rest) \in Nat
  BY LenProperties DEF Begins, EndsAt
<1>2. ASSUME NEW i \in 1 .. Len(rest)
      PROVE  rest[i] = t[(to - Len(rest)) + i]
  <2>1. (to - Len(rest)) + i \in 1 .. Len(s)
    BY <1>1 DEF EndsAt
  <2> QED
    BY <2>1 DEF EndsAt, Begins
<1> QED
  BY <1>2 DEF EndsAt

\* The event after a prefix extends it.
LEMMA PrefixExtends ==
  ASSUME NEW s, NEW t \in Seq(MarketEvent), Begins(s, t), Len(s) < Len(t),
         NEW e, e = t[Len(s) + 1]
  PROVE  Begins(Append(s, e), t)
<1>1. /\ s \in Seq(MarketEvent) /\ Len(s) \in Nat /\ Len(t) \in Nat
      /\ DOMAIN t = 1 .. Len(t)
  BY LenProperties DEF Begins
<1>2. e \in MarketEvent
  <2>1. Len(s) + 1 \in DOMAIN t
    BY <1>1
  <2> QED
    BY <2>1, ElementOfSeq
<1> DEFINE s2 == Append(s, e)
<1>3. /\ s2 \in Seq(MarketEvent) /\ Len(s2) = Len(s) + 1
      /\ \A i \in 1 .. Len(s) : s2[i] = s[i]
      /\ s2[Len(s) + 1] = e
  BY <1>1, <1>2, AppendProperties
<1> HIDE DEF s2
<1>4. ASSUME NEW i \in 1 .. Len(s2) PROVE s2[i] = t[i]
  <2>1. CASE i = Len(s) + 1
    BY <1>3, <2>1
  <2>2. CASE i # Len(s) + 1
    BY <1>1, <1>3, <2>2 DEF Begins
  <2> QED
    BY <2>1, <2>2
<1>5. Begins(s2, t)
  BY <1>1, <1>3, <1>4 DEF Begins
<1> QED
  BY <1>5 DEF s2

\* Without its first event a part of the log is still one.
LEMMA PartShrinks ==
  ASSUME NEW rest, rest # <<>>, NEW log, NEW to \in Nat, EndsAt(rest, log, to)
  PROVE  /\ Head(rest) = log[(to - Len(rest)) + 1]
         /\ EndsAt(Tail(rest), log, to)
         /\ Len(Tail(rest)) = Len(rest) - 1
         /\ Len(rest) \in Nat \ {0}
         /\ (to - Len(rest)) + 1 \in 1 .. to
<1>1. rest \in Seq(MarketEvent)
  BY DEF EndsAt
<1>2. /\ Len(rest) \in Nat \ {0}
      /\ Head(rest) = rest[1]
      /\ Tail(rest) \in Seq(MarketEvent) /\ Len(Tail(rest)) = Len(rest) - 1
      /\ \A i \in 1 .. Len(Tail(rest)) : Tail(rest)[i] = rest[i + 1]
  BY <1>1, EmptySeq, HeadTailProperties
<1> DEFINE tail == Tail(rest)
<1>3. 1 \in 1 .. Len(rest) /\ (to - Len(rest)) + 1 \in 1 .. to
  BY <1>2 DEF EndsAt
<1>4. Head(rest) = log[(to - Len(rest)) + 1]
  BY <1>2, <1>3 DEF EndsAt
<1> HIDE DEF tail
<1>5. ASSUME NEW i \in 1 .. Len(rest) - 1
      PROVE  rest[i + 1] = log[(to - (Len(rest) - 1)) + i]
  <2>1. i + 1 \in 1 .. Len(rest)
        /\ (to - Len(rest)) + (i + 1) = (to - (Len(rest) - 1)) + i
    BY <1>2
  <2> QED
    BY <2>1 DEF EndsAt
<1>6. EndsAt(Tail(rest), log, to)
  BY <1>2, <1>5 DEF EndsAt
<1> QED
  BY <1>2, <1>3, <1>4, <1>6

\* No event is a part of the log that ends anywhere.
LEMMA EmptyPart ==
  ASSUME NEW log, NEW to \in Nat
  PROVE  EndsAt(<<>>, log, to) /\ Len(<<>>) = 0
BY EmptySeq DEF EndsAt
-----------------------------------------------------------------------------
(***************************************************************************)
(* Steps.                                                                  *)
(***************************************************************************)

\* What every step keeps of the source and the replaying engine.
SourceInv ==
  /\ ReplayTyped
  /\ Begins(bEventLog, eventLog)
  /\ bNextExpected = Len(bEventLog) + 1
  /\ EndsAt(batch, eventLog, position)
  /\ ~cut => NotAhead(batch, position, Len(bEventLog))

\* The replaying engine gets event number k of the log.  It takes it when it
\* has taken all before it; it has it already, or is behind, when it refuses.
LEMMA ReplayTakes ==
  ASSUME ReplayInv, NEW k \in 1 .. Len(eventLog), NEW e, e = eventLog[k],
         B!Process(e)
  PROVE  /\ Begins(bEventLog', eventLog)
         /\ bNextExpected' = Len(bEventLog') + 1
         /\ bPc' \in {"idle", "matching"}
         /\ k - 1 <= Len(bEventLog) => k <= Len(bEventLog')
<1>1. /\ eventLog \in Seq(MarketEvent) /\ DOMAIN eventLog = 1 .. Len(eventLog)
      /\ Len(eventLog) \in Nat
      /\ bEventLog \in Seq(MarketEvent) /\ Len(bEventLog) \in Nat
      /\ Begins(bEventLog, eventLog) /\ bNextExpected = Len(bEventLog) + 1
  BY LenProperties DEF ReplayInv, IInv, TypeOK, Begins
<1>2. e.sequence_number = k /\ IsValid(e)
  BY <1>1 DEF ReplayInv, IInv, LogIsDense
<1>3. CASE /\ e.sequence_number # bNextExpected
           /\ UNCHANGED <<bNextExpected, bEventLog>> /\ bPc' = "idle"
  BY <1>1, <1>2, <1>3
<1>4. CASE /\ e.sequence_number = bNextExpected
           /\ bNextExpected' = bNextExpected + 1
           /\ bEventLog' = Append(bEventLog, e)
           /\ bPc' \in {"idle", "matching"}
  <2>1. k = Len(bEventLog) + 1 /\ Len(bEventLog) < Len(eventLog)
    BY <1>1, <1>2, <1>4
  <2>2. Begins(bEventLog', eventLog)
    BY <1>1, <1>4, <2>1, PrefixExtends
  <2>3. Len(bEventLog') = Len(bEventLog) + 1
    <3>1. e \in MarketEvent
      BY <1>1, ElementOfSeq
    <3> QED
      BY <1>1, <1>4, <3>1, AppendProperties
  <2> QED
    BY <1>1, <1>4, <2>1, <2>2, <2>3
<1> QED
  BY <1>2, <1>3, <1>4, ReplayByNumber

\* Whatever the loop does with the rest of the batch.
LEMMA ReplayAfterStep ==
  ASSUME UNCHANGED vars, call \in {"process", "process_batch"}, pc = "idle",
         cut \in BOOLEAN, NEW rest, call = "process" => rest = <<>>,
         B!AfterStep(rest), bPc' \in {"idle", "matching"},
         position' \in Nat, position' <= Len(eventLog),
         Begins(bEventLog', eventLog), bNextExpected' = Len(bEventLog') + 1,
         EndsAt(rest, eventLog, position'),
         ~cut => NotAhead(rest, position', Len(bEventLog'))
  PROVE  SourceInv'
<1>0. eventLog' = eventLog /\ pc' = pc
  BY DEF vars
<1>1. CASE call' = "none" /\ batch' = <<>> /\ cut' = (cut \/ rest # <<>>)
  <2>1. EndsAt(<<>>, eventLog, position')
    BY EmptyPart
  <2>2. ReplayTyped'
    BY <1>0, <1>1 DEF ReplayTyped
  <2>3. ~cut' => ~cut /\ rest = <<>>
    BY <1>1
  <2>4. ~cut' => NotAhead(batch', position', Len(bEventLog'))
    BY <1>1, <2>3
  <2> QED
    BY <1>0, <1>1, <2>1, <2>2, <2>4 DEF SourceInv
<1>2. CASE /\ call' = call /\ batch' = rest /\ cut' = cut
           /\ ~(bPc' = "idle" /\ (~bReturned' \/ (call = "process_batch"
                                                  /\ rest = <<>>)))
  <2>1. ReplayTyped'
    BY <1>0, <1>2 DEF ReplayTyped
  <2> QED
    BY <1>0, <1>2, <2>1 DEF SourceInv
<1> QED
  BY <1>1, <1>2 DEF B!AfterStep

LEMMA ReplayMatchKeeps ==
  ASSUME ReplayInv, ReplayMatch
  PROVE  SourceInv'
<1>1. /\ B!Match /\ B!AfterStep(batch) /\ call # "none"
      /\ UNCHANGED vars /\ position' = position
  BY DEF ReplayMatch, B!MatchTurn
<1>2. /\ UNCHANGED <<bNextExpected, bEventLog>>
      /\ bPc' \in {"idle", "matching"}
  BY <1>1, ReplayMatchKeepsLog DEF ReplayInv, ReplayTyped
<1> QED
  BY <1>1, <1>2, ReplayAfterStep DEF ReplayInv, ReplayTyped

LEMMA ProcessNextKeeps ==
  ASSUME ReplayInv, ProcessNext
  PROVE  SourceInv'
<1>0. Len(eventLog) \in Nat
  BY LenProperties DEF ReplayInv, IInv, TypeOK
<1> DEFINE k == position + 1
           e == eventLog[k]
<1>1. /\ call = "process" /\ B!AfterStep(<<>>) /\ B!Process(e)
      /\ UNCHANGED vars /\ position' = k
  BY DEF ProcessNext, B!ProcessTakes
<1>2. /\ k \in 1 .. Len(eventLog) /\ k - 1 = position /\ k \in Nat
      /\ batch = <<>> /\ pc = "idle" /\ cut \in BOOLEAN
  BY <1>0, <1>1 DEF ProcessNext, Exhausted, ReplayInv, ReplayTyped
<1> HIDE DEF k
<1>3. /\ Begins(bEventLog', eventLog)
      /\ bNextExpected' = Len(bEventLog') + 1
      /\ bPc' \in {"idle", "matching"}
      /\ k - 1 <= Len(bEventLog) => k <= Len(bEventLog')
  BY <1>1, <1>2, ReplayTakes
<1>4. EndsAt(<<>>, eventLog, k) /\ Len(<<>>) = 0
  BY <1>2, EmptyPart
<1>5. ~cut => NotAhead(<<>>, k, Len(bEventLog'))
  <2>1. ~cut => position - 0 <= Len(bEventLog)
    BY <1>2, <1>4 DEF ReplayInv, NotAhead
  <2>2. position - 0 = k - 1 /\ k - 0 = k
    BY <1>2
  <2> QED
    BY <1>3, <1>4, <2>1, <2>2 DEF NotAhead
<1>6. position' \in Nat /\ position' <= Len(eventLog)
  BY <1>0, <1>1, <1>2
<1> QED
  BY <1>1, <1>2, <1>3, <1>4, <1>5, <1>6, ReplayAfterStep

LEMMA BatchNextKeeps ==
  ASSUME ReplayInv, BatchNext
  PROVE  SourceInv'
<1>0. Len(eventLog) \in Nat /\ position \in Nat /\ position <= Len(eventLog)
  BY LenProperties DEF ReplayInv, IInv, TypeOK, ReplayTyped
<1>1. /\ call = "process_batch" /\ batch # <<>> /\ bPc = "idle"
      /\ B!Process(Head(batch)) /\ B!AfterStep(Tail(batch))
      /\ UNCHANGED vars /\ position' = position
      /\ pc = "idle" /\ cut \in BOOLEAN
  BY DEF BatchNext, B!BatchNext, ReplayInv, ReplayTyped
<1> DEFINE k == (position - Len(batch)) + 1
           tail == Tail(batch)
<1>2. /\ Head(batch) = eventLog[k]
      /\ EndsAt(tail, eventLog, position)
      /\ Len(tail) = Len(batch) - 1
      /\ Len(batch) \in Nat \ {0} /\ k \in 1 .. position
  BY <1>0, <1>1, PartShrinks DEF ReplayInv
<1>3. /\ k \in 1 .. Len(eventLog) /\ k - 1 = position - Len(batch)
      /\ position - Len(tail) = k
  BY <1>0, <1>2
<1> HIDE DEF k, tail
<1>4. /\ Begins(bEventLog', eventLog)
      /\ bNextExpected' = Len(bEventLog') + 1
      /\ bPc' \in {"idle", "matching"}
      /\ k - 1 <= Len(bEventLog) => k <= Len(bEventLog')
  BY <1>1, <1>2, <1>3, ReplayTakes
<1>5. ~cut => NotAhead(tail, position, Len(bEventLog'))
  BY <1>3, <1>4 DEF ReplayInv, NotAhead
<1>6. B!AfterStep(tail) /\ call \in {"process", "process_batch"}
      /\ (call = "process" => tail = <<>>)
  BY <1>1 DEF tail
<1> QED
  BY <1>0, <1>1, <1>2, <1>4, <1>5, <1>6, ReplayAfterStep

LEMMA CallProcessBatchKeeps ==
  ASSUME ReplayInv, NEW max \in 1 .. MaxBatch, CallProcessBatch(max)
  PROVE  SourceInv'
<1> DEFINE count == IF Len(eventLog) - position < max
                    THEN Len(eventLog) - position ELSE max
           events == SubSeq(eventLog, position + 1, position + count)
<1>1. /\ pc = "idle" /\ position < Len(eventLog)
      /\ call = "none" /\ batch = <<>> /\ bPc = "idle"
      /\ call' = "process_batch" /\ batch' = events /\ events # <<>>
      /\ cut' = cut /\ position' = position + count
      /\ UNCHANGED vars /\ UNCHANGED bVars
      /\ eventLog' = eventLog /\ pc' = pc
      /\ UNCHANGED <<bNextExpected, bEventLog, bPc>>
  BY DEF CallProcessBatch, Exhausted, B!CallProcessBatch, B!Between, B!vars,
         bVars, vars, ReplayInv, ReplayTyped
<1>2. /\ eventLog \in Seq(MarketEvent) /\ Len(eventLog) \in Nat
      /\ position \in Nat /\ position <= Len(eventLog) /\ max \in Nat \ {0}
  BY LenProperties DEF ReplayInv, IInv, TypeOK, ReplayTyped
<1>3. /\ count \in Nat \ {0} /\ position + count <= Len(eventLog)
  BY <1>1, <1>2
<1> HIDE DEF count
<1>4. /\ events \in Seq(MarketEvent) /\ Len(events) = count
      /\ \A i \in 1 .. count : events[i] = eventLog[position + i]
  <2>1. /\ position + 1 \in 1 .. Len(eventLog) + 1
        /\ position + count \in position .. Len(eventLog)
        /\ (position + count) - (position + 1) + 1 = count
        /\ \A i \in 1 .. count : (position + 1) + i - 1 = position + i
    BY <1>2, <1>3
  <2> QED
    BY <1>2, <1>3, <2>1, SubSeqProperties
<1> HIDE DEF events
<1>5. EndsAt(events, eventLog, position + count)
  BY <1>2, <1>3, <1>4 DEF EndsAt
<1>6. ~cut => NotAhead(events, position + count, Len(bEventLog))
  <2>1. ~cut => position - 0 <= Len(bEventLog)
    BY <1>1, EmptySeq DEF ReplayInv, NotAhead
  <2>2. (position + count) - count = position - 0
    BY <1>2, <1>3
  <2> QED
    BY <1>4, <2>1, <2>2 DEF NotAhead
<1>7. ReplayTyped'
  BY <1>1, <1>2, <1>3 DEF ReplayTyped, ReplayInv
<1> QED
  BY <1>1, <1>5, <1>6, <1>7 DEF SourceInv, ReplayInv

\* The original engine's steps, between the calls of the other.
LEMMA OriginalKeeps ==
  ASSUME ReplayInv, Original
  PROVE  SourceInv'
<1>1. /\ call = "none" /\ [Step]_vars
      /\ UNCHANGED <<bNextExpected, bEventLog, bPc, call, batch, cut, position>>
  BY NextIsStep DEF Original, bVars
<1>2. Begins(eventLog, eventLog') /\ Len(eventLog) \in Nat
      /\ Len(eventLog') \in Nat
  <2>1. /\ eventLog \in Seq(MarketEvent)
        /\ DOMAIN eventLog = 1 .. Len(eventLog) /\ Len(eventLog) \in Nat
    BY LenProperties DEF ReplayInv, IInv, TypeOK
  <2>2. CASE eventLog' = eventLog
    BY <2>1, <2>2 DEF Begins
  <2>3. CASE \E e \in MarketEvent : eventLog' = Append(eventLog, e)
    BY <2>1, <2>3, AppendProperties DEF Begins
  <2> QED
    BY <1>1, <2>2, <2>3, LogStep DEF ReplayInv
<1>3. Begins(bEventLog', eventLog')
  BY <1>1, <1>2, PrefixGrows DEF ReplayInv
<1>4. position \in Nat /\ position <= Len(eventLog)
      /\ Len(eventLog) <= Len(eventLog')
  BY <1>2 DEF ReplayInv, ReplayTyped, Begins
<1>5. EndsAt(batch', eventLog', position')
  BY <1>1, <1>2, <1>4, PartKept DEF ReplayInv
<1>6. position' \in Nat /\ position' <= Len(eventLog')
  BY <1>1, <1>2, <1>4
<1>7. ReplayTyped'
  BY <1>1, <1>6 DEF ReplayInv, ReplayTyped
<1> QED
  BY <1>1, <1>3, <1>5, <1>7 DEF SourceInv, ReplayInv

\* Steps in which the replaying engine gets no event.
LEMMA QuietReplayKeeps ==
  ASSUME ReplayInv,
         CallProcess \/ ProcessEnds \/ ResetSource \/ UNCHANGED replayVars
  PROVE  SourceInv'
<1>1. /\ UNCHANGED vars /\ eventLog' = eventLog /\ pc' = pc
      /\ UNCHANGED <<bNextExpected, bEventLog, bPc, batch>>
  BY DEF CallProcess, ProcessEnds, ResetSource, replayVars, B!CallProcess,
         B!ProcessEnds, B!vars, bVars, vars
<1>2. CASE ResetSource
  <2>1. /\ call = "none" /\ batch = <<>> /\ call' = call
        /\ position' = 0 /\ cut' = FALSE
    BY <1>2 DEF ResetSource, B!Between, ReplayInv, ReplayTyped
  <2>2. EndsAt(<<>>, eventLog, 0) /\ Len(<<>>) = 0 /\ 0 - 0 = 0
    BY EmptyPart
  <2>3. Len(bEventLog) \in Nat /\ Len(eventLog) \in Nat
    BY LenProperties DEF ReplayInv, Begins, IInv, TypeOK
  <2>4. NotAhead(<<>>, 0, Len(bEventLog))
    BY <2>2, <2>3 DEF NotAhead
  <2>5. ReplayTyped'
    <3>1. cut' \in BOOLEAN
      BY <2>1
    <3>2. /\ bPc' \in {"idle", "matching"} /\ call' = "none"
          /\ batch' = <<>> /\ position' \in Nat
          /\ position' <= Len(eventLog')
      BY <1>1, <2>1, <2>3 DEF ReplayInv, ReplayTyped
    <3> QED
      BY <3>1, <3>2 DEF ReplayTyped
  <2> QED
    BY <1>1, <2>1, <2>2, <2>4, <2>5 DEF SourceInv, ReplayInv
<1>3. CASE CallProcess \/ ProcessEnds \/ UNCHANGED replayVars
  <2>1. position' = position /\ cut' = cut
    BY <1>3 DEF CallProcess, ProcessEnds, replayVars, B!CallProcess,
                B!ProcessEnds
  <2>2. /\ call' \in {"none", "process", "process_batch"}
        /\ call' # "none" => pc' = "idle"
        /\ call' # "process_batch" => batch' = <<>>
        /\ call' = "process_batch" /\ bPc' = "idle" => batch' # <<>>
    BY <1>1, <1>3
       DEF CallProcess, ProcessEnds, replayVars, B!CallProcess, B!Between,
           B!ProcessEnds, ReplayInv, ReplayTyped
  <2>3. ReplayTyped'
    BY <1>1, <2>1, <2>2 DEF ReplayInv, ReplayTyped
  <2> QED
    BY <1>1, <2>1, <2>3 DEF SourceInv, ReplayInv
<1> QED
  BY <1>2, <1>3

\* Every step of the two is a step of the original engine, or leaves it alone.
LEMMA ReplayStepIsStep ==
  ASSUME [ReplayNext]_replayVars
  PROVE  [Step]_vars
<1>1. CASE Original
  BY <1>1, NextIsStep DEF Original
<1>2. CASE ~Original
  <2>1. UNCHANGED vars
    BY <1>2 DEF ReplayNext, CallProcess, CallProcessBatch, Replaying,
                ReplayMatch, ProcessNext, ProcessEnds, BatchNext,
                ResetSource, replayVars
  <2> QED
    BY <2>1
<1> QED
  BY <1>1, <1>2

LEMMA ReplayStepKeeps ==
  ASSUME ReplayInv, [ReplayNext]_replayVars
  PROVE  ReplayInv'
<1>1. IInv'
  BY ReplayStepIsStep, StepKeeps DEF ReplayInv
<1>2. SourceInv'
  <2>1. CASE Original
    BY <2>1, OriginalKeeps
  <2>2. CASE \E max \in 1 .. MaxBatch : CallProcessBatch(max)
    BY <2>2, CallProcessBatchKeeps
  <2>3. CASE ReplayMatch
    BY <2>3, ReplayMatchKeeps
  <2>4. CASE ProcessNext
    BY <2>4, ProcessNextKeeps
  <2>5. CASE BatchNext
    BY <2>5, BatchNextKeeps
  <2>6. CASE CallProcess \/ ProcessEnds \/ ResetSource
             \/ UNCHANGED replayVars
    BY <2>6, QuietReplayKeeps
  <2> QED
    BY <2>1, <2>2, <2>3, <2>4, <2>5, <2>6 DEF ReplayNext, Replaying
<1> QED
  BY <1>1, <1>2 DEF ReplayInv, SourceInv

LEMMA ReplayInitGood == ReplayInit => ReplayInv
<1>1. SUFFICES ASSUME ReplayInit PROVE ReplayInv
  OBVIOUS
<1>2. IInv
  BY <1>1, InitGood DEF ReplayInit
<1>3. /\ eventLog = <<>> /\ bEventLog = <<>> /\ bNextExpected = 1
      /\ pc = "idle" /\ bPc = "idle" /\ call = "none" /\ batch = <<>>
      /\ cut = FALSE /\ position = 0
  BY <1>1 DEF ReplayInit, Init, B!CallsInit, B!Init
<1>4. /\ <<>> \in Seq(MarketEvent) /\ Len(<<>>) = 0 /\ 0 - 0 = 0
      /\ EndsAt(<<>>, <<>>, 0) /\ Begins(<<>>, <<>>)
  BY EmptySeq, EmptyPart DEF Begins
<1>5. ReplayTyped
  <2>1. cut \in BOOLEAN
    BY <1>3
  <2>2. /\ bPc \in {"idle", "matching"} /\ call = "none"
        /\ batch = <<>> /\ position \in Nat /\ position <= Len(eventLog)
    BY <1>3, <1>4
  <2> QED
    BY <2>1, <2>2 DEF ReplayTyped
<1> QED
  BY <1>2, <1>3, <1>4, <1>5 DEF ReplayInv, NotAhead

-----------------------------------------------------------------------------
(***************************************************************************)
(* Theorems.                                                               *)
(***************************************************************************)

\* The two logs, the source and the batch under way stand to each other as
\* ReplayInv says, in every state.
THEOREM ReplayInvariant == ReplaySpec => []ReplayInv
<1>1. ReplayInit => ReplayInv
  BY ReplayInitGood
<1>2. ReplayInv /\ [ReplayNext]_replayVars => ReplayInv'
  BY ReplayStepKeeps
<1> QED
  BY <1>1, <1>2, PTL DEF ReplaySpec

\* The source gets ahead of the replaying engine only by a batch that was left
\* unfinished.
THEOREM AheadNeedsCutBatch == ReplaySpec => []AheadOnlyByCutBatch
<1>1. ASSUME ReplayInv PROVE AheadOnlyByCutBatch
  <2>1. /\ Len(bEventLog) \in Nat /\ Len(batch) \in Nat /\ position \in Nat
    BY <1>1, LenProperties DEF ReplayInv, ReplayTyped, Begins, EndsAt
  <2> QED
    BY <1>1, <2>1 DEF ReplayInv, NotAhead, AheadOnlyByCutBatch
<1> QED
  BY <1>1, ReplayInvariant, PTL
-----------------------------------------------------------------------------
(***************************************************************************)
(* The engine as a function.  What a call makes of the engine depends on   *)
(* the event and on its state, and on nothing else: n is how many events   *)
(* it has taken.                                                           *)
(***************************************************************************)
Core(n, ords, bks, exs, p, trs) ==
  [taken |-> n, orders |-> ords, books |-> bks, executions |-> exs, pc |-> p,
   trades |-> trs]

\* What Take makes of an engine for each type of event.
Begun(n, ords, bks, exs, e) ==
  Core(n, Put(ords, e.payload.order_id,
              NewOrder(e.payload.side, e.payload.price, e.payload.quantity)),
       IF e.symbol \in DOMAIN bks THEN bks ELSE Put(bks, e.symbol, EmptyBook),
       exs, "matching", <<>>)

Cancelled(n, ords, bks, exs, trs, e) ==
  Core(n, Cancel(ords, e.payload.order_id),
       IF CanRemove(bks[e.symbol], e.payload.order_id)
       THEN [bks EXCEPT ![e.symbol] = BookRemove(@, e.payload.order_id)]
       ELSE bks,
       exs, "idle", trs)

Executed(n, ords, bks, exs, trs, e) ==
  Core(n, Execute(ords, e.payload.order_id, e.payload.quantity), bks, exs,
       "idle", trs)

Enters(ords, e) ==
  e.payload.type = "Add" /\ e.payload.order_id \notin DOMAIN ords
Cancels(ords, bks, e) ==
  /\ e.payload.type = "Cancel" /\ e.symbol \in DOMAIN bks
  /\ CanCancel(ords, e.payload.order_id)
Executes(ords, e) ==
  /\ e.payload.type = "Execute"
  /\ CanExecute(ords, e.payload.order_id, e.payload.quantity)

Taken(n, ords, bks, exs, trs, e) ==
  IF Enters(ords, e) THEN Begun(n + 1, ords, bks, exs, e)
  ELSE IF Cancels(ords, bks, e) THEN Cancelled(n + 1, ords, bks, exs, trs, e)
  ELSE IF Executes(ords, e) THEN Executed(n + 1, ords, bks, exs, trs, e)
  ELSE Core(n + 1, ords, bks, exs, "idle", trs)

\* The turn of matching event e: the resting order it looks at, whether it goes
\* on, and what changes hands.
RestingFor(ords, bks, e) ==
  IF ords[e.payload.order_id].side = "Buy" THEN BestAsk(bks[e.symbol])
                                           ELSE BestBid(bks[e.symbol])

Meets(ords, bks, e) ==
  LET id == e.payload.order_id
      r == RestingFor(ords, bks, e)
  IN  ords[id].remaining > 0 /\ r # NoOrder /\ Crosses(ords[id], ords[r])

Quantity(ords, bks, e) ==
  LET a == ords[e.payload.order_id].remaining
      b == ords[RestingFor(ords, bks, e)].remaining
  IN  IF a < b THEN a ELSE b

BothFilled(ords, bks, e) ==
  Execute(Execute(ords, e.payload.order_id, Quantity(ords, bks, e)),
          RestingFor(ords, bks, e), Quantity(ords, bks, e))

RecordsOf(trs, e) ==
  [i \in DOMAIN trs |->
     [event_id |-> e.event_id, timestamp |-> e.timestamp, symbol |-> e.symbol,
      incoming |-> trs[i].incoming, resting |-> trs[i].resting,
      price |-> trs[i].price, quantity |-> trs[i].quantity]]

\* The ways out of match, and the turn that trades.
Rested(n, ords, bks, exs, trs, e) ==
  LET id == e.payload.order_id
  IN  Core(n, ords,
           IF ords[id].remaining > 0 /\ CanAdd(bks[e.symbol], id, ords[id])
           THEN [bks EXCEPT ![e.symbol] = BookAdd(@, id, ords[id])] ELSE bks,
           exs \o RecordsOf(trs, e), "idle", <<>>)

GivenUp(n, ords, bks, exs, trs, e) ==
  Core(n, ords, bks, exs \o RecordsOf(trs, e), "idle", <<>>)

HalfDone(n, ords, bks, exs, trs, e) ==
  GivenUp(n, Execute(ords, e.payload.order_id, Quantity(ords, bks, e)), bks,
          exs, trs, e)

Dealt(n, ords, bks, exs, trs, e) ==
  LET r == RestingFor(ords, bks, e)
  IN  Core(n, BothFilled(ords, bks, e),
           IF BothFilled(ords, bks, e)[r].state = "Filled"
           THEN [bks EXCEPT ![e.symbol] = BookRemove(@, r)] ELSE bks,
           exs, "matching",
           Append(trs, [incoming |-> e.payload.order_id, resting |-> r,
                        price |-> ords[r].price,
                        quantity |-> Quantity(ords, bks, e)]))

Deals(ords, bks, e) ==
  CanFill(ords[RestingFor(ords, bks, e)], Quantity(ords, bks, e))

Spent(ords, bks, e) == ords[RestingFor(ords, bks, e)].remaining <= 0

Turned(n, ords, bks, exs, trs, e) ==
  IF ~Meets(ords, bks, e) THEN Rested(n, ords, bks, exs, trs, e)
  ELSE IF Spent(ords, bks, e) THEN GivenUp(n, ords, bks, exs, trs, e)
  ELSE IF Deals(ords, bks, e) THEN Dealt(n, ords, bks, exs, trs, e)
  ELSE HalfDone(n, ords, bks, exs, trs, e)

\* The quantities a turn compares are numbers.
Numeric(ords, bks, e) ==
  Meets(ords, bks, e) =>
    /\ ords[e.payload.order_id].remaining \in Int
    /\ ords[RestingFor(ords, bks, e)].remaining \in Int

-----------------------------------------------------------------------------
(***************************************************************************)
(* The steps of the original engine are those of the function.             *)
(***************************************************************************)
LEMMA TakeIsTaken ==
  ASSUME NEW e, Take(e), NEW n
  PROVE  Core(n + 1, orders', books', executions', pc', trades')
           = Taken(n, orders, books, executions, trades, e)
<1>1. CASE RejectDuplicateAdd(e)
  <2>1. ~Enters(orders, e) /\ ~Cancels(orders, books, e) /\ ~Executes(orders, e)
    BY <1>1 DEF RejectDuplicateAdd, Enters, Cancels, Executes
  <2> QED
    BY <1>1, <2>1 DEF RejectDuplicateAdd, Return, Taken
<1>2. CASE BeginMatch(e)
  <2>1. Enters(orders, e)
    BY <1>2 DEF BeginMatch, Enters
  <2> QED
    BY <1>2, <2>1 DEF BeginMatch, GetOrCreate, Begun, Taken
<1>3. CASE RejectCancel(e)
  <2>1. ~Enters(orders, e) /\ ~Cancels(orders, books, e) /\ ~Executes(orders, e)
    BY <1>3 DEF RejectCancel, Enters, Cancels, Executes
  <2> QED
    BY <1>3, <2>1 DEF RejectCancel, Return, Taken
<1>4. CASE CancelNotInBook(e) \/ CancelBooked(e)
  <2>1. ~Enters(orders, e) /\ Cancels(orders, books, e)
    BY <1>4 DEF CancelNotInBook, CancelBooked, Enters, Cancels
  <2> QED
    BY <1>4, <2>1 DEF CancelNotInBook, CancelBooked, Return, Cancelled, Taken
<1>5. CASE RejectExecute(e)
  <2>1. ~Enters(orders, e) /\ ~Cancels(orders, books, e) /\ ~Executes(orders, e)
    BY <1>5 DEF RejectExecute, Enters, Cancels, Executes
  <2> QED
    BY <1>5, <2>1 DEF RejectExecute, Return, Taken
<1>6. CASE ExecuteOrder(e)
  <2>1. ~Enters(orders, e) /\ ~Cancels(orders, books, e) /\ Executes(orders, e)
    BY <1>6 DEF ExecuteOrder, Enters, Cancels, Executes
  <2> QED
    BY <1>6, <2>1 DEF ExecuteOrder, Return, Executed, Taken
<1>7. CASE MarketData(e)
  <2>1. ~Enters(orders, e) /\ ~Cancels(orders, books, e) /\ ~Executes(orders, e)
    BY <1>7 DEF MarketData, Enters, Cancels, Executes
  <2> QED
    BY <1>7, <2>1 DEF MarketData, Return, Taken
<1> QED
  BY <1>1, <1>2, <1>3, <1>4, <1>5, <1>6, <1>7 DEF Take

LEMMA MatchIsTurned ==
  ASSUME Match, Numeric(orders, books, Event), NEW n
  PROVE  Core(n, orders', books', executions', pc', trades')
           = Turned(n, orders, books, executions, trades, Event)
<1>1. restingId = RestingFor(orders, books, Event)
  BY DEF restingId, incoming, incomingId, book, RestingFor
<1>2. /\ resting = orders[RestingFor(orders, books, Event)]
      /\ incomingId = Event.payload.order_id
      /\ incoming = orders[Event.payload.order_id]
      /\ book = books[Event.symbol]
  BY <1>1 DEF resting, incoming, incomingId, book
<1>3. MayMatch <=> Meets(orders, books, Event)
  BY <1>1, <1>2 DEF MayMatch, Meets
<1>4. matchQuantity = Quantity(orders, books, Event)
  BY <1>2 DEF matchQuantity, Quantity
<1>5. executions \o Recorded(trades) = executions \o RecordsOf(trades, Event)
  BY DEF Recorded, RecordsOf
<1>6. CASE RestIfNeeded
  <2>1. ~Meets(orders, books, Event)
    BY <1>3, <1>6 DEF RestIfNeeded
  <2> QED
    BY <1>2, <1>5, <1>6, <2>1
       DEF RestIfNeeded, FinishMatch, Return, Rested, Turned
<1>7. CASE AbandonOnExhausted
  <2>1. Meets(orders, books, Event) /\ Spent(orders, books, Event)
    BY <1>2, <1>3, <1>7 DEF AbandonOnExhausted, Spent
  <2> QED
    BY <1>5, <1>7, <2>1
       DEF AbandonOnExhausted, FinishMatch, Return, GivenUp, Turned
<1>8. CASE AbandonHalfDone
  <2>1. /\ Meets(orders, books, Event) /\ ~Deals(orders, books, Event)
        /\ resting.remaining > 0
    BY <1>2, <1>3, <1>4, <1>8 DEF AbandonHalfDone, Deals
  <2>2. ~Spent(orders, books, Event)
    BY <1>2, <2>1 DEF Spent, Numeric
  <2>3. /\ orders' = Execute(orders, Event.payload.order_id,
                             Quantity(orders, books, Event))
        /\ books' = books /\ pc' = "idle" /\ trades' = <<>>
        /\ executions' = executions \o RecordsOf(trades, Event)
    BY <1>2, <1>4, <1>5, <1>8 DEF AbandonHalfDone, FinishMatch, Return
  <2> QED
    BY <2>1, <2>2, <2>3 DEF HalfDone, GivenUp, Turned
<1>9. CASE MatchTrade
  <2>1. Meets(orders, books, Event) /\ Deals(orders, books, Event)
    BY <1>2, <1>3, <1>4, <1>9 DEF MatchTrade, Deals
  <2>2. ~Spent(orders, books, Event)
    BY <2>1 DEF Deals, CanFill, Quantity, Spent, Numeric
  <2>3. /\ orders' = BothFilled(orders, books, Event)
        /\ books' = IF orders'[restingId].state = "Filled"
                    THEN [books EXCEPT ![Event.symbol] = BookRemove(@, restingId)]
                    ELSE books
        /\ pc' = "matching" /\ executions' = executions
        /\ trades' = Append(trades,
                            [incoming |-> incomingId, resting |-> restingId,
                             price |-> TradePrice, quantity |-> matchQuantity])
    BY <1>1, <1>2, <1>4, <1>9 DEF MatchTrade, BothFilled
  <2>4. TradePrice = orders[RestingFor(orders, books, Event)].price
    BY <1>2 DEF TradePrice
  <2> QED
    BY <1>1, <1>2, <1>4, <2>1, <2>2, <2>3, <2>4 DEF Dealt, Turned
<1> QED
  BY <1>6, <1>7, <1>8, <1>9 DEF Match
-----------------------------------------------------------------------------
(***************************************************************************)
(* So are those of the engine that replays, whose operators are the same.  *)
(***************************************************************************)
LEMMA SameOperators ==
  /\ \A m, k, v : B!Put(m, k, v) = Put(m, k, v)
  /\ \A side, price, quantity :
       B!NewOrder(side, price, quantity) = NewOrder(side, price, quantity)
  /\ \A order, q : B!CanFill(order, q) = CanFill(order, q)
  /\ \A ords, id, q : B!Execute(ords, id, q) = Execute(ords, id, q)
  /\ \A ords, id, q : B!CanExecute(ords, id, q) = CanExecute(ords, id, q)
  /\ \A ords, id : B!Cancel(ords, id) = Cancel(ords, id)
  /\ \A ords, id : B!CanCancel(ords, id) = CanCancel(ords, id)
  /\ \A o1, o2 : B!Crosses(o1, o2) = Crosses(o1, o2)
  /\ B!EmptyBook = EmptyBook
  /\ B!NoOrder = NoOrder
BY DEF B!Put, Put, B!NewOrder, NewOrder, B!CanFill, CanFill, B!Execute, Execute,
       B!Fill, Fill, B!CanExecute, CanExecute, B!Cancel, Cancel, B!Transition,
       Transition, B!CanCancel, CanCancel, B!CanTransition, CanTransition,
       B!Crosses, Crosses, B!EmptyBook, EmptyBook, B!NoEntries, NoEntries,
       B!NoOrder, NoOrder

LEMMA SameBookOperators ==
  /\ \A bk, id : B!CanRemove(bk, id) = CanRemove(bk, id)
  /\ \A bk, id : B!BookRemove(bk, id) = BookRemove(bk, id)
  /\ \A bk, id, order : B!CanAdd(bk, id, order) = CanAdd(bk, id, order)
  /\ \A bk, id, order : B!BookAdd(bk, id, order) = BookAdd(bk, id, order)
  /\ \A bk : B!BestBid(bk) = BestBid(bk)
  /\ \A bk : B!BestAsk(bk) = BestAsk(bk)
<1>1. \A bk, id : B!CanRemove(bk, id) = CanRemove(bk, id)
  BY DEF B!CanRemove, CanRemove, B!BookContains, BookContains
<1>2. ASSUME NEW bk, NEW id PROVE B!BookRemove(bk, id) = BookRemove(bk, id)
  BY DEF B!BookRemove, BookRemove, B!Erase, Erase, B!PositionOf, PositionOf,
         B!RemoveAt, RemoveAt, B!Restrict, Restrict
<1>3. \A bk, id, order : B!CanAdd(bk, id, order) = CanAdd(bk, id, order)
  BY DEF B!CanAdd, CanAdd, B!BookContains, BookContains
<1>4. ASSUME NEW bk, NEW id, NEW order
      PROVE  B!BookAdd(bk, id, order) = BookAdd(bk, id, order)
  BY DEF B!BookAdd, BookAdd, B!PushBack, PushBack, B!QueueAt, QueueAt, B!Put, Put
<1>5. \A bk : B!BestBid(bk) = BestBid(bk)
  BY DEF B!BestBid, BestBid, B!FrontOf, FrontOf, B!Max, Max, B!NoOrder, NoOrder
<1>6. \A bk : B!BestAsk(bk) = BestAsk(bk)
  BY DEF B!BestAsk, BestAsk, B!FrontOf, FrontOf, B!Min, Min, B!NoOrder, NoOrder
<1> QED
  BY <1>1, <1>2, <1>3, <1>4, <1>5, <1>6

LEMMA ReplayTakeIsTaken ==
  ASSUME NEW e, B!Take(e), NEW n
  PROVE  Core(n + 1, bOrders', bBooks', bExecutions', bPc', bTrades')
           = Taken(n, bOrders, bBooks, bExecutions, bTrades, e)
<1>1. CASE B!RejectDuplicateAdd(e)
  <2>1. /\ ~Enters(bOrders, e) /\ ~Cancels(bOrders, bBooks, e)
        /\ ~Executes(bOrders, e)
    BY <1>1 DEF B!RejectDuplicateAdd, Enters, Cancels, Executes
  <2> QED
    BY <1>1, <2>1 DEF B!RejectDuplicateAdd, B!Return, Taken
<1>2. CASE B!BeginMatch(e)
  <2>1. Enters(bOrders, e)
    BY <1>2 DEF B!BeginMatch, Enters
  <2> QED
    BY <1>2, <2>1, SameOperators
       DEF B!BeginMatch, B!GetOrCreate, Begun, Taken
<1>3. CASE B!RejectCancel(e)
  <2>1. /\ ~Enters(bOrders, e) /\ ~Cancels(bOrders, bBooks, e)
        /\ ~Executes(bOrders, e)
    BY <1>3, SameOperators DEF B!RejectCancel, Enters, Cancels, Executes
  <2> QED
    BY <1>3, <2>1 DEF B!RejectCancel, B!Return, Taken
<1>4. CASE B!CancelNotInBook(e) \/ B!CancelBooked(e)
  <2>1. ~Enters(bOrders, e) /\ Cancels(bOrders, bBooks, e)
    BY <1>4, SameOperators
       DEF B!CancelNotInBook, B!CancelBooked, Enters, Cancels
  <2> QED
    BY <1>4, <2>1, SameOperators, SameBookOperators
       DEF B!CancelNotInBook, B!CancelBooked, B!Return, Cancelled, Taken
<1>5. CASE B!RejectExecute(e)
  <2>1. /\ ~Enters(bOrders, e) /\ ~Cancels(bOrders, bBooks, e)
        /\ ~Executes(bOrders, e)
    BY <1>5, SameOperators DEF B!RejectExecute, Enters, Cancels, Executes
  <2> QED
    BY <1>5, <2>1 DEF B!RejectExecute, B!Return, Taken
<1>6. CASE B!ExecuteOrder(e)
  <2>1. /\ ~Enters(bOrders, e) /\ ~Cancels(bOrders, bBooks, e)
        /\ Executes(bOrders, e)
    BY <1>6, SameOperators DEF B!ExecuteOrder, Enters, Cancels, Executes
  <2> QED
    BY <1>6, <2>1, SameOperators DEF B!ExecuteOrder, B!Return, Executed, Taken
<1>7. CASE B!MarketData(e)
  <2>1. /\ ~Enters(bOrders, e) /\ ~Cancels(bOrders, bBooks, e)
        /\ ~Executes(bOrders, e)
    BY <1>7 DEF B!MarketData, Enters, Cancels, Executes
  <2> QED
    BY <1>7, <2>1 DEF B!MarketData, B!Return, Taken
<1> QED
  BY <1>1, <1>2, <1>3, <1>4, <1>5, <1>6, <1>7 DEF B!Take

LEMMA ReplayMatchIsTurned ==
  ASSUME B!Match, Numeric(bOrders, bBooks, B!Event), NEW n
  PROVE  Core(n, bOrders', bBooks', bExecutions', bPc', bTrades')
           = Turned(n, bOrders, bBooks, bExecutions, bTrades, B!Event)
<1>1. B!restingId = RestingFor(bOrders, bBooks, B!Event)
  BY SameBookOperators
     DEF B!restingId, B!incoming, B!incomingId, B!book, RestingFor
<1>2. /\ B!resting = bOrders[RestingFor(bOrders, bBooks, B!Event)]
      /\ B!incomingId = B!Event.payload.order_id
      /\ B!incoming = bOrders[B!Event.payload.order_id]
      /\ B!book = bBooks[B!Event.symbol]
  BY <1>1 DEF B!resting, B!incoming, B!incomingId, B!book
<1>3. B!MayMatch <=> Meets(bOrders, bBooks, B!Event)
  BY <1>1, <1>2, SameOperators DEF B!MayMatch, Meets
<1>4. B!matchQuantity = Quantity(bOrders, bBooks, B!Event)
  BY <1>2 DEF B!matchQuantity, Quantity
<1>5. bExecutions \o B!Recorded(bTrades)
        = bExecutions \o RecordsOf(bTrades, B!Event)
  BY DEF B!Recorded, RecordsOf
<1>6. CASE B!RestIfNeeded
  <2>1. ~Meets(bOrders, bBooks, B!Event)
    BY <1>3, <1>6 DEF B!RestIfNeeded
  <2> QED
    BY <1>2, <1>5, <1>6, <2>1, SameBookOperators
       DEF B!RestIfNeeded, B!FinishMatch, B!Return, Rested, Turned
<1>7. CASE B!AbandonOnExhausted
  <2>1. Meets(bOrders, bBooks, B!Event) /\ Spent(bOrders, bBooks, B!Event)
    BY <1>2, <1>3, <1>7 DEF B!AbandonOnExhausted, Spent
  <2> QED
    BY <1>5, <1>7, <2>1
       DEF B!AbandonOnExhausted, B!FinishMatch, B!Return, GivenUp, Turned
<1>8. CASE B!AbandonHalfDone
  <2>1. /\ Meets(bOrders, bBooks, B!Event) /\ ~Deals(bOrders, bBooks, B!Event)
        /\ B!resting.remaining > 0
    BY <1>2, <1>3, <1>4, <1>8, SameOperators DEF B!AbandonHalfDone, Deals
  <2>2. ~Spent(bOrders, bBooks, B!Event)
    BY <1>2, <2>1 DEF Spent, Numeric
  <2>3. /\ bOrders' = Execute(bOrders, B!Event.payload.order_id,
                             Quantity(bOrders, bBooks, B!Event))
        /\ bBooks' = bBooks /\ bPc' = "idle" /\ bTrades' = <<>>
        /\ bExecutions' = bExecutions \o RecordsOf(bTrades, B!Event)
    BY <1>2, <1>4, <1>5, <1>8, SameOperators
       DEF B!AbandonHalfDone, B!FinishMatch, B!Return
  <2> QED
    BY <2>1, <2>2, <2>3 DEF HalfDone, GivenUp, Turned
<1>9. CASE B!MatchTrade
  <2>1. Meets(bOrders, bBooks, B!Event) /\ Deals(bOrders, bBooks, B!Event)
    BY <1>2, <1>3, <1>4, <1>9, SameOperators DEF B!MatchTrade, Deals
  <2>2. ~Spent(bOrders, bBooks, B!Event)
    BY <2>1 DEF Deals, CanFill, Quantity, Spent, Numeric
  <2>3. /\ bOrders' = BothFilled(bOrders, bBooks, B!Event)
        /\ bBooks' = IF bOrders'[B!restingId].state = "Filled"
                     THEN [bBooks EXCEPT ![B!Event.symbol] =
                                            BookRemove(@, B!restingId)]
                     ELSE bBooks
        /\ bPc' = "matching" /\ bExecutions' = bExecutions
        /\ bTrades' = Append(bTrades,
                             [incoming |-> B!incomingId,
                              resting |-> B!restingId,
                              price |-> B!TradePrice,
                              quantity |-> B!matchQuantity])
    BY <1>1, <1>2, <1>4, <1>9, SameOperators, SameBookOperators
       DEF B!MatchTrade, BothFilled
  <2>4. B!TradePrice = bOrders[RestingFor(bOrders, bBooks, B!Event)].price
    BY <1>2 DEF B!TradePrice
  <2> QED
    BY <1>1, <1>2, <1>4, <2>1, <2>2, <2>3, <2>4 DEF Dealt, Turned
<1> QED
  BY <1>6, <1>7, <1>8, <1>9 DEF B!Match

-----------------------------------------------------------------------------
(***************************************************************************)
(* Two engines with one past.  The original's states, from its first to    *)
(* the one it is in, are what the function makes of its log; the replaying *)
(* engine, which is given the same events, is in one of them.              *)
(***************************************************************************)
After(c, log) ==
  IF c.pc = "matching"
  THEN Turned(c.taken, c.orders, c.books, c.executions, c.trades, log[c.taken])
  ELSE Taken(c.taken, c.orders, c.books, c.executions, c.trades,
             log[c.taken + 1])

\* The state c is one of an engine whose events are in the log.
Stands(c, log) ==
  /\ c.taken \in 0 .. Len(log)
  /\ c.pc = "matching" =>
       c.taken # 0 /\ Numeric(c.orders, c.books, log[c.taken])

\* An engine in state c can go on with this log.
GoesOn(c, log) == c.pc = "matching" \/ c.taken < Len(log)

\* The first n states in h follow one another.
Past(h, n, log) ==
  /\ \A i \in 1 .. n : Stands(h[i], log)
  /\ \A i \in 1 .. n - 1 : GoesOn(h[i], log) /\ h[i + 1] = After(h[i], log)

State == Core(Len(eventLog), orders, books, executions, pc, trades)
ReplayState ==
  Core(Len(bEventLog), bOrders, bBooks, bExecutions, bPc, bTrades)

Standing == Stands(State, eventLog)

Follows ==
  \E n \in Nat \ {0} : \E j \in 1 .. n : \E h :
    Past(h, n, eventLog) /\ h[n] = State /\ h[j] = ReplayState

\* What an engine does next does not change when its log grows.
LEMMA AfterKept ==
  ASSUME NEW c, NEW s, NEW t, Begins(s, t), Stands(c, s)
  PROVE  /\ Stands(c, t)
         /\ GoesOn(c, s) => GoesOn(c, t) /\ After(c, t) = After(c, s)
<1>1. Len(s) \in Nat /\ c.taken \in 0 .. Len(s)
  BY LenProperties DEF Begins, Stands
<1>2. c.taken # 0 => s[c.taken] = t[c.taken]
  BY <1>1 DEF Begins
<1>3. c.taken < Len(s) => s[c.taken + 1] = t[c.taken + 1]
  <2>1. c.taken < Len(s) => c.taken + 1 \in 1 .. Len(s)
    BY <1>1
  <2> QED
    BY <2>1 DEF Begins
<1>4. Stands(c, t)
  <2>1. c.taken \in 0 .. Len(t)
    BY <1>1 DEF Begins
  <2> QED
    BY <1>2, <2>1 DEF Stands
<1>5. ASSUME GoesOn(c, s) PROVE GoesOn(c, t) /\ After(c, t) = After(c, s)
  <2>1. GoesOn(c, t)
    BY <1>1, <1>5 DEF GoesOn, Begins
  <2>2. CASE c.pc = "matching"
    BY <1>2, <2>1, <2>2 DEF After, Stands
  <2>3. CASE c.pc # "matching"
    BY <1>3, <1>5, <2>1, <2>3 DEF After, GoesOn
  <2> QED
    BY <2>2, <2>3
<1> QED
  BY <1>4, <1>5

\* A past goes on with the next state.
LEMMA PastGoesOn ==
  ASSUME NEW h, NEW n \in Nat \ {0}, NEW s, NEW t, Begins(s, t),
         Past(h, n, s), NEW c, Stands(c, t),
         GoesOn(h[n], t), c = After(h[n], t)
  PROVE  \E h2 : /\ Past(h2, n + 1, t)
                 /\ h2[n + 1] = c
                 /\ \A i \in 1 .. n : h2[i] = h[i]
<1> DEFINE h2 == [i \in 1 .. n + 1 |-> IF i = n + 1 THEN c ELSE h[i]]
<1>1. h2[n + 1] = c /\ \A i \in 1 .. n : h2[i] = h[i]
  OBVIOUS
<1> HIDE DEF h2
<1>2. ASSUME NEW i \in 1 .. n + 1 PROVE Stands(h2[i], t)
  <2>1. CASE i = n + 1
    BY <1>1, <2>1
  <2>2. CASE i # n + 1
    <3>1. i \in 1 .. n
      BY <2>2
    <3>2. Stands(h[i], s)
      BY <3>1 DEF Past
    <3>3. Stands(h[i], t)
      BY <3>2, AfterKept
    <3> QED
      BY <1>1, <3>1, <3>3
  <2> QED
    BY <2>1, <2>2
<1>3. ASSUME NEW i \in 1 .. n
      PROVE  GoesOn(h2[i], t) /\ h2[i + 1] = After(h2[i], t)
  <2>1. CASE i = n
    BY <1>1, <2>1
  <2>2. CASE i # n
    <3>1. i \in 1 .. n - 1 /\ i + 1 \in 1 .. n
      BY <2>2
    <3>2. /\ Stands(h[i], s) /\ GoesOn(h[i], s)
          /\ h[i + 1] = After(h[i], s)
      BY <3>1 DEF Past
    <3>3. GoesOn(h[i], t) /\ After(h[i], t) = After(h[i], s)
      BY <3>2, AfterKept
    <3> QED
      BY <1>1, <3>1, <3>2, <3>3
  <2> QED
    BY <2>1, <2>2
<1>4. (n + 1) - 1 = n
  OBVIOUS
<1>5. Past(h2, n + 1, t)
  BY <1>2, <1>3, <1>4 DEF Past
<1> QED
  BY <1>1, <1>5

\* The states of the two engines, part by part.
LEMMA StateParts ==
  /\ State.taken = Len(eventLog) /\ State.pc = pc
  /\ State.orders = orders /\ State.books = books
  /\ State.executions = executions /\ State.trades = trades
  /\ ReplayState.taken = Len(bEventLog) /\ ReplayState.pc = bPc
  /\ ReplayState.orders = bOrders /\ ReplayState.books = bBooks
  /\ ReplayState.executions = bExecutions /\ ReplayState.trades = bTrades
BY DEF State, ReplayState, Core

LEMMA StateStands == ReplayInv => Standing
<1>1. SUFFICES ASSUME ReplayInv PROVE Standing
  OBVIOUS
<1>2. Len(eventLog) \in Nat /\ IInv
  BY <1>1, LenProperties DEF ReplayInv, IInv, TypeOK
<1>3. ASSUME pc = "matching"
      PROVE  Len(eventLog) # 0 /\ Numeric(orders, books, eventLog[Len(eventLog)])
  <2>1. /\ Len(eventLog) \in DOMAIN eventLog /\ Event = eventLog[Len(eventLog)]
    BY <1>2, <1>3, EventIsLast
  <2>2. Len(eventLog) # 0
    BY <1>2, <2>1, LenProperties DEF IInv, TypeOK
  <2>3. MayMatch => incoming.remaining \in Int /\ resting.remaining \in Int
    BY <1>2, <1>3, MatchFacts DEF Order
  <2>4. Numeric(orders, books, Event)
    <3>1. restingId = RestingFor(orders, books, Event)
      BY DEF restingId, incoming, incomingId, book, RestingFor
    <3>2. /\ resting = orders[RestingFor(orders, books, Event)]
          /\ incoming = orders[Event.payload.order_id]
      BY <3>1 DEF resting, incoming, incomingId
    <3>3. Meets(orders, books, Event) => MayMatch
      BY <3>1, <3>2 DEF MayMatch, Meets
    <3> QED
      BY <2>3, <3>2, <3>3 DEF Numeric
  <2> QED
    BY <2>1, <2>2, <2>4
<1> QED
  BY <1>2, <1>3, StateParts DEF Standing, Stands

\* A step of the original engine is the next of its states.
LEMMA OriginalIsAfter ==
  ASSUME ReplayInv, Original
  PROVE  /\ Begins(eventLog, eventLog')
         /\ ReplayState' = ReplayState
         /\ \/ State' = State /\ eventLog' = eventLog
            \/ GoesOn(State, eventLog') /\ State' = After(State, eventLog')
<1>1. /\ Next /\ UNCHANGED bVars /\ IInv
  BY DEF Original, ReplayInv
<1>2. ReplayState' = ReplayState
  BY <1>1 DEF bVars, ReplayState
<1>3. eventLog \in Seq(MarketEvent) /\ Len(eventLog) \in Nat
  BY <1>1, LenProperties DEF IInv, TypeOK
<1>4. Begins(eventLog, eventLog)
  BY <1>3 DEF Begins
<1>5. CASE Refuse
  BY <1>2, <1>4, <1>5 DEF Refuse, State
<1>6. ASSUME NEW e \in Due, Take(e)
      PROVE  /\ Begins(eventLog, eventLog')
             /\ GoesOn(State, eventLog') /\ State' = After(State, eventLog')
  <2>1. Accept(e)
    BY <1>6
       DEF Take, RejectDuplicateAdd, BeginMatch, RejectCancel, CancelNotInBook,
           CancelBooked, RejectExecute, ExecuteOrder, MarketData
  <2>2. pc = "idle" /\ eventLog' = Append(eventLog, e)
    BY <2>1 DEF Accept
  <2>3. e \in MarketEvent
    BY <1>6, FeedAssumption DEF Due
  <2>4. /\ eventLog' \in Seq(MarketEvent)
        /\ Len(eventLog') = Len(eventLog) + 1
        /\ eventLog'[Len(eventLog) + 1] = e
        /\ \A i \in 1 .. Len(eventLog) : eventLog'[i] = eventLog[i]
    BY <1>3, <2>2, <2>3, AppendProperties
  <2>5. Begins(eventLog, eventLog')
    BY <1>3, <2>4 DEF Begins
  <2>6. GoesOn(State, eventLog')
    BY <1>3, <2>4, StateParts DEF GoesOn
  <2>7. State' = Taken(Len(eventLog), orders, books, executions, trades, e)
    BY <1>6, <2>4, TakeIsTaken DEF State
  <2>8. State' = After(State, eventLog')
    BY <2>2, <2>4, <2>7, StateParts DEF After
  <2> QED
    BY <2>5, <2>6, <2>8
<1>7. ASSUME Match
      PROVE  /\ eventLog' = eventLog
             /\ GoesOn(State, eventLog) /\ State' = After(State, eventLog)
  <2>1. pc = "matching" /\ eventLog' = eventLog
    BY <1>7 DEF Match, MatchTrade, AbandonOnExhausted, AbandonHalfDone,
                RestIfNeeded
  <2>2. Event = eventLog[Len(eventLog)]
    BY <1>1, <2>1, EventIsLast
  <2>3. Numeric(orders, books, Event)
    BY <2>1, <2>2, StateStands, StateParts DEF Standing, Stands
  <2>4. State' = Turned(Len(eventLog), orders, books, executions, trades, Event)
    BY <1>7, <2>1, <2>3, MatchIsTurned DEF State
  <2> QED
    BY <2>1, <2>2, <2>4, StateParts DEF GoesOn, After
<1> QED
  BY <1>1, <1>2, <1>4, <1>5, <1>6, <1>7 DEF Next

\* A step of the replaying engine is the next of its states in the original's
\* log, whatever event a call gives it.
LEMMA ReplayProcessIsAfter ==
  ASSUME ReplayInv, UNCHANGED vars, bPc = "idle",
         NEW k \in 1 .. Len(eventLog), B!Process(eventLog[k])
  PROVE  \/ ReplayState' = ReplayState
         \/ /\ Len(bEventLog) < Len(eventLog)
            /\ ReplayState' = After(ReplayState, eventLog)
<1> DEFINE e == eventLog[k]
<1>1. /\ eventLog \in Seq(MarketEvent) /\ DOMAIN eventLog = 1 .. Len(eventLog)
      /\ Len(eventLog) \in Nat
      /\ bEventLog \in Seq(MarketEvent) /\ Len(bEventLog) \in Nat
      /\ bNextExpected = Len(bEventLog) + 1
  BY LenProperties DEF ReplayInv, IInv, TypeOK, Begins
<1>2. e.sequence_number = k /\ e \in MarketEvent
  BY <1>1, ElementOfSeq DEF ReplayInv, IInv, LogIsDense
<1> HIDE DEF e
<1>3. CASE B!Refuse
  BY <1>3 DEF B!Refuse, ReplayState
<1>4. CASE B!Take(e)
  <2>1. B!Accept(e)
    BY <1>4
       DEF B!Take, B!RejectDuplicateAdd, B!BeginMatch, B!RejectCancel,
           B!CancelNotInBook, B!CancelBooked, B!RejectExecute, B!ExecuteOrder,
           B!MarketData
  <2>2. /\ e.sequence_number = bNextExpected
        /\ bEventLog' = Append(bEventLog, e)
    BY <2>1 DEF B!Accept, B!Refuses
  <2>3. k = Len(bEventLog) + 1 /\ Len(bEventLog) < Len(eventLog)
    BY <1>1, <1>2, <2>2
  <2>4. Len(bEventLog') = Len(bEventLog) + 1
    BY <1>1, <1>2, <2>2, AppendProperties
  <2>5. ReplayState' = Taken(Len(bEventLog), bOrders, bBooks, bExecutions,
                             bTrades, e)
    BY <1>4, <2>4, ReplayTakeIsTaken DEF ReplayState
  <2> QED
    BY <2>3, <2>5, StateParts DEF After, e
<1> QED
  BY <1>3, <1>4 DEF B!Process, e

LEMMA ReplayMatchIsAfter ==
  ASSUME ReplayInv, B!Match, Stands(ReplayState, eventLog)
  PROVE  /\ bPc = "matching"
         /\ ReplayState' = After(ReplayState, eventLog)
<1>1. bPc = "matching" /\ bEventLog' = bEventLog
  BY DEF B!Match, B!MatchTrade, B!AbandonOnExhausted, B!AbandonHalfDone,
         B!RestIfNeeded
<1>2. /\ Len(bEventLog) \in 0 .. Len(eventLog) /\ Len(bEventLog) # 0
      /\ Numeric(bOrders, bBooks, eventLog[Len(bEventLog)])
  BY <1>1, StateParts DEF Stands
<1>3. B!Event = eventLog[Len(bEventLog)]
  <2>1. bEventLog[Len(bEventLog)] = eventLog[Len(bEventLog)]
    <3>1. Len(bEventLog) \in 1 .. Len(bEventLog)
      BY <1>2, LenProperties DEF ReplayInv, Begins
    <3> QED
      BY <3>1 DEF ReplayInv, Begins
  <2> QED
    BY <2>1 DEF B!Event, B!Last
<1>4. ReplayState' = Turned(Len(bEventLog), bOrders, bBooks, bExecutions,
                            bTrades, B!Event)
  BY <1>1, <1>2, <1>3, ReplayMatchIsTurned DEF ReplayState
<1> QED
  BY <1>1, <1>3, <1>4, StateParts DEF After

\* While the replaying engine works the original is between two calls, and so
\* is ahead of it or where it is: the next state of the one that replays is one
\* that the original was in.
LEMMA NextOfPast ==
  ASSUME ReplayInv, pc = "idle",
         NEW h, NEW n \in Nat \ {0}, NEW j \in 1 .. n,
         Past(h, n, eventLog), h[n] = State, h[j] = ReplayState,
         bPc = "matching" \/ Len(bEventLog) < Len(eventLog)
  PROVE  j \in 1 .. n - 1 /\ h[j + 1] = After(ReplayState, eventLog)
<1>1. Len(eventLog) \in Nat /\ Len(bEventLog) \in Nat
  BY LenProperties DEF ReplayInv, IInv, TypeOK, Begins
<1>2. j # n
  BY <1>1, StateParts
<1>3. j \in 1 .. n - 1
  BY <1>2
<1> QED
  BY <1>3 DEF Past

LEMMA FollowsKept ==
  ASSUME ReplayInv, Standing', Follows, [ReplayNext]_replayVars
  PROVE  Follows'
<1>1. PICK n, j, h :
        /\ n \in Nat \ {0} /\ j \in 1 .. n
        /\ Past(h, n, eventLog) /\ h[n] = State /\ h[j] = ReplayState
  BY DEF Follows
<1>2. Stands(ReplayState, eventLog)
  BY <1>1 DEF Past
<1>3. CASE Original
  <2>1. CASE State' = State /\ eventLog' = eventLog
    BY <1>1, <1>3, <2>1, OriginalIsAfter DEF Follows
  <2>2. CASE GoesOn(State, eventLog') /\ State' = After(State, eventLog')
    <3>1. Begins(eventLog, eventLog') /\ ReplayState' = ReplayState
      BY <1>3, OriginalIsAfter
    <3>2. Stands(State', eventLog')
      BY DEF Standing
    <3>3. PICK h2 : /\ Past(h2, n + 1, eventLog') /\ h2[n + 1] = State'
                    /\ \A i \in 1 .. n : h2[i] = h[i]
      BY <1>1, <2>2, <3>1, <3>2, PastGoesOn
    <3>4. n + 1 \in Nat \ {0} /\ j \in 1 .. n + 1
      BY <1>1
    <3>5. h2[j] = ReplayState'
      BY <1>1, <3>1, <3>3
    <3> QED
      BY <3>3, <3>4, <3>5 DEF Follows
  <2> QED
    BY <1>3, <2>1, <2>2, OriginalIsAfter
<1>4. ASSUME UNCHANGED vars,
             ReplayState' = ReplayState
             \/ /\ pc = "idle"
                /\ bPc = "matching" \/ Len(bEventLog) < Len(eventLog)
                /\ ReplayState' = After(ReplayState, eventLog)
      PROVE  Follows'
  <2>1. eventLog' = eventLog /\ State' = State
    BY <1>4 DEF vars, State
  <2>2. CASE ReplayState' = ReplayState
    BY <1>1, <2>1, <2>2 DEF Follows
  <2>3. CASE /\ pc = "idle"
             /\ bPc = "matching" \/ Len(bEventLog) < Len(eventLog)
             /\ ReplayState' = After(ReplayState, eventLog)
    <3>1. j \in 1 .. n - 1 /\ h[j + 1] = ReplayState'
      BY <1>1, <2>3, NextOfPast
    <3>2. j + 1 \in 1 .. n
      BY <1>1, <3>1
    <3> QED
      BY <1>1, <2>1, <3>1, <3>2 DEF Follows
  <2> QED
    BY <1>4, <2>2, <2>3
<1>5. CASE ReplayMatch
  <2>1. B!Match /\ call # "none" /\ UNCHANGED vars
    BY <1>5 DEF ReplayMatch, B!MatchTurn
  <2>2. pc = "idle"
    BY <2>1 DEF ReplayInv, ReplayTyped
  <2> QED
    BY <1>2, <1>4, <2>1, <2>2, ReplayMatchIsAfter
<1>6. ASSUME NEW k \in 1 .. Len(eventLog), B!Process(eventLog[k]),
             bPc = "idle", call # "none", UNCHANGED vars
      PROVE  Follows'
  <2>1. pc = "idle"
    BY <1>6 DEF ReplayInv, ReplayTyped
  <2> QED
    BY <1>4, <1>6, <2>1, ReplayProcessIsAfter
<1>7. CASE ProcessNext
  <2>1. /\ B!Process(eventLog[position + 1]) /\ call = "process"
        /\ UNCHANGED vars /\ ~Exhausted
    BY <1>7 DEF ProcessNext, B!ProcessTakes
  <2>2. position + 1 \in 1 .. Len(eventLog)
    <3>1. Len(eventLog) \in Nat /\ position \in Nat
      BY LenProperties DEF ReplayInv, ReplayTyped, IInv, TypeOK
    <3> QED
      BY <2>1, <3>1 DEF Exhausted
  <2>3. bPc = "idle"
    BY <2>1
       DEF B!Process, B!Refuse, B!Take, B!RejectDuplicateAdd, B!BeginMatch,
           B!RejectCancel, B!CancelNotInBook, B!CancelBooked, B!RejectExecute,
           B!ExecuteOrder, B!MarketData, B!Accept
  <2> QED
    BY <1>6, <2>1, <2>2, <2>3
<1>8. CASE BatchNext
  <2>1. /\ call = "process_batch" /\ bPc = "idle" /\ batch # <<>>
        /\ B!Process(Head(batch)) /\ UNCHANGED vars
    BY <1>8 DEF BatchNext, B!BatchNext, ReplayInv, ReplayTyped
  <2>2. /\ position \in Nat /\ position <= Len(eventLog)
        /\ Len(eventLog) \in Nat /\ EndsAt(batch, eventLog, position)
    BY LenProperties DEF ReplayInv, ReplayTyped, IInv, TypeOK
  <2>3. /\ Head(batch) = eventLog[(position - Len(batch)) + 1]
        /\ (position - Len(batch)) + 1 \in 1 .. position
    BY <2>1, <2>2, PartShrinks
  <2>4. (position - Len(batch)) + 1 \in 1 .. Len(eventLog)
    BY <2>2, <2>3
  <2> QED
    BY <1>6, <2>1, <2>3, <2>4
<1>9. CASE CallProcess \/ ProcessEnds \/ ResetSource \/ UNCHANGED replayVars
           \/ \E max \in 1 .. MaxBatch : CallProcessBatch(max)
  <2>1. UNCHANGED vars /\ UNCHANGED bVars
    BY <1>9 DEF CallProcess, ProcessEnds, ResetSource, replayVars,
                CallProcessBatch, B!CallProcess, B!ProcessEnds,
                B!CallProcessBatch, B!vars, bVars
  <2>2. ReplayState' = ReplayState
    BY <2>1 DEF bVars, ReplayState
  <2> QED
    BY <1>4, <2>1, <2>2
<1> QED
  BY <1>3, <1>5, <1>7, <1>8, <1>9 DEF ReplayNext, Replaying

LEMMA FollowsFirst == ReplayInit => Follows
<1>1. SUFFICES ASSUME ReplayInit PROVE Follows
  OBVIOUS
<1>2. /\ eventLog = <<>> /\ orders = NoEntries /\ books = NoEntries
      /\ executions = <<>> /\ pc = "idle" /\ trades = <<>>
      /\ bEventLog = <<>> /\ bOrders = NoEntries /\ bBooks = NoEntries
      /\ bExecutions = <<>> /\ bPc = "idle" /\ bTrades = <<>>
  BY <1>1 DEF ReplayInit, Init, B!CallsInit, B!Init, B!NoEntries, NoEntries
<1>3. ReplayState = State
  BY <1>2 DEF ReplayState, State
<1> DEFINE h == [i \in 1 .. 1 |-> State]
<1>4. h[1] = State
  OBVIOUS
<1>5. Stands(State, eventLog)
  BY <1>1, ReplayInitGood, StateStands DEF Standing
<1> HIDE DEF h
<1>6. Past(h, 1, eventLog)
  BY <1>4, <1>5 DEF Past
<1>7. 1 \in Nat \ {0} /\ 1 \in 1 .. 1
  OBVIOUS
<1> QED
  BY <1>3, <1>4, <1>6, <1>7 DEF Follows

LEMMA AlwaysFollows == ReplaySpec => []Follows
<1>1. ReplayInit => Follows
  BY FollowsFirst
<1>2. ReplayInv => Standing
  BY StateStands
<1>3. ReplayInv /\ Standing' /\ Follows /\ [ReplayNext]_replayVars => Follows'
  BY FollowsKept
<1> QED
  BY <1>1, <1>2, <1>3, ReplayInvariant, PTL DEF ReplaySpec

\* A log that begins another is a prefix of it.
LEMMA BeginsIsPrefix ==
  ASSUME NEW s, NEW t \in Seq(MarketEvent), Begins(s, t)
  PROVE  IsPrefix(s, t)
<1>1. s \in Seq(MarketEvent) /\ Len(s) \in Nat /\ Len(t) \in Nat
      /\ Len(s) <= Len(t)
  BY LenProperties DEF Begins
<1>2. /\ SubSeq(s, 1, Len(s)) \in Seq(MarketEvent)
      /\ Len(SubSeq(s, 1, Len(s))) = Len(s)
      /\ \A i \in 1 .. Len(s) : SubSeq(s, 1, Len(s))[i] = s[i]
  BY <1>1, SubSeqProperties
<1>3. /\ SubSeq(t, 1, Len(s)) \in Seq(MarketEvent)
      /\ Len(SubSeq(t, 1, Len(s))) = Len(s)
      /\ \A i \in 1 .. Len(s) : SubSeq(t, 1, Len(s))[i] = t[i]
  BY <1>1, SubSeqProperties
<1>4. SubSeq(s, 1, Len(s)) = SubSeq(t, 1, Len(s))
  <2> DEFINE a == SubSeq(s, 1, Len(s))
             b == SubSeq(t, 1, Len(s))
  <2>1. \A i \in 1 .. Len(s) : a[i] = b[i]
    BY <1>2, <1>3 DEF Begins
  <2> HIDE DEF a, b
  <2> QED
    BY <1>2, <1>3, <2>1, SeqEqual DEF a, b
<1> QED
  BY <1>1, <1>4 DEF IsPrefix

\* Deterministic replay (ReplayAgrees): the replaying engine's log is a prefix
\* of the original's, and with the whole log taken its numbers, orders, books
\* and executions are the original's, for every feed and every mix of calls.
THEOREM ReplayIsDeterministic == ReplaySpec => []ReplayAgrees
<1>1. ASSUME ReplayInv, Follows PROVE ReplayAgrees
  <2>1. /\ eventLog \in Seq(MarketEvent) /\ Len(eventLog) \in Nat
        /\ Begins(bEventLog, eventLog)
        /\ nextExpected = Len(eventLog) + 1
        /\ bNextExpected = Len(bEventLog) + 1
    BY <1>1, LenProperties DEF ReplayInv, IInv, TypeOK, LogIsDense
  <2>2. IsPrefix(bEventLog, eventLog)
    BY <2>1, BeginsIsPrefix
  <2>3. ASSUME bEventLog = eventLog, pc = "idle", bPc = "idle"
        PROVE  <<bNextExpected, bOrders, bBooks, bExecutions>>
                 = <<nextExpected, orders, books, executions>>
    <3>1. PICK n, j, h :
            /\ n \in Nat \ {0} /\ j \in 1 .. n
            /\ Past(h, n, eventLog) /\ h[n] = State /\ h[j] = ReplayState
      BY <1>1 DEF Follows
    <3>2. j = n
      <4>1. SUFFICES ASSUME j # n PROVE FALSE
        OBVIOUS
      <4>2. j \in 1 .. n - 1
        BY <3>1, <4>1
      <4>3. GoesOn(ReplayState, eventLog)
        BY <3>1, <4>2 DEF Past
      <4> QED
        BY <2>1, <2>3, <4>3, StateParts DEF GoesOn
    <3>3. State = ReplayState
      BY <3>1, <3>2
    <3>4. bOrders = orders /\ bBooks = books /\ bExecutions = executions
      BY <3>3, StateParts
    <3> QED
      BY <2>1, <2>3, <3>4
  <2> QED
    BY <2>2, <2>3 DEF ReplayAgrees
<1> QED
  BY <1>1, ReplayInvariant, AlwaysFollows, PTL

=============================================================================
