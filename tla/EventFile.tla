------------------------------ MODULE EventFile ------------------------------
(***************************************************************************)
(* The persisted event stream: EventStore (core/events/event_store.cpp),   *)
(* which appends length-prefixed records to a file, and                    *)
(* PersistentReplaySource (core/events/persistent_replay_source.cpp),      *)
(* which reads them back, possibly from another process.                   *)
(*                                                                         *)
(* The output stream has a buffer: any part of what is pending may reach   *)
(* the file during a write, and the rest only with a flush.  The writing   *)
(* process may die between two calls, and a write may fail part way.       *)
(***************************************************************************)
EXTENDS EventSerializer

CONSTANTS
  Events,       \* the events a caller may append, valid ones and others
  Cuts,         \* bound: how many pending bytes a write may pass on to the file
  MaxAppends,   \* bound: calls of append with a valid event
  MaxOpens,     \* bound: stores opened on the file
  MaxResets,    \* bound: calls of the source's reset
  MaxBatch      \* bound: the size of a batch

ASSUME BoundsAssumption ==
  /\ Cuts \subseteq Nat
  /\ {MaxAppends, MaxOpens, MaxResets, MaxBatch} \subseteq Nat

ASSUME EventsAssumption ==
  \A e \in Events : e.type \in Types /\ e \in MarketEvent(e.type)

VARIABLES
  file,       \* the bytes in the file
  store,      \* "closed"; "open"; "failed" once a write has failed
  pending,    \* the bytes in the output stream's buffer
  appends,    \* how many valid events were given to append, in all sessions
  opens,      \* how many stores were opened
  reader,     \* the PersistentReplaySource
  resets,     \* how many times it was reset
  appended,   \* history: the events appended, less those a crash lost
  flushed,    \* history: how many of them the last successful flush covered
  intact,     \* history: no store was opened on a file that ends in a record
  sound       \* history: the number of records before the first such place

storeVars == <<file, store, pending, appends, opens, appended, flushed, intact,
               sound>>
vars == <<storeVars, reader, resets>>

-----------------------------------------------------------------------------
Record(e) == LET data == Serialize(e) IN U32(Len(data)) \o data

\* The records of the events that a caller may append, each one computed once.
RecordOf == [e \in {e \in Events : IsValidEvent(e)} |-> Record(e)]

Records(events) == Joined([i \in DOMAIN events |-> RecordOf[events[i]]])

\* A source just opened or reset.  position_ is the length of delivered;
\* threw is history: some call of the source threw.
NewReader ==
  [stream |-> "good", offset |-> 0, exhausted |-> FALSE, delivered |-> <<>>,
   threw |-> FALSE]

Init ==
  /\ file = <<>> /\ store = "closed" /\ pending = <<>>
  /\ appends = 0 /\ opens = 0
  /\ reader = NewReader /\ resets = 0
  /\ appended = <<>> /\ flushed = 0 /\ intact = TRUE /\ sound = 0

-----------------------------------------------------------------------------
(***************************************************************************)
(* EventStore.  The first k of some bytes reach the file.                  *)
(***************************************************************************)
Pass(bytes, k) ==
  /\ file' = file \o SubSeq(bytes, 1, k)
  /\ pending' = SubSeq(bytes, k + 1, Len(bytes))

\* The appended events whose records are wholly in a file of n bytes.
Kept(n) ==
  SubSeq(appended, 1,
         Max({i \in 0 .. Len(appended) :
                Len(Records(SubSeq(appended, 1, i))) <= n}))

\* Mutant of Open: the file is truncated.
OpenTruncating ==
  /\ store = "closed" /\ opens < MaxOpens
  /\ file' = <<>>
  /\ store' = "open"
  /\ opens' = opens + 1
  /\ intact' = (intact /\ file = Records(appended))
  /\ sound' = IF intact THEN Len(appended) ELSE sound
  /\ UNCHANGED <<pending, appends, reader, resets, appended, flushed>>

\* The constructor opens the file for appending, as it is.
Open ==
  /\ store = "closed" /\ opens < MaxOpens
  /\ store' = "open"
  /\ opens' = opens + 1
  /\ intact' = (intact /\ file = Records(appended))
  /\ sound' = IF intact THEN Len(appended) ELSE sound
  /\ UNCHANGED <<file, pending, appends, reader, resets, appended, flushed>>

AppendEvent(e) ==
  /\ store = "open" /\ appends < MaxAppends
  /\ IsValidEvent(e)
  /\ LET bytes == pending \o RecordOf[e]
     IN  \E k \in Cuts \cup {Len(bytes)} : k <= Len(bytes) /\ Pass(bytes, k)
  /\ appended' = Append(appended, e)
  /\ appends' = appends + 1
  /\ UNCHANGED <<store, opens, reader, resets, flushed, intact, sound>>

\* serialize throws before anything is written, and nothing changes.
AppendInvalid(e) ==
  /\ store = "open"
  /\ ~IsValidEvent(e)
  /\ UNCHANGED vars

\* The write stops part way: the stream is bad from then on, and every later
\* append and flush throws and writes nothing.
WriteFails(bytes) ==
  /\ \E k \in Cuts : /\ k < Len(bytes)
                     /\ file' = file \o SubSeq(bytes, 1, k)
                     /\ appended' = Kept(Len(file) + k)
  /\ pending' = <<>>
  /\ store' = "failed"
  /\ UNCHANGED <<opens, reader, resets, flushed, intact, sound>>

AppendFails(e) ==
  /\ store = "open" /\ appends < MaxAppends
  /\ IsValidEvent(e)
  /\ WriteFails(pending \o RecordOf[e])
  /\ appends' = appends + 1

FlushFails ==
  /\ store = "open"
  /\ WriteFails(pending)
  /\ UNCHANGED appends

\* Mutant of FlushPending: the buffer is dropped.
DropPending ==
  /\ pending' = <<>>
  /\ flushed' = IF intact THEN Len(appended) ELSE flushed
  /\ UNCHANGED file

FlushPending ==
  /\ file' = file \o pending
  /\ pending' = <<>>
  /\ flushed' = IF intact THEN Len(appended) ELSE flushed

Flush ==
  /\ store = "open" /\ pending # <<>>
  /\ FlushPending
  /\ UNCHANGED <<store, appends, opens, reader, resets, appended, intact, sound>>

\* The destructor flushes.
Close ==
  /\ store = "open"
  /\ FlushPending
  /\ store' = "closed"
  /\ UNCHANGED <<appends, opens, reader, resets, appended, intact, sound>>

\* The writing process dies; in particular when the destructor's flush throws.
Crash ==
  /\ store # "closed"
  /\ store' = "closed"
  /\ pending' = <<>>
  /\ appended' = Kept(Len(file))
  /\ UNCHANGED <<file, appends, opens, reader, resets, flushed, intact, sound>>

-----------------------------------------------------------------------------
(***************************************************************************)
(* PersistentReplaySource.  The bytes left in the file decide what a call  *)
(* of next_event does with a source r.                                     *)
(***************************************************************************)
Left(r) == Len(file) - r.offset
RecordSize(r) == ReadU32(Slice(file, r.offset + 1, 4))
RecordData(r) == Slice(file, r.offset + 5, RecordSize(r))

AtEnd(r) == r.stream = "failed" \/ Left(r) = 0

\* Reading runs out of bytes, in the length or in the data.
RunsOut(r) == Left(r) < 4 \/ Left(r) < 4 + RecordSize(r)

\* Mutant of Skipped: a record that cannot be decoded is tried again.
Retried(r) == [r EXCEPT !.threw = TRUE]

\* The source after a zero length, or a record that deserialize refuses: the
\* bytes are consumed, and the stream stays good.
Skipped(r) ==
  [r EXCEPT !.threw = TRUE, !.offset = @ + 4 + RecordSize(r)]

\* Mutant of NextEvent: a record that is cut short counts as the end.
NextEventLenient(r) ==
  IF r.exhausted THEN r
  ELSE IF AtEnd(r) \/ RunsOut(r) THEN [r EXCEPT !.exhausted = TRUE]
  ELSE LET e == Deserialize(RecordData(r))
       IN  IF e = Malformed THEN Skipped(r)
           ELSE [r EXCEPT !.offset = @ + 4 + RecordSize(r),
                          !.delivered = Append(@, e)]

\* A stream that failed looks, to the next call, like a clean end of file.
NextEvent(r) ==
  IF r.exhausted THEN r
  ELSE IF AtEnd(r) THEN [r EXCEPT !.exhausted = TRUE]
  ELSE IF RunsOut(r) THEN [r EXCEPT !.stream = "failed", !.threw = TRUE]
  ELSE LET e == Deserialize(RecordData(r))
       IN  IF e = Malformed THEN Skipped(r)
           ELSE [r EXCEPT !.offset = @ + 4 + RecordSize(r),
                          !.delivered = Append(@, e)]

\* The source after next_batch: next_event until the batch is full, the end
\* is reached or a call throws.
NextBatch(r, max) ==
  LET after[n \in 0 .. max] ==
        IF n = 0 THEN r
        ELSE LET before == after[n - 1]
             IN  IF Len(before.delivered) = Len(r.delivered) + n - 1
                 THEN NextEvent(before)
                 ELSE before
  IN  after[max]

\* Mutant of Read: batches of two or more lose their last event.
ReadLosing ==
  /\ \E max \in 1 .. MaxBatch :
       LET after == NextBatch(reader, max)
       IN  reader' = IF Len(after.delivered) > Len(reader.delivered) + 1
                     THEN [after EXCEPT !.delivered = Front(@)] ELSE after
  /\ UNCHANGED <<storeVars, resets>>

\* next_event.
ReadOne == reader' = NextEvent(reader) /\ UNCHANGED <<storeVars, resets>>

\* next_batch; next_event is next_batch(1), but for how it returns the event.
Read ==
  /\ \E max \in 1 .. MaxBatch : reader' = NextBatch(reader, max)
  /\ UNCHANGED <<storeVars, resets>>

\* reset opens the file again.
Reset ==
  /\ resets < MaxResets
  /\ resets' = resets + 1
  /\ reader' = NewReader
  /\ UNCHANGED storeVars

Next ==
  \/ Open
  \/ \E e \in Events : AppendEvent(e) \/ AppendInvalid(e) \/ AppendFails(e)
  \/ FlushFails \/ Flush \/ Close \/ Crash
  \/ Read \/ Reset

\* The reading program keeps calling the source; the writer may do nothing.
Spec == Init /\ [][Next]_vars /\ WF_vars(ReadOne)

-----------------------------------------------------------------------------
(***************************************************************************)
(* Properties.                                                             *)
(***************************************************************************)
Bytes(s) == \A i \in DOMAIN s : s[i] \in Byte

\* Files and buffers hold bytes, the source stays within the file, and
\* appended and delivered hold valid events.
TypeOK ==
  /\ Bytes(file) /\ Bytes(pending)
  /\ store \in {"closed", "open", "failed"}
  /\ store # "open" => pending = <<>>
  /\ reader.stream \in {"good", "failed"}
  /\ reader.offset \in 0 .. Len(file)
  /\ \A e \in Range(appended) \cup Range(reader.delivered) : IsValidEvent(e)
  /\ flushed \in Nat /\ sound \in Nat /\ intact \in BOOLEAN

\* The number of appended records that stand in the file, or in the buffer, as
\* they were written.
Sound == IF intact THEN Len(appended) ELSE sound

\* The source delivers exactly what was appended, in order, up to the place
\* where a store was opened on a file that ended inside a record; what the
\* source makes of the bytes after such a place is not bounded by anything.
ReadsWhatWasWritten ==
  /\ \A i \in DOMAIN reader.delivered :
       i <= Sound => reader.delivered[i] = appended[i]
  /\ intact => Len(reader.delivered) <= Len(appended)

\* An event that a successful flush covered is never lost: not by a crash, by
\* a failed write or by reopening the file.
FlushedSurvives ==
  /\ flushed <= Sound
  /\ IsPrefix(Records(SubSeq(appended, 1, flushed)), file)

\* A source that reaches the end without ever having thrown has delivered the
\* whole file: no torn record passes for a clean end.
CleanEndIsComplete ==
  [][(/\ intact /\ ~reader.threw
      /\ ~reader.exhausted /\ reader'.exhausted
      /\ ~reader'.threw) => file = Records(reader'.delivered)]_vars

\* A program that keeps reading comes to the end of the file, whatever the
\* bytes in it: no damaged record is read for ever.
ReadingEnds == <>reader.exhausted
=============================================================================
