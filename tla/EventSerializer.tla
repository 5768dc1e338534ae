--------------------------- MODULE EventSerializer ---------------------------
(***************************************************************************)
(* core/events/event_serializer.cpp: the bytes of one event.               *)
(*                                                                         *)
(* A 64-bit field is the sequence of its eight bytes, least significant    *)
(* first, which is how the code writes it; so an event is a record of byte *)
(* strings, and no number is too large for the model.  Every way deserialize*)
(* has to throw is the one value Malformed: nothing else of it survives.   *)
(***************************************************************************)
EXTENDS Integers, SequencesExt

Byte == 0 .. 255
Word == [1 .. 8 -> Byte]

\* A small number as a 64-bit field, and as a 32-bit one.
AsWord(n) == <<n % 256, n \div 256>> \o [i \in 1 .. 6 |-> 0]
U32(n) == <<n % 256, (n \div 256) % 256, (n \div 65536) % 256, n \div 16777216>>

\* The number that read_u32 makes of four bytes; all those of 2^30 and more,
\* which no file of a model has room for, are one.
ReadU32(b) ==
  IF b[4] >= 64 THEN 1073741824
  ELSE b[1] + 256 * (b[2] + 256 * (b[3] + 256 * b[4]))

-----------------------------------------------------------------------------
(***************************************************************************)
(* Events.  The payload is the sequence of its fields, in the order of the *)
(* C++ struct; the side of an Add event is one byte.                       *)
(***************************************************************************)
Types == {"Trade", "Quote", "Add", "Cancel", "Execute"}

Tag == [Trade |-> 0, Quote |-> 1, Add |-> 2, Cancel |-> 3, Execute |-> 4]

\* The widths of a payload's fields.
Widths ==
  [Trade |-> <<8, 8>>, Quote |-> <<8, 8, 8, 8>>, Add |-> <<8, 1, 8, 8>>,
   Cancel |-> <<8, 8>>, Execute |-> <<8, 8, 8>>]

\* The events of each type, valid or not: what the fields of the struct can hold.
PayloadOf(type) ==
  {p \in Seq(Seq(Byte)) : /\ Len(p) = Len(Widths[type])
                          /\ \A i \in DOMAIN p : Len(p[i]) = Widths[type][i]}

MarketEvent(type) ==
  [event_id : Word, sequence_number : Word, timestamp : Word, symbol : Word,
   type : {type}, payload : PayloadOf(type)]

\* encode_side and decode_side.
EncodedSide == [Buy |-> <<0>>, Sell |-> <<1>>]
SideBytes == {<<0>>, <<1>>}

Zero(w) == \A i \in 1 .. 8 : w[i] = 0
Negative(w) == w[8] >= 128
Positive(w) == ~Negative(w) /\ ~Zero(w)

\* a < b, of words that are not negative.
WordLess(a, b) ==
  \E i \in 1 .. 8 : a[i] < b[i] /\ \A j \in i + 1 .. 8 : a[j] = b[j]

\* is_valid.  Order ids are unsigned, every other field of a payload signed.
IsValidFields(type, payload) ==
  CASE type = "Trade"   -> Positive(payload[1]) /\ Positive(payload[2])
    [] type = "Quote"   -> /\ \A i \in 1 .. 4 : Positive(payload[i])
                           /\ WordLess(payload[1], payload[3])
    [] type = "Add"     -> /\ ~Zero(payload[1]) /\ payload[2] \in SideBytes
                           /\ Positive(payload[3]) /\ Positive(payload[4])
    [] type = "Cancel"  -> ~Zero(payload[1]) /\ Positive(payload[2])
    [] type = "Execute" -> /\ ~Zero(payload[1])
                           /\ Positive(payload[2]) /\ Positive(payload[3])

IsValidEvent(e) ==
  /\ ~Zero(e.event_id)
  /\ ~Zero(e.sequence_number)
  /\ ~Negative(e.timestamp)
  /\ e.symbol[1] # 0
  /\ IsValidFields(e.type, e.payload)

-----------------------------------------------------------------------------
\* The concatenation of a sequence of byte strings.
Joined(parts) ==
  LET upTo[i \in 0 .. Len(parts)] ==
        IF i = 0 THEN <<>> ELSE upTo[i - 1] \o parts[i]
  IN  upTo[Len(parts)]

Magic == <<65, 69, 71, 77>>
FormatVersion == 1

\* The bytes before the payload: magic, version, four fields and the tag.
HeaderSize == 41

\* Mutant of Serialize: the timestamp is written before the sequence number.
SerializeSwapped(e) ==
  Magic \o U32(FormatVersion)
  \o e.event_id \o e.timestamp \o e.sequence_number \o e.symbol
  \o <<Tag[e.type]>> \o Joined(e.payload)

\* The bytes of a valid event (serialize throws on any other).
Serialize(e) ==
  Magic \o U32(FormatVersion)
  \o e.event_id \o e.sequence_number \o e.timestamp \o e.symbol
  \o <<Tag[e.type]>> \o Joined(e.payload)

Malformed == [type |-> "Malformed"]

Slice(data, first, width) == SubSeq(data, first, first + width - 1)

\* What precedes field i of a payload in the bytes of an event; Offset(type, n)
\* for n one more than the number of fields is the length of the whole.
Offset(type, i) ==
  LET before[j \in 1 .. i] ==
        IF j = 1 THEN HeaderSize ELSE before[j - 1] + Widths[type][j - 1]
  IN  before[i]

\* The offsets of the fields of each type, and the length of its events.
Offsets ==
  [t \in Types |-> [i \in 1 .. Len(Widths[t]) + 1 |-> Offset(t, i)]]
Size == [t \in Types |-> Last(Offsets[t])]

\* Each field starts where those before it end.
Fields(data, type) ==
  [i \in 1 .. Len(Widths[type]) |->
     Slice(data, Offsets[type][i] + 1, Widths[type][i])]

\* The event that the fields at their places in data make.
EventAt(data, type) ==
  [event_id |-> Slice(data, 9, 8), sequence_number |-> Slice(data, 17, 8),
   timestamp |-> Slice(data, 25, 8), symbol |-> Slice(data, 33, 8),
   type |-> type, payload |-> Fields(data, type)]

\* Every read finds its bytes, and none is left over.
Complete(data, type) == Len(data) = Size[type]

HeaderFits(data) ==
  /\ Len(data) >= HeaderSize
  /\ Slice(data, 1, 4) = Magic
  /\ Slice(data, 5, 4) = U32(FormatVersion)

\* The events that data has the bytes of: one, or none if the tag is unknown or
\* the payload is cut short or followed by more.
Decoded(data) ==
  {EventAt(data, type) :
     type \in {t \in Types : Tag[t] = data[HeaderSize] /\ Complete(data, t)}}

\* Mutant of Deserialize: the decoded event is not validated.
DeserializeUnchecked(data) ==
  LET events == IF HeaderFits(data) THEN Decoded(data) ELSE {}
  IN  IF events = {} THEN Malformed ELSE CHOOSE e \in events : TRUE

\* The event that bytes stand for: a header that is too short, a foreign magic
\* or version, a payload that does not fit and fields that is_valid refuses are
\* all refused.
Deserialize(data) ==
  LET events == IF HeaderFits(data)
                THEN {e \in Decoded(data) : IsValidEvent(e)} ELSE {}
  IN  IF events = {} THEN Malformed ELSE CHOOSE e \in events : TRUE
=============================================================================
