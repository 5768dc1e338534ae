----------------------------- MODULE EventReader -----------------------------
(***************************************************************************)
(* The Python side of the event file: iter_events                          *)
(* (aegisml/data/event_reader.py) and validate_event                       *)
(* (aegisml/data/validation.py).                                           *)
(*                                                                         *)
(* The file only grows, and what was read of it does not change; so what   *)
(* a generator has yielded when it stops is what one step over the bytes   *)
(* then in the file would have yielded, and iter_events is an operator on  *)
(* those bytes.                                                            *)
(***************************************************************************)
EXTENDS EventFile

\* Mutant of MaxRecordSize: too small for an Add event.
MaxRecordSizeForTrades == 64

\* MAX_RECORD_SIZE.
MaxRecordSize == 1024

\* The symbol, a str: the bytes before the first NUL.
PythonSymbol(symbol) ==
  LET length == Max({n \in 0 .. 8 : \A i \in 1 .. n : symbol[i] # 0})
  IN  SubSeq(symbol, 1, length)

IsAscii(symbol) == \A i \in DOMAIN PythonSymbol(symbol) : symbol[i] < 128

\* The MarketEventRecord of an event.
PythonEvent(e) == [e EXCEPT !.symbol = PythonSymbol(@)]

\* decode_event.  The fields are not looked at any further: is_valid has no
\* counterpart here.
PythonDecode(data) ==
  LET events == IF HeaderFits(data)
                THEN {e \in Decoded(data) :
                        /\ IsAscii(e.symbol)
                        /\ e.type = "Add" => e.payload[2] \in SideBytes}
                ELSE {}
  IN  IF events = {} THEN Malformed
      ELSE PythonEvent(CHOOSE e \in events : TRUE)

\* Mutant of RefusesRecord: read_record returns None on part of a length.
RefusesRecordButPrefix(bytes, offset) ==
  /\ Len(bytes) - offset >= 4
  /\ LET size == ReadU32(Slice(bytes, offset + 1, 4))
     IN  size = 0 \/ size > MaxRecordSize \/ offset + 4 + size > Len(bytes)

\* read_record raises at offset, which is before the end.
RefusesRecord(bytes, offset) ==
  \/ Len(bytes) - offset < 4
  \/ LET size == ReadU32(Slice(bytes, offset + 1, 4))
     IN  size = 0 \/ size > MaxRecordSize \/ offset + 4 + size > Len(bytes)

\* iter_events: the events yielded, and how the generator stops.
IterEvents(bytes) ==
  LET from[offset \in 0 .. Len(bytes)] ==
        IF RefusesRecord(bytes, offset) /\ offset < Len(bytes)
        THEN [yielded |-> <<>>, stop |-> "raised"]
        ELSE IF Len(bytes) - offset < 4
        THEN [yielded |-> <<>>, stop |-> "ended"]
        ELSE LET size == ReadU32(Slice(bytes, offset + 1, 4))
                 e == PythonDecode(Slice(bytes, offset + 5, size))
                 rest == from[offset + 4 + size]
             IN  IF e = Malformed
                 THEN [yielded |-> <<>>, stop |-> "raised"]
                 ELSE [rest EXCEPT !.yielded = <<e>> \o @]
  IN  from[0]

\* The Python types of the fields of a payload.
FieldTypes(e) ==
  [i \in DOMAIN e.payload |-> IF e.type = "Add" /\ i = 2 THEN "Side" ELSE "int"]

\* validate_event accepts a record that decode_event made (so that every number
\* has the range of its bytes).
Validates(e) ==
  /\ e.symbol # <<>>
  /\ \A i \in DOMAIN e.symbol : e.symbol[i] < 128
  /\ \A i \in DOMAIN e.payload : FieldTypes(e)[i] = "int"

-----------------------------------------------------------------------------
(***************************************************************************)
(* Properties.                                                             *)
(***************************************************************************)
Yielded == IterEvents(file).yielded

\* While every store was opened on whole records, a Python program gets from the
\* file, whenever it reads, exactly the events whose records are there, up to
\* the first with a symbol that is not ASCII; and the generator ends without an
\* exception only when those are all there is.  In any case it gets the events
\* before the first place where a store was opened inside a record.
PythonReadsWhatWasWritten ==
  LET kept == Kept(Len(file))
      read == IterEvents(file)
      n == Max({n \in 0 .. Len(kept) : \A i \in 1 .. n : IsAscii(kept[i].symbol)})
  IN  /\ \A i \in 1 .. n :
           i <= Sound => /\ i <= Len(read.yielded)
                         /\ read.yielded[i] = PythonEvent(kept[i])
      /\ intact => /\ Len(read.yielded) = n
                   /\ read.stop = "ended" <=> file = Records(SubSeq(kept, 1, n))

\* The two readers of the format agree: what the C++ source delivers before it
\* first throws, Python reads too, whatever the bytes, until a symbol is not
\* ASCII.
ReadersAgree ==
  ~reader.threw /\ (\A i \in DOMAIN reader.delivered :
                      IsAscii(reader.delivered[i].symbol)) =>
    IsPrefix([i \in DOMAIN reader.delivered |-> PythonEvent(reader.delivered[i])],
             Yielded)

\* "Validate an event's structure and its compatibility with the C++ contract"
\* (validate_event): it accepts every event that a store wrote and Python read.
WrittenEventsValidate ==
  \A i \in DOMAIN Yielded : i <= Sound => Validates(Yielded[i])
=============================================================================
