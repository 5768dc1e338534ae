----------------------------- MODULE ReaderProofs ----------------------------
(***************************************************************************)
(* The Python reader of the event file, for every set of events and every  *)
(* cut of a write: it reads what was written, and it agrees with the C++   *)
(* source.                                                                 *)
(***************************************************************************)
EXTENDS EventReader, FileProofs

-----------------------------------------------------------------------------
(***************************************************************************)
(* decode_event and deserialize on the same bytes.                         *)
(***************************************************************************)
LEMMA SizeFacts ==
  ASSUME NEW type \in Types
  PROVE  Size[type] \in 41 .. 73
<1> DEFINE w == Widths[type]
           p == [i \in 1 .. Len(w) |-> [j \in 1 .. w[i] |-> 0]]
<1>1. Len(w) \in 1 .. 4 /\ \A i \in 1 .. Len(w) : w[i] \in {1, 8}
  BY WidthsFacts
<1> HIDE DEF w
<1>2. ASSUME NEW i \in 1 .. Len(w)
      PROVE  p[i] \in Seq(Byte) /\ Len(p[i]) = w[i]
  <2>1. w[i] \in Nat /\ 0 \in Byte
    BY <1>1 DEF Byte
  <2> QED
    BY <2>1
<1>3. p \in Seq(Seq(Byte)) /\ Len(p) = Len(w) /\ DOMAIN p = 1 .. Len(w)
  <2>1. Len(w) \in Nat
    BY <1>1
  <2> QED
    BY <1>2, <2>1
<1>4. p \in PayloadOf(type)
  BY <1>2, <1>3 DEF PayloadOf, w
<1> QED
  BY <1>4, PayloadFields

\* What deserialize accepts, decode_event makes the same event of, if its symbol
\* is ASCII, and refuses otherwise.
LEMMA PythonDecodes ==
  ASSUME NEW data, NEW e, Deserialize(data) = e, e # Malformed
  PROVE  /\ PythonDecode(data) = IF IsAscii(e.symbol) THEN PythonEvent(e)
                                 ELSE Malformed
         /\ PythonEvent(e) # Malformed
         /\ Len(data) \in 41 .. 73
<1> DEFINE S == {x \in Decoded(data) : IsValidEvent(x)}
<1>1. HeaderFits(data) /\ S # {} /\ e = CHOOSE x \in S : TRUE
  BY DEF Deserialize
<1>2. e \in Decoded(data) /\ IsValidEvent(e)
  BY <1>1
<1>3. PICK t \in Types : /\ Tag[t] = data[HeaderSize] /\ Complete(data, t)
                         /\ e = EventAt(data, t)
  BY <1>2 DEF Decoded
<1>4. \A u \in Types : Tag[u] = Tag[t] => u = t
  BY DEF Types, Tag
<1>5. Decoded(data) = {e}
  BY <1>3, <1>4 DEF Decoded
<1>6. e.type = t
  BY <1>3 DEF EventAt
<1>7. e.type = "Add" => e.payload[2] \in SideBytes
  BY <1>2 DEF IsValidEvent, IsValidFields
<1> DEFINE P == {x \in Decoded(data) :
                  /\ IsAscii(x.symbol)
                  /\ x.type = "Add" => x.payload[2] \in SideBytes}
<1>8. PythonDecode(data) = IF P = {} THEN Malformed
                           ELSE PythonEvent(CHOOSE x \in P : TRUE)
  BY <1>1 DEF PythonDecode
<1>9. PythonDecode(data) = IF IsAscii(e.symbol) THEN PythonEvent(e) ELSE Malformed
  <2>1. CASE IsAscii(e.symbol)
    <3>1. P = {e}
      BY <1>5, <1>7, <2>1
    <3>2. (CHOOSE x \in {e} : TRUE) = e
      OBVIOUS
    <3> HIDE DEF P
    <3> QED
      BY <1>8, <2>1, <3>1, <3>2
  <2>2. CASE ~IsAscii(e.symbol)
    <3>1. P = {}
      BY <1>5, <2>2
    <3> QED
      BY <1>8, <2>2, <3>1
  <2> QED
    BY <2>1, <2>2
<1>10. PythonEvent(e) # Malformed
  <2>1. PythonEvent(e).type = t
    BY <1>3 DEF PythonEvent, EventAt
  <2>2. t # "Malformed"
    BY DEF Types
  <2> QED
    BY <2>1, <2>2 DEF Malformed
<1>11. Len(data) \in 41 .. 73
  BY <1>3, SizeFacts DEF Complete
<1> QED
  BY <1>9, <1>10, <1>11

-----------------------------------------------------------------------------
(***************************************************************************)
(* iter_events.  f[offset] is what it yields from an offset on.            *)
(***************************************************************************)
Raised == [yielded |-> <<>>, stop |-> "raised"]
Ended == [yielded |-> <<>>, stop |-> "ended"]

SizeAt(bytes, o) == ReadU32(Slice(bytes, o + 1, 4))
DataAt(bytes, o) == Slice(bytes, o + 5, SizeAt(bytes, o))

Iterated(f, bytes, o) ==
  IF RefusesRecord(bytes, o) /\ o < Len(bytes) THEN Raised
  ELSE IF Len(bytes) - o < 4 THEN Ended
  ELSE IF PythonDecode(DataAt(bytes, o)) = Malformed THEN Raised
  ELSE [f[o + 4 + SizeAt(bytes, o)] EXCEPT
          !.yielded = <<PythonDecode(DataAt(bytes, o))>> \o @]

IterFrom(f, bytes, k) ==
  f = [o \in k .. Len(bytes) |-> Iterated(f, bytes, o)]

\* A record that is not refused lies in the file, and is not empty.
LEMMA AcceptedRecord ==
  ASSUME NEW bytes \in Seq(Byte), NEW o \in 0 .. Len(bytes), o < Len(bytes),
         ~RefusesRecord(bytes, o)
  PROVE  /\ SizeAt(bytes, o) \in Nat \ {0}
         /\ o + 4 + SizeAt(bytes, o) \in o + 1 .. Len(bytes)
         /\ DataAt(bytes, o) \in Seq(Byte)
         /\ Len(bytes) - o >= 4
<1>1. Len(bytes) \in Nat
  BY LenProperties
<1> DEFINE size == SizeAt(bytes, o)
<1>2. /\ ~(Len(bytes) - o < 4) /\ size # 0 /\ ~(o + 4 + size > Len(bytes))
  BY DEF RefusesRecord, SizeAt
<1>3. size \in Nat
  <2>1. PICK i \in Nat \ {0}, w \in Nat : i = o + 1 /\ w = 4
    BY <1>1
  <2>2. i + w - 1 <= Len(bytes)
    BY <1>1, <1>2, <2>1
  <2>3. Slice(bytes, i, w) \in Seq(Byte) /\ Len(Slice(bytes, i, w)) = w
    BY <2>2, SliceType
  <2> QED
    BY <2>1, <2>3, ReadIsNatural DEF SizeAt
<1>4. DataAt(bytes, o) = Slice(bytes, o + 5, size)
  BY DEF DataAt
<1> HIDE DEF size
<1>5. DataAt(bytes, o) \in Seq(Byte)
  <2>1. PICK i \in Nat \ {0} : i = o + 5
    BY <1>1
  <2>2. i + size - 1 <= Len(bytes)
    BY <1>1, <1>2, <1>3, <2>1
  <2>3. Slice(bytes, i, size) \in Seq(Byte)
    BY <1>3, <2>2, SliceType
  <2> QED
    BY <1>4, <2>1, <2>3
<1>6. size \in Nat \ {0} /\ o + 4 + size \in o + 1 .. Len(bytes)
  BY <1>1, <1>2, <1>3
<1> QED
  BY <1>1, <1>2, <1>5, <1>6 DEF size

\* What is yielded from an offset on depends on what is yielded from later ones.
LEMMA IteratedLooksAhead ==
  ASSUME NEW bytes \in Seq(Byte), NEW o \in 0 .. Len(bytes), NEW f, NEW g,
         \A p \in o + 1 .. Len(bytes) : f[p] = g[p]
  PROVE  Iterated(f, bytes, o) = Iterated(g, bytes, o)
<1>1. CASE RefusesRecord(bytes, o) /\ o < Len(bytes)
  BY <1>1 DEF Iterated
<1>2. CASE ~(RefusesRecord(bytes, o) /\ o < Len(bytes)) /\ Len(bytes) - o < 4
  BY <1>2 DEF Iterated
<1>3. CASE ~(RefusesRecord(bytes, o) /\ o < Len(bytes)) /\ ~(Len(bytes) - o < 4)
  <2>1. o < Len(bytes) /\ ~RefusesRecord(bytes, o)
    BY <1>3, LenProperties
  <2>2. o + 4 + SizeAt(bytes, o) \in o + 1 .. Len(bytes)
    BY <2>1, AcceptedRecord
  <2>3. f[o + 4 + SizeAt(bytes, o)] = g[o + 4 + SizeAt(bytes, o)]
    BY <2>2
  <2> QED
    BY <2>3 DEF Iterated
<1> QED
  BY <1>1, <1>2, <1>3

LEMMA IterExists ==
  ASSUME NEW bytes \in Seq(Byte)
  PROVE  \E f : IterFrom(f, bytes, 0)
<1> DEFINE L == Len(bytes)
           Bad == {n \in 0 .. L : ~ \E f : IterFrom(f, bytes, L - n)}
<1>0. L \in Nat
  BY LenProperties
<1>1. ASSUME Bad # {} PROVE FALSE
  <2>1. PICK n \in Bad : \A m \in Bad : n <= m
    <3>1. Bad \in SUBSET Nat
      OBVIOUS
    <3> HIDE DEF Bad
    <3> QED
      BY <3>1, <1>1, LeastNatural
  <2>2. PICK f : n # 0 => IterFrom(f, bytes, (L - n) + 1)
    <3>1. n # 0 => n - 1 \in 0 .. L /\ n - 1 \notin Bad /\ L - (n - 1) = (L - n) + 1
      BY <1>0, <2>1
    <3> QED
      BY <3>1
  <2> DEFINE k == L - n
             g == [o \in k .. L |-> IF o = k THEN Iterated(f, bytes, k) ELSE f[o]]
  <2>3. k \in 0 .. L /\ (n = 0 <=> k = L)
    BY <1>0, <2>1
  <2> HIDE DEF k
  <2>4. \A o \in k + 1 .. L : g[o] = f[o]
    BY <1>0, <2>3
  <2>5. ASSUME NEW o \in k .. L PROVE g[o] = Iterated(g, bytes, o)
    <3>1. CASE o = k
      <4>1. g[k] = Iterated(f, bytes, k)
        BY <1>0, <2>3
      <4>2. Iterated(g, bytes, k) = Iterated(f, bytes, k)
        <5>1. k \in 0 .. Len(bytes) /\ \A p \in k + 1 .. Len(bytes) : g[p] = f[p]
          BY <2>3, <2>4
        <5> HIDE DEF g
        <5> QED
          BY <5>1, IteratedLooksAhead
      <4> QED
        BY <3>1, <4>1, <4>2
    <3>2. CASE o # k
      <4>1. o \in k + 1 .. L /\ n # 0 /\ o \in 0 .. L
        BY <1>0, <2>3, <3>2
      <4>2. f = [p \in k + 1 .. L |-> Iterated(f, bytes, p)]
        BY <2>2, <4>1 DEF IterFrom, k
      <4>3. g[o] = Iterated(f, bytes, o)
        BY <2>4, <4>1, <4>2
      <4>4. \A p \in o + 1 .. L : g[p] = f[p]
        BY <2>3, <2>4, <4>1
      <4>5. Iterated(g, bytes, o) = Iterated(f, bytes, o)
        <5> HIDE DEF g
        <5> QED
          BY <4>1, <4>4, IteratedLooksAhead
      <4> QED
        BY <4>3, <4>5
    <3> QED
      BY <3>1, <3>2
  <2>6. g = [o \in k .. L |-> g[o]]
    OBVIOUS
  <2> HIDE DEF g
  <2>7. IterFrom(g, bytes, k)
    BY <2>5, <2>6 DEF IterFrom
  <2> QED
    BY <2>1, <2>7 DEF k
<1>2. L \in 0 .. L /\ L - L = 0
  BY <1>0
<1> QED
  BY <1>1, <1>2

\* What IterEvents chooses is one.
LEMMA IterEventsIsIter ==
  ASSUME NEW bytes \in Seq(Byte)
  PROVE  \E f : IterFrom(f, bytes, 0) /\ IterEvents(bytes) = f[0]
<1> DEFINE from == CHOOSE f : f = [o \in 0 .. Len(bytes) |->
             IF RefusesRecord(bytes, o) /\ o < Len(bytes)
             THEN [yielded |-> <<>>, stop |-> "raised"]
             ELSE IF Len(bytes) - o < 4
             THEN [yielded |-> <<>>, stop |-> "ended"]
             ELSE IF PythonDecode(Slice(bytes, o + 5, ReadU32(Slice(bytes, o + 1, 4))))
                       = Malformed
             THEN [yielded |-> <<>>, stop |-> "raised"]
             ELSE [f[o + 4 + ReadU32(Slice(bytes, o + 1, 4))] EXCEPT
                     !.yielded =
                       <<PythonDecode(Slice(bytes, o + 5,
                                            ReadU32(Slice(bytes, o + 1, 4))))>> \o @]]
<1>1. \E f : IterFrom(f, bytes, 0)
  BY IterExists
<1>2. from = CHOOSE f : IterFrom(f, bytes, 0)
  BY DEF IterFrom, Iterated, Raised, Ended, SizeAt, DataAt
<1>3. IterEvents(bytes) = from[0]
  BY DEF IterEvents
<1> HIDE DEF from
<1> QED
  BY <1>1, <1>2, <1>3

-----------------------------------------------------------------------------
(***************************************************************************)
(* Records at their places.                                                *)
(***************************************************************************)
Python == {PythonDecode(data) : data \in Seq(Byte)} \ {Malformed}
Outcome == [yielded : Seq(Python), stop : {"raised", "ended"}]

LEMMA IterType ==
  ASSUME NEW bytes \in Seq(Byte), NEW f, IterFrom(f, bytes, 0)
  PROVE  \A o \in 0 .. Len(bytes) : f[o] \in Outcome
<1> DEFINE L == Len(bytes)
           Bad == {n \in 0 .. L : f[L - n] \notin Outcome}
<1>0. L \in Nat
  BY LenProperties
<1>1. \A o \in 0 .. L : f[o] = Iterated(f, bytes, o)
  BY DEF IterFrom
<1>2. Raised \in Outcome /\ Ended \in Outcome
  <2>1. <<>> \in Seq(Python)
    BY EmptySeq
  <2> QED
    BY <2>1 DEF Raised, Ended, Outcome
<1>3. ASSUME Bad # {} PROVE FALSE
  <2>1. PICK n \in Bad : \A m \in Bad : n <= m
    <3>1. Bad \in SUBSET Nat
      OBVIOUS
    <3> HIDE DEF Bad
    <3> QED
      BY <3>1, <1>3, LeastNatural
  <2>2. PICK o \in 0 .. L : o = L - n /\ f[o] \notin Outcome
    BY <1>0, <2>1
  <2>3. ASSUME NEW p \in o + 1 .. L PROVE f[p] \in Outcome
    <3>1. L - p \in 0 .. L /\ L - p < n /\ L - (L - p) = p
      BY <1>0, <2>1, <2>2
    <3>2. L - p \notin Bad
      BY <2>1, <3>1
    <3> QED
      BY <3>1, <3>2
  <2>4. CASE \/ RefusesRecord(bytes, o) /\ o < Len(bytes)
             \/ Len(bytes) - o < 4
             \/ PythonDecode(DataAt(bytes, o)) = Malformed
    BY <1>1, <1>2, <2>2, <2>4 DEF Iterated
  <2>5. CASE ~ \/ RefusesRecord(bytes, o) /\ o < Len(bytes)
               \/ Len(bytes) - o < 4
               \/ PythonDecode(DataAt(bytes, o)) = Malformed
    <3> DEFINE e == PythonDecode(DataAt(bytes, o))
               rest == f[o + 4 + SizeAt(bytes, o)]
    <3>1. o < Len(bytes) /\ ~RefusesRecord(bytes, o)
      BY <1>0, <2>5
    <3>2. o + 4 + SizeAt(bytes, o) \in o + 1 .. L /\ DataAt(bytes, o) \in Seq(Byte)
      BY <3>1, AcceptedRecord
    <3>3. e \in Python /\ rest \in Outcome
      BY <2>3, <2>5, <3>2 DEF Python
    <3>4. f[o] = [rest EXCEPT !.yielded = <<e>> \o @]
      BY <1>1, <2>5 DEF Iterated
    <3> HIDE DEF e, rest
    <3>5. rest.yielded \in Seq(Python) /\ <<e>> \in Seq(Python)
      BY <3>3 DEF Outcome
    <3>6. <<e>> \o rest.yielded \in Seq(Python)
      BY <3>5, ConcatProperties
    <3>7. f[o] \in Outcome
      BY <3>3, <3>4, <3>6 DEF Outcome
    <3> QED
      BY <2>2, <3>7
  <2> QED
    BY <2>4, <2>5
<1>4. ASSUME NEW o \in 0 .. L PROVE f[o] \in Outcome
  <2>1. L - o \in 0 .. L /\ L - (L - o) = o
    BY <1>0
  <2>2. L - o \notin Bad
    BY <1>3
  <2> QED
    BY <2>1, <2>2
<1> QED
  BY <1>4

\* bytes have at offset o a record that ends before offset next and stands for e.
RecordAt(bytes, o, next, e) ==
  /\ SizeAt(bytes, o) \in Nat
  /\ next = o + 4 + SizeAt(bytes, o)
  /\ next <= Len(bytes)
  /\ Deserialize(DataAt(bytes, o)) = e
  /\ e # Malformed

LEMMA RecordAtRead ==
  ASSUME NEW bytes \in Seq(Byte), NEW o \in Nat, NEW next, NEW e,
         RecordAt(bytes, o, next, e)
  PROVE  /\ o \in 0 .. Len(bytes) /\ o < Len(bytes) /\ next \in 0 .. Len(bytes)
         /\ ~RefusesRecord(bytes, o)
         /\ DataAt(bytes, o) \in Seq(Byte)
         /\ PythonDecode(DataAt(bytes, o)) =
              IF IsAscii(e.symbol) THEN PythonEvent(e) ELSE Malformed
         /\ PythonEvent(e) # Malformed
<1> DEFINE size == SizeAt(bytes, o)
           data == DataAt(bytes, o)
<1>1. /\ size \in Nat /\ next = o + 4 + size /\ next <= Len(bytes)
      /\ Deserialize(data) = e /\ e # Malformed
  BY DEF RecordAt
<1>2. Len(bytes) \in Nat
  BY LenProperties
<1>3. data = Slice(bytes, o + 5, size)
  BY DEF DataAt
<1>7. RefusesRecord(bytes, o) <=>
        \/ Len(bytes) - o < 4
        \/ size = 0 \/ size > 1024 \/ o + 4 + size > Len(bytes)
  BY DEF RefusesRecord, SizeAt, MaxRecordSize
<1> HIDE DEF size
<1>4. data \in Seq(Byte) /\ Len(data) = size
  <2>1. PICK i \in Nat \ {0} : i = o + 5
    OBVIOUS
  <2>2. i + size - 1 <= Len(bytes)
    BY <1>1, <1>2, <2>1
  <2>3. Slice(bytes, i, size) \in Seq(Byte) /\ Len(Slice(bytes, i, size)) = size
    BY <1>1, <2>2, SliceType
  <2> QED
    BY <1>3, <2>1, <2>3
<1> HIDE DEF data
<1>5. /\ PythonDecode(data) = IF IsAscii(e.symbol) THEN PythonEvent(e)
                              ELSE Malformed
      /\ PythonEvent(e) # Malformed
      /\ size \in 41 .. 73
  BY <1>1, <1>4, PythonDecodes
<1>6. /\ o \in 0 .. Len(bytes) /\ o < Len(bytes) /\ next \in 0 .. Len(bytes)
      /\ Len(bytes) - o >= 4 /\ o + 4 + size <= Len(bytes)
      /\ size # 0 /\ size <= 1024
  BY <1>1, <1>2, <1>5
<1>8. ~RefusesRecord(bytes, o)
  BY <1>1, <1>2, <1>6, <1>7
<1> QED
  BY <1>4, <1>5, <1>6, <1>8 DEF data

\* An event that is read stands before what is yielded from the next offset on.
LEMMA IterReads ==
  ASSUME NEW bytes \in Seq(Byte), NEW f, IterFrom(f, bytes, 0),
         NEW o \in Nat, NEW next, NEW e, RecordAt(bytes, o, next, e),
         IsAscii(e.symbol)
  PROVE  /\ f[o].stop = f[next].stop
         /\ Len(f[next].yielded) \in Nat
         /\ Len(f[o].yielded) = 1 + Len(f[next].yielded)
         /\ f[o].yielded[1] = PythonEvent(e)
         /\ \A i \in 1 .. Len(f[next].yielded) :
              f[o].yielded[1 + i] = f[next].yielded[i]
<1> DEFINE x == PythonEvent(e)
           rest == f[next]
<1>1. /\ o \in 0 .. Len(bytes) /\ o < Len(bytes) /\ next \in 0 .. Len(bytes)
      /\ ~RefusesRecord(bytes, o)
      /\ PythonDecode(DataAt(bytes, o)) = x /\ x # Malformed
      /\ DataAt(bytes, o) \in Seq(Byte)
      /\ next = o + 4 + SizeAt(bytes, o)
  BY RecordAtRead DEF RecordAt
<1>2. rest \in Outcome /\ x \in Python
  BY <1>1, IterType DEF Python
<1>3. f[o] = Iterated(f, bytes, o)
  BY <1>1 DEF IterFrom
<1>4. Len(bytes) - o >= 4
  BY <1>1, AcceptedRecord
<1>5. f[o] = [rest EXCEPT !.yielded = <<x>> \o @]
  <2>1. ~(Len(bytes) - o < 4)
    BY <1>1, <1>4, LenProperties
  <2> QED
    BY <1>1, <1>3, <2>1 DEF Iterated
<1> HIDE DEF x, rest
<1>6. rest.yielded \in Seq(Python) /\ <<x>> \in Seq(Python) /\ Len(<<x>>) = 1
      /\ <<x>>[1] = x
  BY <1>2 DEF Outcome
<1>7. f[o].stop = rest.stop /\ f[o].yielded = <<x>> \o rest.yielded
  BY <1>2, <1>5 DEF Outcome
<1> DEFINE y == rest.yielded
           u == <<x>>
<1>8. Len(y) \in Nat
  BY <1>6, LenProperties
<1> HIDE DEF y, u
<1>9. /\ Len(u \o y) = 1 + Len(y)
      /\ \A i \in 1 .. 1 + Len(y) :
           (u \o y)[i] = IF i <= 1 THEN u[i] ELSE y[i - 1]
  BY <1>6, ConcatProperties DEF y, u
<1>10. (u \o y)[1] = x /\ \A i \in 1 .. Len(y) : (u \o y)[1 + i] = y[i]
  BY <1>6, <1>8, <1>9 DEF u
<1> QED
  BY <1>7, <1>8, <1>9, <1>10 DEF x, rest, y, u

\* whole is what is yielded from the beginning on, and rest what is yielded
\* behind the first j events of d, which are yielded before it.
Along(whole, rest, d, j) ==
  /\ whole.stop = rest.stop
  /\ Len(rest.yielded) \in Nat
  /\ Len(whole.yielded) = j + Len(rest.yielded)
  /\ \A i \in 1 .. j : whole.yielded[i] = PythonEvent(d[i])
  /\ \A i \in 1 .. Len(rest.yielded) : whole.yielded[j + i] = rest.yielded[i]

LEMMA AlongStep ==
  ASSUME NEW bytes \in Seq(Byte), NEW f, IterFrom(f, bytes, 0),
         NEW d, NEW j \in Nat, NEW o \in Nat, NEW next, NEW whole,
         Along(whole, f[o], d, j),
         RecordAt(bytes, o, next, d[j + 1]), IsAscii(d[j + 1].symbol)
  PROVE  Along(whole, f[next], d, j + 1)
<1> DEFINE y == f[o].yielded
           z == f[next].yielded
           w == whole.yielded
<1>1. /\ f[o].stop = f[next].stop
      /\ Len(z) \in Nat
      /\ Len(y) = 1 + Len(z)
      /\ y[1] = PythonEvent(d[j + 1])
      /\ \A i \in 1 .. Len(z) : y[1 + i] = z[i]
  BY IterReads
<1>2. /\ whole.stop = f[o].stop
      /\ Len(w) = j + Len(y)
      /\ \A i \in 1 .. j : w[i] = PythonEvent(d[i])
      /\ \A i \in 1 .. Len(y) : w[j + i] = y[i]
  BY DEF Along
<1> HIDE DEF w, y, z
<1>3. Len(w) = (j + 1) + Len(z)
  BY <1>1, <1>2
<1>4. ASSUME NEW i \in 1 .. j + 1 PROVE w[i] = PythonEvent(d[i])
  <2>1. CASE i = j + 1
    <3>1. 1 \in 1 .. Len(y)
      BY <1>1
    <3>2. w[j + 1] = y[1]
      BY <1>2, <3>1
    <3> QED
      BY <1>1, <2>1, <3>2
  <2>2. CASE i # j + 1
    <3>1. i \in 1 .. j
      BY <2>2
    <3> QED
      BY <1>2, <3>1
  <2> QED
    BY <2>1, <2>2
<1>5. ASSUME NEW i \in 1 .. Len(z) PROVE w[(j + 1) + i] = z[i]
  <2>1. 1 + i \in 1 .. Len(y) /\ (j + 1) + i = j + (1 + i)
    BY <1>1
  <2>2. w[j + (1 + i)] = y[1 + i]
    BY <1>2, <2>1
  <2> QED
    BY <1>1, <2>1, <2>2
<1> QED
  BY <1>1, <1>2, <1>3, <1>4, <1>5 DEF Along, w, z

\* Records one after the other from the beginning, each of an event whose symbol
\* is ASCII, are read one after the other.
LEMMA IterAlong ==
  ASSUME NEW bytes \in Seq(Byte), NEW f, IterFrom(f, bytes, 0),
         NEW d, NEW n \in Nat, NEW o \in [0 .. n -> Nat], o[0] = 0,
         \A i \in 1 .. n : /\ RecordAt(bytes, o[i - 1], o[i], d[i])
                           /\ IsAscii(d[i].symbol)
  PROVE  Along(f[0], f[o[n]], d, n)
<1> DEFINE Bad == {j \in 0 .. n : ~Along(f[0], f[o[j]], d, j)}
<1>1. Along(f[0], f[o[0]], d, 0)
  <2>1. f[0] \in Outcome
    <3>1. 0 \in 0 .. Len(bytes)
      BY LenProperties
    <3> QED
      BY <3>1, IterType
  <2>2. Len(f[0].yielded) \in Nat
    BY <2>1, LenProperties DEF Outcome
  <2> QED
    BY <2>2 DEF Along
<1>2. ASSUME Bad # {} PROVE FALSE
  <2>1. PICK k \in Bad : \A m \in Bad : k <= m
    <3>1. Bad \in SUBSET Nat
      OBVIOUS
    <3> HIDE DEF Bad
    <3> QED
      BY <3>1, <1>2, LeastNatural
  <2>2. k # 0
    BY <1>1, <2>1
  <2>3. PICK j \in 0 .. n : j = k - 1 /\ k = j + 1 /\ j \notin Bad /\ k \in 1 .. n
    BY <2>1, <2>2
  <2>4. Along(f[0], f[o[j]], d, j)
    BY <2>3
  <2>5. /\ RecordAt(bytes, o[j], o[k], d[j + 1]) /\ IsAscii(d[j + 1].symbol)
        /\ o[j] \in Nat
    BY <2>3
  <2>6. Along(f[0], f[o[k]], d, j + 1)
    <3>1. PICK p \in Nat, q \in {o[k]}, whole \in {f[0]} :
               p = o[j] /\ q = o[k] /\ whole = f[0]
      BY <2>5
    <3>2. /\ Along(whole, f[p], d, j) /\ RecordAt(bytes, p, q, d[j + 1])
          /\ IsAscii(d[j + 1].symbol) /\ j \in Nat
      BY <2>4, <2>5, <3>1
    <3>3. Along(whole, f[q], d, j + 1)
      BY <3>2, AlongStep
    <3> QED
      BY <3>1, <3>3
  <2> QED
    BY <2>1, <2>3, <2>6
<1>3. n \in 0 .. n
  OBVIOUS
<1> QED
  BY <1>2, <1>3

-----------------------------------------------------------------------------
(***************************************************************************)
(* What the C++ source has read stands in the file, record after record.   *)
(***************************************************************************)
IsPath(o, bytes, d) ==
  /\ o \in [0 .. Len(d) -> Nat]
  /\ o[0] = 0
  /\ \A i \in 1 .. Len(d) : RecordAt(bytes, o[i - 1], o[i], d[i])

\* A source that has not thrown got its events from records that follow one
\* another from the beginning of the file to where it stands.
HasRead(r, bytes) ==
  ~r.threw => \E o : /\ IsPath(o, bytes, r.delivered)
                     /\ o[Len(r.delivered)] = r.offset

ReadInv == FileInv /\ HasRead(reader, file)

LEMMA RecordAtKept ==
  ASSUME NEW bytes \in Seq(Byte), NEW more \in Seq(Byte), Begins(bytes, more),
         NEW o \in Nat, NEW next, NEW e, RecordAt(bytes, o, next, e)
  PROVE  RecordAt(more, o, next, e)
<1>1. /\ SizeAt(bytes, o) \in Nat /\ next = o + 4 + SizeAt(bytes, o)
      /\ next <= Len(bytes)
  BY DEF RecordAt
<1>2. Len(bytes) \in Nat /\ Len(more) \in Nat /\ Len(bytes) <= Len(more)
  BY LenProperties DEF Begins
<1>3. SizeAt(more, o) = SizeAt(bytes, o)
  <2>1. PICK i \in Nat \ {0}, w \in Nat : i = o + 1 /\ w = 4
    OBVIOUS
  <2>2. i + w - 1 <= Len(bytes)
    BY <1>1, <1>2, <2>1
  <2>3. Slice(more, i, w) = Slice(bytes, i, w)
    BY <2>2, SliceOfBeginning
  <2> QED
    BY <2>1, <2>3 DEF SizeAt
<1>4. DataAt(more, o) = DataAt(bytes, o)
  <2>1. PICK i \in Nat \ {0} : i = o + 5
    OBVIOUS
  <2>2. i + SizeAt(bytes, o) - 1 <= Len(bytes)
    BY <1>1, <1>2, <2>1
  <2>3. Slice(more, i, SizeAt(bytes, o)) = Slice(bytes, i, SizeAt(bytes, o))
    BY <1>1, <2>2, SliceOfBeginning
  <2> QED
    BY <1>3, <2>1, <2>3 DEF DataAt
<1>5. next <= Len(more)
  BY <1>1, <1>2
<1> QED
  BY <1>1, <1>3, <1>4, <1>5 DEF RecordAt

LEMMA HasReadKept ==
  ASSUME NEW bytes \in Seq(Byte), NEW more \in Seq(Byte), Begins(bytes, more),
         NEW r, HasRead(r, bytes)
  PROVE  HasRead(r, more)
<1> SUFFICES ASSUME ~r.threw
             PROVE  \E o : /\ IsPath(o, more, r.delivered)
                           /\ o[Len(r.delivered)] = r.offset
  BY DEF HasRead
<1>1. PICK o : IsPath(o, bytes, r.delivered) /\ o[Len(r.delivered)] = r.offset
  BY DEF HasRead
<1>2. ASSUME NEW i \in 1 .. Len(r.delivered)
      PROVE  RecordAt(more, o[i - 1], o[i], r.delivered[i])
  <2>1. i - 1 \in 0 .. Len(r.delivered)
    OBVIOUS
  <2>2. PICK p \in Nat, next \in {o[i]}, e \in {r.delivered[i]} :
          p = o[i - 1] /\ next = o[i] /\ e = r.delivered[i]
    BY <1>1, <2>1 DEF IsPath
  <2>3. RecordAt(bytes, p, next, e)
    BY <1>1, <2>2 DEF IsPath
  <2>4. RecordAt(more, p, next, e)
    BY <2>3, RecordAtKept
  <2> QED
    BY <2>2, <2>4
<1>3. IsPath(o, more, r.delivered)
  BY <1>1, <1>2 DEF IsPath
<1> QED
  BY <1>1, <1>3

LEMMA PathGoesOn ==
  ASSUME NEW bytes, NEW S, NEW d \in Seq(S), NEW e \in S,
         NEW o, IsPath(o, bytes, d), NEW next \in Nat,
         RecordAt(bytes, o[Len(d)], next, e)
  PROVE  \E g : /\ IsPath(g, bytes, Append(d, e))
                /\ g[Len(Append(d, e))] = next
<1> DEFINE n == Len(d)
           a == Append(d, e)
           g == [i \in 0 .. n + 1 |-> IF i = n + 1 THEN next ELSE o[i]]
<1>1. /\ n \in Nat /\ Len(a) = n + 1 /\ a[n + 1] = e
      /\ \A i \in 1 .. n : a[i] = d[i]
  BY LenProperties, AppendProperties
<1>2. /\ o \in [0 .. n -> Nat] /\ o[0] = 0
      /\ \A i \in 1 .. n : RecordAt(bytes, o[i - 1], o[i], d[i])
  BY DEF IsPath
<1>3. RecordAt(bytes, o[n], next, e)
  OBVIOUS
<1> HIDE DEF n, a
<1>4. /\ g \in [0 .. n + 1 -> Nat] /\ g[0] = 0 /\ g[n + 1] = next
      /\ \A i \in 0 .. n : g[i] = o[i]
  BY <1>1, <1>2
<1> HIDE DEF g
<1>5. ASSUME NEW i \in 1 .. n + 1 PROVE RecordAt(bytes, g[i - 1], g[i], a[i])
  <2>1. CASE i = n + 1
    <3>1. g[i - 1] = o[n] /\ g[i] = next /\ a[i] = e
      BY <1>1, <1>4, <2>1
    <3> QED
      BY <1>3, <3>1
  <2>2. CASE i # n + 1
    <3>1. i \in 1 .. n /\ i \in 0 .. n /\ i - 1 \in 0 .. n
      BY <1>1, <2>2
    <3>2. g[i - 1] = o[i - 1] /\ g[i] = o[i] /\ a[i] = d[i]
      BY <1>1, <1>4, <3>1
    <3> QED
      BY <1>2, <3>1, <3>2
  <2> QED
    BY <2>1, <2>2
<1>6. IsPath(g, bytes, a)
  BY <1>1, <1>4, <1>5 DEF IsPath
<1>7. g[Len(a)] = next
  BY <1>1, <1>4
<1> QED
  BY <1>6, <1>7 DEF a

LEMMA NextEventReads ==
  ASSUME StoreInv, NEW r, SourceInv(r), HasRead(r, file)
  PROVE  HasRead(NextEvent(r), file)
<1>1. r \in Sources /\ r.offset <= Len(file) /\ r.delivered \in Seq(Decodable)
      /\ r.offset \in Nat
  BY DEF SourceInv, Sources
<1>2. CASE r.exhausted
  BY <1>2 DEF NextEvent
<1>3. CASE ~r.exhausted /\ AtEnd(r)
  <2>1. NextEvent(r) = [r EXCEPT !.exhausted = TRUE]
    BY <1>3 DEF NextEvent
  <2>2. /\ NextEvent(r).delivered = r.delivered /\ NextEvent(r).threw = r.threw
        /\ NextEvent(r).offset = r.offset
    BY <1>1, <2>1 DEF Sources
  <2> QED
    BY <2>2 DEF HasRead
<1>4. CASE ~r.exhausted /\ ~AtEnd(r) /\ RunsOut(r)
  <2>1. NextEvent(r) = [r EXCEPT !.stream = "failed", !.threw = TRUE]
    BY <1>4 DEF NextEvent
  <2>2. NextEvent(r).threw
    BY <1>1, <2>1 DEF Sources
  <2> QED
    BY <2>2 DEF HasRead
<1>5. CASE ~r.exhausted /\ ~AtEnd(r) /\ ~RunsOut(r)
  <2> DEFINE e == Deserialize(RecordData(r))
             next == r.offset + 4 + RecordSize(r)
             skipped == [r EXCEPT !.threw = TRUE, !.offset = next]
             read == [r EXCEPT !.offset = next, !.delivered = Append(r.delivered, e)]
  <2>1. /\ e = Malformed => NextEvent(r) = skipped
        /\ e # Malformed => NextEvent(r) = read
    BY <1>5 DEF NextEvent, Skipped
  <2>2. /\ next \in Nat /\ next <= Len(file) /\ RecordData(r) \in Seq(Byte)
        /\ RecordSize(r) \in Nat
    BY <1>1, <1>5, RecordFits
  <2>3. CASE e = Malformed
    <3>1. NextEvent(r).threw
      BY <1>1, <2>1, <2>3 DEF Sources
    <3> QED
      BY <3>1 DEF HasRead
  <2>4. CASE e # Malformed
    <3>1. e \in Decodable
      BY <2>2, <2>4 DEF Decodable
    <3>2. RecordAt(file, r.offset, next, e)
      BY <2>2, <2>4 DEF RecordAt, SizeAt, DataAt, RecordSize, RecordData
    <3> HIDE DEF e, next
    <3>3. /\ NextEvent(r).threw = r.threw /\ NextEvent(r).offset = next
          /\ NextEvent(r).delivered = Append(r.delivered, e)
      BY <1>1, <2>1, <2>4 DEF Sources
    <3>4. SUFFICES ASSUME ~r.threw
                   PROVE  \E g : /\ IsPath(g, file, Append(r.delivered, e))
                                 /\ g[Len(Append(r.delivered, e))] = next
      BY <3>3 DEF HasRead
    <3>5. PICK o : IsPath(o, file, r.delivered) /\ o[Len(r.delivered)] = r.offset
      BY <3>4 DEF HasRead
    <3>6. RecordAt(file, o[Len(r.delivered)], next, e)
      BY <3>2, <3>5
    <3>7. PICK d \in Seq(Decodable) : d = r.delivered
      BY <1>1
    <3>8. /\ IsPath(o, file, d) /\ RecordAt(file, o[Len(d)], next, e)
          /\ next \in Nat
      BY <2>2, <3>5, <3>6, <3>7
    <3>9. \E g : IsPath(g, file, Append(d, e)) /\ g[Len(Append(d, e))] = next
      BY <3>1, <3>8, PathGoesOn
    <3> QED
      BY <3>7, <3>9
  <2> QED
    BY <2>3, <2>4
<1> QED
  BY <1>2, <1>3, <1>4, <1>5

\* A batch is turn after turn a call of next_event, or nothing more.
LEMMA BatchSteps ==
  ASSUME NEW r, NEW max \in Nat
  PROVE  \E f : /\ f[0] = r /\ f[max] = NextBatch(r, max)
                /\ \A n \in 1 .. max : \/ f[n] = NextEvent(f[n - 1])
                                       \/ f[n] = f[n - 1]
<1> DEFINE f == CHOOSE f : f = [n \in 0 .. max |->
                 IF n = 0 THEN r
                 ELSE IF Len(f[n - 1].delivered) = Len(r.delivered) + n - 1
                      THEN NextEvent(f[n - 1])
                      ELSE f[n - 1]]
<1>1. \E g : IsBatch(g, r, max)
  BY BatchExists
<1>2. IsBatch(f, r, max)
  BY <1>1 DEF IsBatch
<1>3. NextBatch(r, max) = f[max]
  BY DEF NextBatch
<1> HIDE DEF f
<1>4. \A n \in 0 .. max :
        f[n] = IF n = 0 THEN r
               ELSE IF Len(f[n - 1].delivered) = Len(r.delivered) + n - 1
                    THEN NextEvent(f[n - 1])
                    ELSE f[n - 1]
  BY <1>2 DEF IsBatch
<1>5. 0 \in 0 .. max /\ \A n \in 1 .. max : n \in 0 .. max /\ n # 0
  OBVIOUS
<1>6. f[0] = r
  BY <1>4, <1>5, Zenon
<1>7. ASSUME NEW n \in 1 .. max PROVE f[n] = NextEvent(f[n - 1]) \/ f[n] = f[n - 1]
  BY <1>4, <1>5, Zenon
<1> QED
  BY <1>3, <1>6, <1>7

LEMMA BatchReads ==
  ASSUME StoreInv, NEW r, SourceInv(r), HasRead(r, file), NEW max \in Nat
  PROVE  HasRead(NextBatch(r, max), file)
<1>1. PICK f : /\ f[0] = r /\ f[max] = NextBatch(r, max)
               /\ \A n \in 1 .. max : f[n] = NextEvent(f[n - 1]) \/ f[n] = f[n - 1]
  BY BatchSteps
<1> DEFINE Bad == {n \in 0 .. max : ~(SourceInv(f[n]) /\ HasRead(f[n], file))}
<1>2. ASSUME Bad # {} PROVE FALSE
  <2>1. PICK n \in Bad : \A m \in Bad : n <= m
    <3>1. Bad \in SUBSET Nat
      OBVIOUS
    <3> HIDE DEF Bad
    <3> QED
      BY <3>1, <1>2, LeastNatural
  <2>2. n # 0
    BY <1>1, <2>1
  <2>3. n \in 1 .. max /\ n - 1 \in 0 .. max /\ n - 1 \notin Bad
    BY <2>1, <2>2
  <2>4. SourceInv(f[n - 1]) /\ HasRead(f[n - 1], file)
    BY <2>3
  <2>5. SourceInv(NextEvent(f[n - 1])) /\ HasRead(NextEvent(f[n - 1]), file)
    BY <2>4, NextEventKeeps, NextEventReads
  <2>6. f[n] = NextEvent(f[n - 1]) \/ f[n] = f[n - 1]
    BY <1>1, <2>3
  <2> QED
    BY <2>1, <2>4, <2>5, <2>6
<1>3. max \in 0 .. max
  OBVIOUS
<1> QED
  BY <1>1, <1>2, <1>3

\* Nothing that is in the file ever changes.
LEMMA FileGrows ==
  ASSUME FileInv, [Next]_vars
  PROVE  Begins(file, file')
<1>1. file \in Seq(Byte) /\ pending \in Seq(Byte)
  BY DEF FileInv, StoreInv, StoreTypes
<1>2. ASSUME NEW bytes \in Seq(Byte), NEW k \in Nat, k <= Len(bytes),
             file' = file \o SubSeq(bytes, 1, k)
      PROVE  Begins(file, file')
  <2>1. k \in 0 .. Len(bytes)
    BY <1>2, LenProperties
  <2> QED
    BY <1>1, <1>2, <2>1, PassFacts
<1>3. ASSUME NEW e \in Events, IsValidEvent(e)
      PROVE  pending \o RecordOf[e] \in Seq(Byte)
  <2>1. e \in Valid
    BY <1>3 DEF Valid
  <2>2. RecordOf[e] \in Seq(Byte)
    BY <2>1, RecordFacts
  <2> QED
    BY <1>1, <2>2, ConcatProperties
<1>4. ASSUME NEW bytes \in Seq(Byte), WriteFails(bytes)
      PROVE  Begins(file, file')
  <2>1. PICK k \in Cuts : k < Len(bytes) /\ file' = file \o SubSeq(bytes, 1, k)
    BY <1>4 DEF WriteFails
  <2>2. k \in Nat /\ k <= Len(bytes)
    BY <2>1, BoundsAssumption, LenProperties
  <2> QED
    BY <1>2, <2>1, <2>2
<1>5. CASE \E e \in Events : AppendEvent(e)
  <2>1. PICK e \in Events : AppendEvent(e)
    BY <1>5
  <2>2. PICK bytes \in Seq(Byte) : bytes = pending \o RecordOf[e]
    BY <1>3, <2>1 DEF AppendEvent
  <2>3. PICK k \in Cuts \cup {Len(bytes)} : /\ k <= Len(bytes)
                                            /\ file' = file \o SubSeq(bytes, 1, k)
    BY <2>1, <2>2 DEF AppendEvent, Pass
  <2>4. k \in Nat
    BY <2>3, BoundsAssumption, LenProperties
  <2> QED
    BY <1>2, <2>3, <2>4
<1>6. CASE \E e \in Events : AppendFails(e)
  BY <1>3, <1>4, <1>6 DEF AppendFails
<1>7. CASE FlushFails
  BY <1>1, <1>4, <1>7 DEF FlushFails
<1>8. CASE Flush \/ Close
  <2>1. file' = file \o pending
    BY <1>8 DEF Flush, Close, FlushPending
  <2> QED
    BY <1>1, <2>1, BeginsConcat
<1>9. CASE file' = file
  BY <1>1, <1>9, BeginsItself
<1> QED
  BY <1>5, <1>6, <1>7, <1>8, <1>9
     DEF Next, AppendInvalid, Open, Crash, Read, Reset, vars, storeVars

LEMMA StepReads ==
  ASSUME ReadInv, [Next]_vars
  PROVE  ReadInv'
<1>1. FileInv /\ HasRead(reader, file) /\ StoreInv /\ SourceInv(reader)
  BY DEF ReadInv, FileInv
<1>2. FileInv'
  BY <1>1, StepKeeps
<1>3. file \in Seq(Byte) /\ file' \in Seq(Byte) /\ Begins(file, file')
  BY <1>1, <1>2, FileGrows DEF FileInv, StoreInv, StoreTypes
<1>4. HasRead(reader', file)
  <2>1. CASE Read
    <3>1. PICK max \in 1 .. MaxBatch : reader' = NextBatch(reader, max)
      BY <2>1 DEF Read
    <3>2. max \in Nat
      BY BoundsAssumption
    <3> QED
      BY <1>1, <3>1, <3>2, BatchReads
  <2>2. CASE Reset
    <3>1. reader'.delivered = <<>> /\ reader'.offset = 0
      BY <2>2 DEF Reset, NewReader
    <3> DEFINE o == [i \in 0 .. 0 |-> 0]
    <3>2. IsPath(o, file, <<>>) /\ o[0] = 0
      BY DEF IsPath
    <3> HIDE DEF o
    <3> QED
      BY <3>1, <3>2 DEF HasRead
  <2>3. CASE reader' = reader
    BY <1>1, <2>3
  <2> QED
    BY <2>1, <2>2, <2>3
       DEF Next, vars, Open, AppendEvent, AppendInvalid, AppendFails, WriteFails,
           FlushFails, Flush, Close, Crash
<1>5. HasRead(reader', file')
  BY <1>3, <1>4, HasReadKept
<1> QED
  BY <1>2, <1>5 DEF ReadInv

\* Whatever is written, and however the writer ends, a source that has not thrown
\* got its events from records that follow one another in the file.
THEOREM ReadInvariant == Spec => []ReadInv
<1>1. Init => ReadInv
  <2> SUFFICES ASSUME Init PROVE ReadInv
    OBVIOUS
  <2>1. FileInv
    BY InitGood
  <2>2. reader.delivered = <<>> /\ reader.offset = 0
    BY DEF Init, NewReader
  <2> DEFINE o == [i \in 0 .. 0 |-> 0]
  <2>3. IsPath(o, file, <<>>) /\ o[0] = 0
    BY DEF IsPath
  <2> HIDE DEF o
  <2>4. HasRead(reader, file)
    BY <2>2, <2>3 DEF HasRead
  <2> QED
    BY <2>1, <2>4 DEF ReadInv
<1>2. ReadInv /\ [Next]_vars => ReadInv'
  BY StepReads
<1> QED
  BY <1>1, <1>2, PTL DEF Spec

\* The two readers of the format agree: what PersistentReplaySource delivers before
\* it first throws, iter_events yields as well, whatever bytes the file holds, as
\* long as the symbols are ASCII.
THEOREM ReadersStayTogether == Spec => []ReadersAgree
<1>1. ReadInv => ReadersAgree
  <2> SUFFICES ASSUME ReadInv, ~reader.threw,
                      \A i \in DOMAIN reader.delivered :
                        IsAscii(reader.delivered[i].symbol)
               PROVE  IsPrefix([i \in DOMAIN reader.delivered |->
                                  PythonEvent(reader.delivered[i])], Yielded)
    BY DEF ReadersAgree
  <2> DEFINE d == reader.delivered
             n == Len(d)
             p == [i \in DOMAIN d |-> PythonEvent(d[i])]
             y == Yielded
  <2>1. file \in Seq(Byte) /\ d \in Seq(Decodable)
    BY DEF ReadInv, FileInv, StoreInv, StoreTypes, SourceInv, Sources
  <2>2. n \in Nat /\ DOMAIN d = 1 .. n
    BY <2>1, LenProperties
  <2>3. PICK o : IsPath(o, file, d)
    BY DEF ReadInv, HasRead
  <2>4. PICK f : IterFrom(f, file, 0) /\ IterEvents(file) = f[0]
    BY <2>1, IterEventsIsIter
  <2>5. y = f[0].yielded
    BY <2>4 DEF Yielded
  <2>6. \A i \in 1 .. n : IsAscii(d[i].symbol)
    BY <2>2
  <2> HIDE DEF d, y
  <2>7. Along(f[0], f[o[n]], d, n)
    <3>1. /\ o \in [0 .. n -> Nat] /\ o[0] = 0
          /\ \A i \in 1 .. n : /\ RecordAt(file, o[i - 1], o[i], d[i])
                               /\ IsAscii(d[i].symbol)
      BY <2>3, <2>6 DEF IsPath
    <3> HIDE DEF n
    <3> QED
      BY <2>1, <2>2, <2>4, <3>1, IterAlong
  <2> HIDE DEF n
  <2>8. /\ Len(y) >= n /\ \A i \in 1 .. n : y[i] = PythonEvent(d[i])
    BY <2>2, <2>5, <2>7 DEF Along
  <2>9. y \in Seq(Python)
    <3>1. f[0] \in Outcome
      <4>1. 0 \in 0 .. Len(file)
        BY <2>1, LenProperties
      <4> QED
        BY <2>1, <2>4, <4>1, IterType
    <3> QED
      BY <2>5, <3>1 DEF Outcome
  <2>10. p \in Seq(Python) /\ Len(p) = n /\ \A i \in 1 .. n : p[i] = y[i]
    <3>1. \A i \in 1 .. n : y[i] \in Python
      <4>1. Len(y) \in Nat /\ \A i \in 1 .. Len(y) : y[i] \in Python
        BY <2>9, LenProperties, ElementOfSeq
      <4> QED
        BY <2>2, <2>8, <4>1
    <3>2. p = [i \in 1 .. n |-> PythonEvent(d[i])]
      BY <2>2
    <3> HIDE DEF p
    <3> QED
      BY <2>2, <2>8, <3>1, <3>2
  <2> HIDE DEF p
  <2>11. Begins(p, y)
    BY <2>8, <2>10 DEF Begins
  <2>12. IsPrefix(p, y)
    BY <2>9, <2>10, <2>11, BeginsIsPrefix
  <2> QED
    BY <2>12 DEF p, d, y
<1> QED
  BY <1>1, ReadInvariant, PTL

-----------------------------------------------------------------------------
(***************************************************************************)
(* The appended events whose records are in the file.                      *)
(***************************************************************************)
LEMMA RecordInFile ==
  ASSUME NEW a \in Seq(Valid), NEW f \in Seq(Byte), NEW i \in 0 .. Len(a),
         i < Len(a), Begins(Upto(a, i + 1), f)
  PROVE  RecordAt(f, Len(Upto(a, i)), Len(Upto(a, i + 1)), a[i + 1])
<1> DEFINE s == Upto(a, i)
           e == a[i + 1]
           u == Upto(a, i + 1)
<1>0. RecordsAreBytes
  BY AllRecordsAreBytes
<1>1. e \in Valid /\ u = s \o RecordOf[e]
  BY <1>0, UptoStep
<1>2. s \in Seq(Byte) /\ Len(s) \in Nat
  BY <1>0, UptoType
<1>3. Begins(u, f)
  OBVIOUS
<1> HIDE DEF s, e, u
<1>4. /\ RecordOf[e] \in Seq(Byte) /\ Len(RecordOf[e]) = 4 + Len(Serialize(e))
      /\ Len(Serialize(e)) \in Nat /\ Deserialize(Serialize(e)) = e
  BY <1>1, RecordFacts
<1>5. Len(u) = Len(s) + 4 + Len(Serialize(e))
  <2>1. Len(s \o RecordOf[e]) = Len(s) + Len(RecordOf[e])
    BY <1>2, <1>4, ConcatProperties
  <2> QED
    BY <1>1, <1>2, <1>4, <2>1
<1>6. Len(u) <= Len(f) /\ Len(f) \in Nat
  BY <1>3, LenProperties DEF Begins
<1>7. /\ Len(f) - Len(s) >= 4 =>
           ReadU32(Slice(f, Len(s) + 1, 4)) = Len(Serialize(e))
      /\ Len(f) - Len(s) >= 4 + Len(Serialize(e)) =>
           Slice(f, Len(s) + 5, Len(Serialize(e))) = Serialize(e)
  <2>1. Begins(s \o RecordOf[e], f) /\ Len(s) <= Len(f)
    BY <1>1, <1>2, <1>3, <1>4, <1>5, <1>6
  <2> QED
    BY <1>1, <1>2, <2>1, RecordBehind
<1>8. SizeAt(f, Len(s)) = Len(Serialize(e))
  BY <1>2, <1>4, <1>5, <1>6, <1>7 DEF SizeAt
<1>9. DataAt(f, Len(s)) = Serialize(e)
  BY <1>2, <1>4, <1>5, <1>6, <1>7, <1>8 DEF DataAt
<1>10. e # Malformed
  BY <1>1, ValidIsDecodable DEF Decodable
<1>11. RecordAt(f, Len(s), Len(u), e)
  BY <1>2, <1>4, <1>5, <1>6, <1>8, <1>9, <1>10 DEF RecordAt
<1> QED
  BY <1>11 DEF s, e, u

\* Records at the beginning of some bytes are read, up to the first symbol that
\* is not ASCII.
LEMMA RecordsAreRead ==
  ASSUME NEW a \in Seq(Valid), NEW bytes \in Seq(Byte), NEW n \in 0 .. Len(a),
         Begins(Upto(a, n), bytes), \A i \in 1 .. n : IsAscii(a[i].symbol),
         NEW f, IterFrom(f, bytes, 0)
  PROVE  Along(f[0], f[Len(Upto(a, n))], a, n)
<1> DEFINE o == [i \in 0 .. n |-> Len(Upto(a, i))]
<1>0. RecordsAreBytes /\ n \in Nat /\ Len(a) \in Nat /\ n <= Len(a)
  BY AllRecordsAreBytes, LenProperties
<1>1. ASSUME NEW i \in 0 .. n
      PROVE  /\ Upto(a, i) \in Seq(Byte) /\ Len(Upto(a, i)) \in Nat
             /\ Begins(Upto(a, i), bytes)
  <2>1. i \in 0 .. Len(a) /\ i <= n
    BY <1>0
  <2>2. Begins(Upto(a, i), Upto(a, n))
    BY <1>0, <2>1, UptoBegins
  <2>3. Upto(a, i) \in Seq(Byte) /\ Upto(a, n) \in Seq(Byte)
        /\ Len(Upto(a, i)) \in Nat
    BY <1>0, <2>1, UptoType
  <2>4. Begins(Upto(a, i), bytes)
    BY <2>2, <2>3, BeginsTransitive
  <2> QED
    BY <2>3, <2>4
<1>2. ASSUME NEW i \in 1 .. n
      PROVE  RecordAt(bytes, Len(Upto(a, i - 1)), Len(Upto(a, i)), a[i])
  <2>1. PICK j \in 0 .. Len(a) : j = i - 1 /\ j + 1 = i /\ j < Len(a)
    BY <1>0
  <2>2. Begins(Upto(a, j + 1), bytes)
    BY <1>1, <2>1
  <2>3. RecordAt(bytes, Len(Upto(a, j)), Len(Upto(a, j + 1)), a[j + 1])
    BY <2>1, <2>2, RecordInFile
  <2> QED
    BY <2>1, <2>3
<1>3. o \in [0 .. n -> Nat]
  BY <1>1
<1>4. o[0] = 0
  BY <1>0, UptoZero
<1>5. ASSUME NEW i \in 1 .. n
      PROVE  RecordAt(bytes, o[i - 1], o[i], a[i]) /\ IsAscii(a[i].symbol)
  <2>1. i - 1 \in 0 .. n /\ i \in 0 .. n
    OBVIOUS
  <2>2. o[i - 1] = Len(Upto(a, i - 1)) /\ o[i] = Len(Upto(a, i))
    BY <2>1
  <2> HIDE DEF o
  <2> QED
    BY <1>2, <2>2
<1>6. o[n] = Len(Upto(a, n))
  BY <1>0
<1> HIDE DEF o
<1>7. Along(f[0], f[o[n]], a, n)
  BY <1>0, <1>3, <1>4, <1>5, IterAlong
<1> QED
  BY <1>6, <1>7

LEMMA KeptInFile ==
  ASSUME StoreInv
  PROVE  LET kept == Kept(Len(file))
         IN  /\ kept \in Seq(Valid) /\ Len(kept) \in 0 .. Len(appended)
             /\ \A i \in 0 .. Len(kept) :
                  i <= Sound => Begins(Upto(kept, i), file)
             /\ intact => Torn(file, kept)
<1> DEFINE m == KeptCount(appended, Len(file))
           kept == SubSeq(appended, 1, m)
<1>0. RecordsAreBytes
  BY AllRecordsAreBytes
<1>1. /\ file \in Seq(Byte) /\ pending \in Seq(Byte) /\ appended \in Seq(Valid)
      /\ Len(file) \in Nat /\ Len(appended) \in Nat
  BY LenProperties DEF StoreInv, StoreTypes
<1>2. Kept(Len(file)) = kept
  BY DEF Kept, KeptCount, Upto
<1>3. m \in 0 .. Len(appended) /\ Len(Upto(appended, m)) <= Len(file)
  BY <1>1, KeptFacts
<1> HIDE DEF m
<1>4. kept \in Seq(Valid) /\ Len(kept) = m /\ \A i \in 1 .. m : kept[i] = appended[i]
  BY <1>0, <1>1, <1>3, UptoType
<1>6. intact => Torn(file, kept)
  <2>1. Written(file, appended) => Torn(file, kept)
    BY <1>1, KeptTorn DEF m
  <2>2. (intact /\ store = "open") => Written(file, appended)
    <3>1. Begins(file, file \o pending)
      BY <1>1, BeginsConcat
    <3> QED
      BY <3>1 DEF StoreInv, Written
  <2>3. (intact /\ store # "open") => Written(file, appended)
    <3>1. Records(appended) \in Seq(Byte)
      BY <1>0, <1>1, RecordsType
    <3>2. Begins(Records(appended), Records(appended))
      BY <3>1, BeginsItself
    <3> QED
      BY <3>2 DEF StoreInv, Written, Torn
  <2> QED
    BY <2>1, <2>2, <2>3
<1> HIDE DEF kept
<1>5. ASSUME NEW i \in 0 .. m, i <= Sound PROVE Begins(Upto(kept, i), file)
  <2>1. /\ i \in 0 .. Sound /\ i \in 0 .. Len(appended) /\ i <= m
        /\ i \in 0 .. Len(kept)
    BY <1>1, <1>3, <1>4, <1>5, SoundIsCount
  <2>2. /\ Upto(appended, i) \in Seq(Byte)
        /\ Begins(Upto(appended, i), file) \/ Begins(file, Upto(appended, i))
    BY <2>1, FileOrRecords
  <2>3. Len(Upto(appended, i)) <= Len(file)
    <3>1. Begins(Upto(appended, i), Upto(appended, m))
      BY <1>0, <1>1, <1>3, <2>1, UptoBegins
    <3>2. Upto(appended, m) \in Seq(Byte)
      BY <1>0, <1>1, <1>3, UptoType
    <3> QED
      BY <1>1, <1>3, <2>2, <3>1, <3>2, LenProperties DEF Begins
  <2>4. Begins(Upto(appended, i), file)
    <3>1. CASE Begins(file, Upto(appended, i))
      <4>1. file = Upto(appended, i)
        BY <1>1, <2>2, <2>3, <3>1, BeginsSameLength
      <4> QED
        BY <3>1, <4>1
    <3> QED
      BY <2>2, <3>1
  <2>5. Upto(kept, i) = Upto(appended, i)
    <3>1. i <= Len(appended) /\ \A j \in 1 .. i : kept[j] = appended[j]
      BY <1>4, <2>1
    <3> QED
      BY <1>0, <1>1, <1>4, <2>1, <3>1, UptoAgree
  <2> QED
    BY <2>4, <2>5
<1> QED
  BY <1>2, <1>3, <1>4, <1>5, <1>6

\* What is behind the records that are read: the end, the first symbol that is
\* not ASCII, or a part of a record.
LEMMA WhereReadingStops ==
  ASSUME NEW a \in Seq(Valid), NEW bytes \in Seq(Byte), Torn(bytes, a),
         NEW n \in 0 .. Len(a), n < Len(a) => ~IsAscii(a[n + 1].symbol),
         NEW f, IterFrom(f, bytes, 0)
  PROVE  /\ f[Len(Upto(a, n))].yielded = <<>>
         /\ f[Len(Upto(a, n))].stop = "ended" <=> bytes = Upto(a, n)
<1> DEFINE s == Upto(a, n)
           p == Len(s)
<1>0. RecordsAreBytes /\ n \in Nat /\ Len(a) \in Nat /\ Len(bytes) \in Nat
  BY AllRecordsAreBytes, LenProperties
<1>1. s \in Seq(Byte) /\ p \in Nat
  BY <1>0, UptoType
<1>2. Begins(Records(a), bytes)
  BY DEF Torn
<1>3. ASSUME NEW o \in 0 .. Len(bytes) PROVE f[o] = Iterated(f, bytes, o)
  BY <1>3 DEF IterFrom
<1>4. "raised" # "ended"
  OBVIOUS
<1>5. CASE n < Len(a)
  <2>1. /\ n + 1 \in 0 .. Len(a) /\ a[n + 1] \in Valid
        /\ Upto(a, n + 1) = s \o RecordOf[a[n + 1]]
    BY <1>0, <1>5, UptoStep
  <2>2. Begins(Upto(a, n + 1), bytes)
    <3>1. Len(a) \in 0 .. Len(a)
      BY <1>0
    <3>2. PICK m \in 0 .. Len(a), k \in 0 .. Len(a) : m = n + 1 /\ k = Len(a)
      BY <2>1, <3>1
    <3>3. Begins(Upto(a, m), Upto(a, k))
      BY <1>0, <3>2, UptoBegins
    <3>4. Upto(a, m) \in Seq(Byte) /\ Upto(a, k) \in Seq(Byte)
      BY <1>0, <3>2, UptoType
    <3>5. Upto(a, k) = Records(a)
      BY <1>0, <3>2, UptoAll
    <3> QED
      BY <1>2, <3>2, <3>3, <3>4, <3>5, BeginsTransitive
  <2>3. RecordAt(bytes, p, Len(Upto(a, n + 1)), a[n + 1])
    BY <1>5, <2>2, RecordInFile
  <2> HIDE DEF s, p
  <2>4. /\ p \in 0 .. Len(bytes) /\ p < Len(bytes)
        /\ ~RefusesRecord(bytes, p)
        /\ PythonDecode(DataAt(bytes, p)) = Malformed
    BY <1>1, <1>5, <2>3, RecordAtRead
  <2>5. f[p] = Raised
    <3>1. f[p] = Iterated(f, bytes, p)
      BY <1>3, <2>4
    <3>2. Iterated(f, bytes, p) = IF Len(bytes) - p < 4 THEN Ended ELSE Raised
      BY <2>4 DEF Iterated
    <3>3. ~(Len(bytes) - p < 4)
      BY <2>4 DEF RefusesRecord
    <3> QED
      BY <3>1, <3>2, <3>3
  <2>6. bytes # s
    BY <1>0, <1>1, <2>4 DEF p
  <2> QED
    BY <1>4, <2>5, <2>6 DEF Raised, s, p
<1>6. CASE n = Len(a)
  <2>1. s = Records(a)
    BY <1>0, <1>6, UptoAll
  <2>2. Begins(s, bytes) /\ p <= Len(bytes)
    BY <1>2, <2>1 DEF Begins
  <2>3. p \in 0 .. Len(bytes)
    BY <1>0, <1>1, <2>2
  <2>4. CASE bytes = s
    <3>1. Len(bytes) - p < 4 /\ ~(p < Len(bytes))
      BY <1>1, <2>4
    <3> HIDE DEF s, p
    <3>2. f[p] = Iterated(f, bytes, p)
      BY <1>3, <2>3
    <3>3. Iterated(f, bytes, p) = Ended
      BY <3>1 DEF Iterated
    <3>4. f[p] = Ended
      BY <3>2, <3>3
    <3> QED
      BY <2>4, <3>4 DEF Ended, s, p
  <2>5. CASE bytes # s
    <3>1. p < Len(bytes)
      BY <1>0, <1>1, <2>2, <2>5, BeginsSameLength
    <3>2. PICK e \in Valid : /\ Begins(bytes, Records(Append(a, e)))
                             /\ Len(bytes) < Len(Records(Append(a, e)))
      BY <2>1, <2>5 DEF Torn
    <3>3. Records(Append(a, e)) = s \o RecordOf[e]
      BY <2>1, RecordsAppend
    <3> HIDE DEF s
    <3>4. /\ RecordOf[e] \in Seq(Byte) /\ Len(Serialize(e)) \in Nat
          /\ Len(RecordOf[e]) = 4 + Len(Serialize(e))
      BY RecordFacts
    <3>5. Len(bytes) < p + 4 + Len(Serialize(e))
      <4>1. Len(s \o RecordOf[e]) = Len(s) + Len(RecordOf[e])
        BY <1>1, <3>4, ConcatProperties
      <4> QED
        BY <1>1, <3>2, <3>3, <3>4, <4>1
    <3>6. Len(bytes) - p >= 4 =>
            ReadU32(Slice(bytes, p + 1, 4)) = Len(Serialize(e))
      BY <1>1, <2>2, <3>2, <3>3, RecordBehind
    <3> HIDE DEF p
    <3>7. RefusesRecord(bytes, p)
      <4>1. CASE Len(bytes) - p < 4
        BY <4>1 DEF RefusesRecord
      <4>2. CASE Len(bytes) - p >= 4
        <5>1. p + 4 + Len(Serialize(e)) > Len(bytes)
          BY <1>0, <1>1, <3>4, <3>5
        <5> QED
          BY <3>6, <4>2, <5>1 DEF RefusesRecord
      <4> QED
        BY <1>0, <1>1, <4>1, <4>2
    <3>8. f[p] = Raised
      BY <1>3, <2>3, <3>1, <3>7 DEF Iterated
    <3> QED
      BY <1>4, <2>5, <3>8 DEF Raised, s, p
  <2> QED
    BY <2>4, <2>5
<1> QED
  BY <1>0, <1>5, <1>6

\* The number of events before the first one with a symbol that is not ASCII.
LEMMA AsciiCount ==
  ASSUME NEW a \in Seq(Valid)
  PROVE  LET n == Max({n \in 0 .. Len(a) : \A i \in 1 .. n : IsAscii(a[i].symbol)})
         IN  /\ n \in 0 .. Len(a)
             /\ \A i \in 1 .. n : IsAscii(a[i].symbol)
             /\ n < Len(a) => ~IsAscii(a[n + 1].symbol)
<1> DEFINE T == {n \in 0 .. Len(a) : \A i \in 1 .. n : IsAscii(a[i].symbol)}
           n == Max(T)
<1>1. Len(a) \in Nat
  BY LenProperties
<1>2. T \in SUBSET (0 .. Len(a)) /\ 0 \in T
  BY <1>1
<1>3. \A k : k \in T <=> /\ k \in 0 .. Len(a)
                         /\ \A i \in 1 .. k : IsAscii(a[i].symbol)
  OBVIOUS
<1> HIDE DEF T
<1>4. n \in T /\ \A x \in T : x <= n
  BY <1>1, <1>2, GreatestUpTo
<1> HIDE DEF n
<1>5. n \in 0 .. Len(a) /\ \A i \in 1 .. n : IsAscii(a[i].symbol)
  BY <1>3, <1>4
<1>6. ASSUME n < Len(a), IsAscii(a[n + 1].symbol) PROVE FALSE
  <2>1. n + 1 \in 0 .. Len(a) /\ ~(n + 1 <= n)
    BY <1>1, <1>5, <1>6
  <2>2. \A i \in 1 .. n + 1 : i \in 1 .. n \/ i = n + 1
    BY <1>5
  <2>3. n + 1 \in T
    BY <1>3, <1>5, <1>6, <2>1, <2>2
  <2> QED
    BY <1>4, <2>1, <2>3
<1> QED
  BY <1>5, <1>6 DEF n, T

\* A Python program gets exactly the events whose records are in the file, up to
\* the first with a symbol that is not ASCII, and its generator ends without an
\* exception only when those are all there is; after a store was opened on part
\* of a record, it still gets the events before that place.
THEOREM PythonReadsWritten == Spec => []PythonReadsWhatWasWritten
<1>1. FileInv => PythonReadsWhatWasWritten
  <2> SUFFICES ASSUME FileInv PROVE PythonReadsWhatWasWritten
    OBVIOUS
  <2> DEFINE kept == Kept(Len(file))
             read == IterEvents(file)
             n == Max({n \in 0 .. Len(kept) :
                         \A i \in 1 .. n : IsAscii(kept[i].symbol)})
  <2>0. RecordsAreBytes
    BY AllRecordsAreBytes
  <2>1. StoreInv /\ file \in Seq(Byte) /\ Sound \in Nat
    BY SoundIsCount DEF FileInv, StoreInv, StoreTypes
  <2>2. /\ kept \in Seq(Valid) /\ Len(kept) \in 0 .. Len(appended)
        /\ \A i \in 0 .. Len(kept) : i <= Sound => Begins(Upto(kept, i), file)
        /\ intact => Torn(file, kept)
    BY <2>1, KeptInFile
  <2>3. /\ n \in 0 .. Len(kept)
        /\ \A i \in 1 .. n : IsAscii(kept[i].symbol)
        /\ n < Len(kept) => ~IsAscii(kept[n + 1].symbol)
    BY <2>2, AsciiCount
  <2>4. PICK f : IterFrom(f, file, 0) /\ read = f[0]
    BY <2>1, IterEventsIsIter
  <2>5. PythonReadsWhatWasWritten <=>
          /\ \A i \in 1 .. n : i <= Sound => /\ i <= Len(read.yielded)
                                             /\ read.yielded[i] = PythonEvent(kept[i])
          /\ intact => /\ Len(read.yielded) = n
                       /\ read.stop = "ended" <=> file = Records(SubSeq(kept, 1, n))
    BY DEF PythonReadsWhatWasWritten
  <2> HIDE DEF kept, read, n
  <2>6. Len(kept) \in Nat
    BY <2>2, LenProperties
  <2>7. ASSUME NEW j \in 0 .. n, j <= Sound
        PROVE  Along(read, f[Len(Upto(kept, j))], kept, j)
    <3>1. /\ j \in 0 .. Len(kept) /\ \A i \in 1 .. j : IsAscii(kept[i].symbol)
      BY <2>3, <2>6
    <3>2. Begins(Upto(kept, j), file)
      BY <2>2, <2>7, <3>1
    <3> QED
      BY <2>1, <2>2, <2>4, <3>1, <3>2, RecordsAreRead
  <2>8. ASSUME NEW i \in 1 .. n, i <= Sound
        PROVE  i <= Len(read.yielded) /\ read.yielded[i] = PythonEvent(kept[i])
    <3>1. i \in 0 .. n /\ i \in Nat /\ i \in 1 .. i
      BY <2>3, <2>6
    <3>2. Along(read, f[Len(Upto(kept, i))], kept, i)
      BY <2>7, <2>8, <3>1
    <3> DEFINE rest == Len(f[Len(Upto(kept, i))].yielded)
    <3>3. /\ rest \in Nat /\ Len(read.yielded) = i + rest
          /\ read.yielded[i] = PythonEvent(kept[i])
      BY <3>1, <3>2 DEF Along
    <3> HIDE DEF rest
    <3> QED
      BY <3>1, <3>3
  <2>9. ASSUME intact
        PROVE  /\ Len(read.yielded) = n
               /\ read.stop = "ended" <=> file = Records(SubSeq(kept, 1, n))
    <3>1. n \in 0 .. n /\ n \in Nat /\ n <= Sound
      <4>1. Sound = Len(appended) /\ Len(appended) \in Nat
        BY <2>1, <2>9, LenProperties DEF Sound, StoreInv, StoreTypes
      <4> QED
        BY <2>2, <2>3, <4>1
    <3>2. Along(read, f[Len(Upto(kept, n))], kept, n)
      BY <2>7, <3>1
    <3>3. /\ f[Len(Upto(kept, n))].yielded = <<>>
          /\ f[Len(Upto(kept, n))].stop = "ended" <=> file = Upto(kept, n)
      BY <2>1, <2>2, <2>3, <2>4, <2>9, WhereReadingStops
    <3>4. Len(read.yielded) = n + 0
      BY <3>2, <3>3 DEF Along
    <3>5. read.stop = f[Len(Upto(kept, n))].stop
      BY <3>2 DEF Along
    <3> QED
      BY <3>1, <3>3, <3>4, <3>5 DEF Upto
  <2> QED
    BY <2>5, <2>8, <2>9
<1> QED
  BY <1>1, FileInvariant, PTL

=============================================================================
