---------------------------- MODULE MCEventFile -----------------------------
(***************************************************************************)
(* Small instances of EventFile and EventReader: an Add, a Trade whose     *)
(* symbol is not ASCII (make_symbol takes any bytes), and an event that    *)
(* is_valid refuses.  A Trade record has 61 bytes, an Add record 70; the   *)
(* cuts fall before everything, in a length, in a timestamp (so that bytes *)
(* of the next record complete it), and in the length of the record after  *)
(* a Trade.                                                                *)
(***************************************************************************)
EXTENDS EventReader

AAPL == <<65, 65, 80, 76, 0, 0, 0, 0>>

Stamped(id, type, payload) ==
  [event_id |-> AsWord(id), sequence_number |-> AsWord(id),
   timestamp |-> AsWord(9), symbol |-> AAPL,
   type |-> type, payload |-> payload]

ATrade ==
  [Stamped(1, "Trade", <<AsWord(300), AsWord(7)>>) EXCEPT !.symbol[1] = 200]
AnAdd == Stamped(2, "Add", <<AsWord(5), EncodedSide.Sell, AsWord(300), AsWord(7)>>)
NotValid == Stamped(3, "Trade", <<AsWord(0), AsWord(7)>>)

MCEvents == {ATrade, AnAdd, NotValid}
=============================================================================
