-------------------------- MODULE MCSimulatedMarket --------------------------
(***************************************************************************)
(* Small instances of SimulatedMarket.                                     *)
(***************************************************************************)
EXTENDS SimulatedMarket

\* A time before the clock's zero, which is_valid refuses, and zero.
MCTimes == {-1, 0}

NoFeed == <<>>
=============================================================================
