--------------------------- MODULE MCTradeDatasets ---------------------------
(***************************************************************************)
(* Small instances of TradeDatasets.  In Past each of two symbols has the  *)
(* trades that the first row of a dataset needs before it.                 *)
(***************************************************************************)
EXTENDS TradeDatasets

CONSTANTS AAPL, MSFT

MCSteps ==
  [type : {"Trade"}, symbol : {AAPL, MSFT}, delta : {-1, 0, 1}]
  \cup [type : {"Add"}, symbol : {AAPL}, delta : {1}]

OldTrade(n, s) ==
  [sequence_number |-> n, timestamp |-> 1, type |-> "Trade", symbol |-> s]

MCPast == <<OldTrade(1, AAPL), OldTrade(2, AAPL), OldTrade(3, MSFT), OldTrade(4, MSFT)>>

Nothing == <<>>
=============================================================================
