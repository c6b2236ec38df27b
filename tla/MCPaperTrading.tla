------------------------------ MODULE MCPaperTrading -----------------------------
(***************************************************************************)
(* Instances of PaperTrading.                                              *)
(***************************************************************************)
EXTENDS PaperTradingInv

\* Passive entries with one trade per market; immediate orders, for the full
\* size and for what there is, with trades that follow one another.
MCConfigs == {
  [passive |-> TRUE,  full |-> FALSE, oneTrade |-> TRUE,  recordAll |-> FALSE],
  [passive |-> FALSE, full |-> TRUE,  oneTrade |-> FALSE, recordAll |-> FALSE],
  [passive |-> FALSE, full |-> FALSE, oneTrade |-> FALSE, recordAll |-> TRUE] }

===============================================================================
