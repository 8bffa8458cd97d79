---------------------------- MODULE MCTradeGuard ----------------------------
(* An instance of TradeGuard for TLC: one buy and one sell, the default limits. *)
EXTENDS TradeGuard

OneEach == [d \in Dirs |-> 1]
=============================================================================
